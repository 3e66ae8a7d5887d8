------------------------- MODULE RustBackend_proofs -------------------------
(* Proofs about the native methods over the tables, for every chain and set  *)
(* of transactions, every pruning depth, anchor offset and batch limit, any  *)
(* order of calls, and a fault at any statement.                             *)
EXTENDS RustBackend, TLAPS, FiniteSetTheorems, WellFoundedInduction

\* Every set of numbers has a least one.
LEMMA LeastNumber ==
  ASSUME NEW S, S \subseteq Nat, S # {}
  PROVE  \E n \in S : \A m \in S : n <= m
<1>1. PICK n \in S : \A m \in S : ~(<<m, n>> \in OpToRel(<, Nat))
  BY NatLessThanWellFounded, WFMin
<1>2. \A m \in S : ~(m < n)
  BY <1>1 DEF OpToRel
<1> QED BY <1>2

\* The results after each of the statements.
IsRun(run, d, body, fault) ==
  /\ run[0] = [ok |-> TRUE, db |-> d, fault |-> fault]
  /\ \A k \in 1 .. Len(body) : run[k] = Advance(run[k - 1], body[k])
  /\ Execute(d, body, fault) = run[Len(body)]

LEMMA RunsAre ==
  ASSUME NEW d, NEW body, NEW fault, Len(body) \in Nat
  PROVE  \E run : IsRun(run, d, body, fault)
<1> DEFINE start == [ok |-> TRUE, db |-> d, fault |-> fault]
           Is(run, n) == run = [k \in 0 .. n |->
                           IF k = 0 THEN start ELSE Advance(run[k - 1], body[k])]
           Bad == {n \in Nat : ~\E run : Is(run, n)}
<1>1. Bad = {}
  <2> SUFFICES ASSUME Bad # {} PROVE FALSE
    OBVIOUS
  <2>1. PICK n \in Bad : \A m \in Bad : n <= m
    BY LeastNumber
  <2>2. n # 0
    <3>1. Is([k \in 0 .. 0 |-> start], 0)
      OBVIOUS
    <3> QED BY <3>1
  <2>3. PICK run : Is(run, n - 1)
    <3>1. n \in Nat /\ n - 1 \in Nat /\ ~(n <= n - 1)
      BY <2>1, <2>2
    <3>2. n - 1 \notin Bad
      BY <2>1, <3>1
    <3> HIDE DEF Is
    <3> QED BY <3>1, <3>2
  <2>4. Is([k \in 0 .. n |-> IF k = n THEN Advance(run[n - 1], body[n]) ELSE run[k]], n)
    <3> DEFINE longer == [k \in 0 .. n |-> IF k = n THEN Advance(run[n - 1], body[n]) ELSE run[k]]
    <3>1. \A k \in 0 .. n :
            longer[k] = IF k = 0 THEN start ELSE Advance(longer[k - 1], body[k])
      <4> TAKE k \in 0 .. n
      <4>1. CASE k = n
        BY <4>1, <2>2
      <4>2. CASE k # n
        <5>1. k \in 0 .. n - 1 /\ longer[k] = run[k] /\ (k # 0 => longer[k - 1] = run[k - 1])
          BY <4>2
        <5> QED BY <5>1, <2>3
      <4> QED BY <4>1, <4>2
    <3> QED BY <3>1
  <2> QED BY <2>4
<1>2. \E run : Is(run, Len(body))
  BY <1>1
<1> DEFINE all == CHOOSE run : Is(run, Len(body))
<1>3. Is(all, Len(body))
  BY <1>2
<1>4. Execute(d, body, fault) = all[Len(body)]
  BY DEF Execute
<1> HIDE DEF all
<1>5. \A k \in 0 .. Len(body) : all[k] = IF k = 0 THEN start ELSE Advance(all[k - 1], body[k])
  BY <1>3
<1>6. 0 \in 0 .. Len(body) /\ \A k \in 1 .. Len(body) : k \in 0 .. Len(body) /\ k # 0
  OBVIOUS
<1> QED BY <1>4, <1>5, <1>6 DEF IsRun

\* The results after each of the heights.
IsScan(run, last, d, blocks, limit, fault) ==
  /\ run[0] = [ok |-> TRUE, db |-> d, fault |-> fault]
  /\ \A h \in 1 .. last :
       run[h] = IF h \in WithBlocks(blocks, LastScanned(d), limit)
                THEN ScanRow(run[h - 1], h, blocks) ELSE run[h - 1]
  /\ ScanCachedBlocks(d, blocks, limit, fault) = run[last]

LEMMA ScanIs ==
  ASSUME NEW d, NEW blocks, NEW limit, NEW fault,
         Max({0} \cup WithBlocks(blocks, LastScanned(d), limit)) \in Nat
  PROVE  \E run : IsScan(run, Max({0} \cup WithBlocks(blocks, LastScanned(d), limit)),
                         d, blocks, limit, fault)
<1> DEFINE rows == WithBlocks(blocks, LastScanned(d), limit)
           last == Max({0} \cup rows)
           start == [ok |-> TRUE, db |-> d, fault |-> fault]
           Row(r, h) == IF h \in rows THEN ScanRow(r, h, blocks) ELSE r
           Is(run, n) == run = [h \in 0 .. n |->
                           IF h = 0 THEN start
                           ELSE IF h \in rows THEN ScanRow(run[h - 1], h, blocks) ELSE run[h - 1]]
           Bad == {n \in Nat : ~\E run : Is(run, n)}
<1>0. last \in Nat
  OBVIOUS
<1> HIDE DEF last, rows
<1>1. Bad = {}
  <2> SUFFICES ASSUME Bad # {} PROVE FALSE
    OBVIOUS
  <2>1. PICK n \in Bad : \A m \in Bad : n <= m
    BY LeastNumber
  <2>2. n # 0
    <3>1. Is([h \in 0 .. 0 |-> start], 0)
      OBVIOUS
    <3> QED BY <3>1
  <2>3. PICK run : Is(run, n - 1)
    <3>1. n \in Nat /\ n - 1 \in Nat /\ ~(n <= n - 1)
      BY <2>1, <2>2
    <3>2. n - 1 \notin Bad
      BY <2>1, <3>1
    <3> HIDE DEF Is
    <3> QED BY <3>1, <3>2
  <2>4. Is([h \in 0 .. n |-> IF h = n THEN Row(run[n - 1], n) ELSE run[h]], n)
    <3> DEFINE longer == [h \in 0 .. n |-> IF h = n THEN Row(run[n - 1], n) ELSE run[h]]
    <3>1. \A h \in 0 .. n :
            longer[h] = IF h = 0 THEN start ELSE Row(longer[h - 1], h)
      <4> TAKE h \in 0 .. n
      <4>1. CASE h = n
        BY <4>1, <2>2
      <4>2. CASE h # n
        <5>1. h \in 0 .. n - 1 /\ longer[h] = run[h] /\ (h # 0 => longer[h - 1] = run[h - 1])
          BY <4>2
        <5> QED BY <5>1, <2>3
      <4> QED BY <4>1, <4>2
    <3> QED BY <3>1
  <2> QED BY <2>4
<1>2. \E run : Is(run, last)
  BY <1>0, <1>1
<1> DEFINE all == CHOOSE run : Is(run, last)
<1>3. Is(all, last)
  BY <1>2
<1>4. ScanCachedBlocks(d, blocks, limit, fault) = all[last]
  BY DEF ScanCachedBlocks, last, rows
<1> HIDE DEF all
<1>5. \A h \in 0 .. last : all[h] = IF h = 0 THEN start ELSE Row(all[h - 1], h)
  BY <1>3
<1>6. 0 \in 0 .. last /\ \A h \in 1 .. last : h \in 0 .. last /\ h # 0
  BY <1>0
<1>7. IsScan(all, last, d, blocks, limit, fault)
  BY <1>4, <1>5, <1>6 DEF IsScan, rows
<1> QED BY <1>7 DEF last, rows

\* The elements of a sequence, whose order a proof need not know.
Items(seq) == {seq[i] : i \in DOMAIN seq}
IsList(seq) == seq = [i \in 1 .. Len(seq) |-> seq[i]] /\ Len(seq) \in Nat

LEMMA ItemsOfSet ==
  ASSUME NEW S, IsFiniteSet(S)
  PROVE  IsList(SetToSeq(S)) /\ Items(SetToSeq(S)) = S
<1> DEFINE n == Cardinality(S)
<1>1. n \in Nat /\ ExistsBijection(1 .. n, S)
  BY FS_CardinalityType
<1>2. \E f \in [1 .. n -> S] : IsInjective(f)
  BY <1>1 DEF ExistsBijection, Bijection, Injection
<1>3. SetToSeq(S) \in [1 .. n -> S] /\ IsInjective(SetToSeq(S))
  BY <1>2 DEF SetToSeq
<1>4. IsFiniteSet(1 .. n) /\ Cardinality(1 .. n) = n
  BY <1>1, FS_Interval
<1>5. SetToSeq(S) \in Injection(1 .. n, S)
  BY <1>3 DEF Injection
<1>6. SetToSeq(S) \in Surjection(1 .. n, S)
  BY <1>4, <1>5, FS_Injection
<1>7. SetToSeq(S) \in Seq(S) /\ Len(SetToSeq(S)) = n
  BY <1>1, <1>3
<1> QED BY <1>1, <1>3, <1>6, <1>7 DEF Items, IsList, Surjection

LEMMA ItemsOfConcat ==
  ASSUME NEW a, NEW b, IsList(a), IsList(b)
  PROVE  /\ IsList(a \o b) /\ Items(a \o b) = Items(a) \cup Items(b)
         /\ Len(a \o b) = Len(a) + Len(b)
         /\ \A i \in 1 .. Len(a) : (a \o b)[i] = a[i]
<1> DEFINE S == Items(a) \cup Items(b)
<1>1. a \in Seq(S) /\ b \in Seq(S)
  BY DEF Items, IsList
<1>2. a \o b \in Seq(S) /\ Len(a \o b) = Len(a) + Len(b)
      /\ \A i \in 1 .. Len(a) + Len(b) :
           (a \o b)[i] = IF i <= Len(a) THEN a[i] ELSE b[i - Len(a)]
  BY <1>1
<1>3. \A i \in 1 .. Len(b) : i + Len(a) \in 1 .. Len(a) + Len(b) /\ (a \o b)[i + Len(a)] = b[i]
  BY <1>2 DEF IsList
<1>4. \A i \in 1 .. Len(a) : i \in 1 .. Len(a) + Len(b) /\ (a \o b)[i] = a[i]
  BY <1>2 DEF IsList
<1>9. IsList(a \o b)
  <2> DEFINE ab == a \o b
  <2>1. ab \in Seq(S)
    BY <1>2
  <2> HIDE DEF ab
  <2>2. Len(ab) \in Nat /\ ab = [i \in 1 .. Len(ab) |-> ab[i]]
    BY <2>1
  <2> QED BY <2>2 DEF IsList, ab
<1>5. Items(a \o b) = {(a \o b)[i] : i \in 1 .. Len(a) + Len(b)}
  BY <1>2, <1>9 DEF Items, IsList
<1>6. DOMAIN a = 1 .. Len(a) /\ DOMAIN b = 1 .. Len(b) /\ Len(a) \in Nat /\ Len(b) \in Nat
  BY DEF IsList
<1>7. \A i \in 1 .. Len(a) + Len(b) : (a \o b)[i] \in S
  BY <1>2, <1>6 DEF Items
<1>8. Items(a \o b) = S
  BY <1>3, <1>4, <1>5, <1>6, <1>7 DEF Items
<1> QED BY <1>2, <1>4, <1>6, <1>8, <1>9

LEMMA ListOf == \A x : IsList(<<x>>) /\ Items(<<x>>) = {x} /\ Len(<<x>>) = 1 /\ <<x>>[1] = x
BY DEF IsList, Items

----------------------------------------------------------------------------
(* What holds of the tables after every statement.                           *)

IsMap(f) == f = [k \in DOMAIN f |-> f[k]]
Shape(d) ==
  /\ d = [tables |-> d.tables, accounts |-> d.accounts, blocks |-> d.blocks,
          transactions |-> d.transactions, received |-> d.received,
          witnesses |-> d.witnesses, sent |-> d.sent, utxos |-> d.utxos]
  /\ d.tables \in Nat
  /\ IsMap(d.transactions) /\ IsMap(d.received) /\ IsMap(d.sent)

\* The scanned blocks go from the checkpoint on, and were in the cache.
BlocksInv(blocks) ==
  /\ blocks \subseteq Birthday .. ChainBound
  /\ \A k \in blocks : \A j \in Birthday .. k : j \in blocks
  /\ \A k \in blocks : k > Birthday => k \in DOMAIN cache

\* A mined transaction is the one of its block.
TxRow(tx, row, blocks) ==
  /\ row = [block |-> row.block, raw |-> row.raw, created |-> row.created]
  /\ row.created \in BOOLEAN
  /\ \/ row.block = Null
     \/ \E k \in blocks : k > Birthday /\ row.block = <<k>> /\ tx \in cache[k]
ReceivedRow(n, row) ==
  /\ DOMAIN row = {"nf", "memo", "change", "spent"}
  /\ row.nf = <<n>> /\ row.memo \in {Null, <<Out(n[1], n[2]).memo>>}
UtxoRow(row) == row = [height |-> row.height, spent |-> row.spent] /\ row.height \in Nat

Base(d) ==
  /\ Shape(d) /\ d.accounts \in {<< >>, <<ViewingKey>>} /\ BlocksInv(d.blocks)
  /\ \A tx \in DOMAIN d.transactions : TxRow(tx, d.transactions[tx], d.blocks)
  /\ \A n \in DOMAIN d.received : ReceivedRow(n, d.received[n])
  /\ \A o \in DOMAIN d.sent : d.sent[o] \in Notices(o[1], o[2])
  /\ \A u \in DOMAIN d.utxos : UtxoRow(d.utxos[u])
  /\ IsFiniteSet(d.witnesses)

\* Nothing that was noted is lost.
Keeps(d, e) ==
  /\ d.accounts # << >> => e.accounts = d.accounts
  /\ DOMAIN d.received \subseteq DOMAIN e.received
  /\ \A n \in DOMAIN d.received : d.received[n].memo # Null => e.received[n].memo # Null
  /\ DOMAIN d.sent \subseteq DOMAIN e.sent
Grows(d, e) == Keeps(d, e) /\ d.blocks \subseteq e.blocks /\ e.accounts = d.accounts

CreatedIn(d) == {tx \in DOMAIN d.transactions : d.transactions[tx].created}

LEMMA GrowsTransitive ==
  ASSUME NEW d, NEW e, NEW f, Grows(d, e), Grows(e, f)
  PROVE  Grows(d, f)
BY DEF Grows, Keeps

LEMMA TablesChange ==
  ASSUME NEW d, Base(d), NEW x \in Nat
  PROVE  LET e == [d EXCEPT !.tables = x]
         IN  Base(e) /\ Grows(d, e) /\ CreatedIn(e) = CreatedIn(d) /\ e.blocks = d.blocks
BY DEF Base, Shape, Grows, Keeps, CreatedIn

LEMMA BlocksChange ==
  ASSUME NEW d, Base(d), NEW x, d.blocks \subseteq x, BlocksInv(x)
  PROVE  LET e == [d EXCEPT !.blocks = x]
         IN  Base(e) /\ Grows(d, e) /\ CreatedIn(e) = CreatedIn(d) /\ e.blocks = x
<1>1. \A tx \in DOMAIN d.transactions : TxRow(tx, d.transactions[tx], x)
  BY DEF Base, TxRow
<1> QED BY <1>1 DEF Base, Shape, Grows, Keeps, CreatedIn

LEMMA TransactionsChange ==
  ASSUME NEW d, Base(d), NEW x, IsMap(x), \A tx \in DOMAIN x : TxRow(tx, x[tx], d.blocks)
  PROVE  LET e == [d EXCEPT !.transactions = x]
         IN  /\ Base(e) /\ Grows(d, e) /\ e.blocks = d.blocks
             /\ CreatedIn(e) = {tx \in DOMAIN x : x[tx].created}
BY DEF Base, Shape, Grows, Keeps, CreatedIn

LEMMA ReceivedChange ==
  ASSUME NEW d, Base(d), NEW x, IsMap(x), \A n \in DOMAIN x : ReceivedRow(n, x[n]),
         DOMAIN d.received \subseteq DOMAIN x,
         \A n \in DOMAIN d.received : d.received[n].memo # Null => x[n].memo # Null
  PROVE  LET e == [d EXCEPT !.received = x]
         IN  Base(e) /\ Grows(d, e) /\ CreatedIn(e) = CreatedIn(d) /\ e.blocks = d.blocks
BY DEF Base, Shape, Grows, Keeps, CreatedIn

LEMMA WitnessesChange ==
  ASSUME NEW d, Base(d), NEW x, IsFiniteSet(x)
  PROVE  LET e == [d EXCEPT !.witnesses = x]
         IN  Base(e) /\ Grows(d, e) /\ CreatedIn(e) = CreatedIn(d) /\ e.blocks = d.blocks
BY DEF Base, Shape, Grows, Keeps, CreatedIn

LEMMA SentChange ==
  ASSUME NEW d, Base(d), NEW x, IsMap(x), \A o \in DOMAIN x : x[o] \in Notices(o[1], o[2]),
         DOMAIN d.sent \subseteq DOMAIN x
  PROVE  LET e == [d EXCEPT !.sent = x]
         IN  Base(e) /\ Grows(d, e) /\ CreatedIn(e) = CreatedIn(d) /\ e.blocks = d.blocks
BY DEF Base, Shape, Grows, Keeps, CreatedIn

LEMMA UtxosChange ==
  ASSUME NEW d, Base(d), NEW x, \A u \in DOMAIN x : UtxoRow(x[u])
  PROVE  LET e == [d EXCEPT !.utxos = x]
         IN  Base(e) /\ Grows(d, e) /\ CreatedIn(e) = CreatedIn(d) /\ e.blocks = d.blocks
BY DEF Base, Shape, Grows, Keeps, CreatedIn

----------------------------------------------------------------------------
(* Statements.                                                               *)

\* The statement is one the bodies issue in these tables.
Legal(d, s) ==
  \/ s.fn = "create_table" /\ s.table \in Nat
  \/ s.fn \in {"mark_sapling_note_spent", "mark_transparent_utxo_spent",
              "delete_utxos", "insert_witness", "prune_witnesses", "update_expired_notes", "panic"}
  \/ s.fn = "insert_block" /\ s.height \in DOMAIN cache /\ s.height - 1 \in d.blocks
  \/ s.fn = "put_tx_meta" /\ s.height \in d.blocks /\ s.height > Birthday /\ s.tx \in cache[s.height]
  \/ s.fn = "put_tx_data" /\ s.created \in BOOLEAN
  \/ s.fn = "put_utxo" /\ s.height \in Nat
  \/ /\ s.fn = "put_received_note" /\ s.nf \in {Null, <<s.note>>}
     /\ s.memo \in {Null, <<Out(s.note[1], s.note[2]).memo>>}
  \/ /\ s.fn \in {"put_sent_note", "insert_sent_note"}
     /\ [to |-> s.to, memo |-> s.memo] \in Notices(s.output[1], s.output[2])

\* What the statement was for is there.
Done(d, s) ==
  /\ s.fn = "insert_block" => s.height \in d.blocks
  /\ s.fn = "put_received_note" =>
       s.note \in DOMAIN d.received /\ (s.memo # Null => d.received[s.note].memo # Null)
  /\ s.fn \in {"put_sent_note", "insert_sent_note"} => s.output \in DOMAIN d.sent
Creates(s) == IF s.fn = "put_tx_data" THEN {tx \in {s.tx} : s.created} ELSE {}
Inserts(s) == IF s.fn = "insert_block" THEN {s.height} ELSE {}

LEMMA DoneStays ==
  ASSUME NEW d, NEW e, NEW s, Grows(d, e), Done(d, s)
  PROVE  Done(e, s)
BY DEF Done, Grows, Keeps

\* A cached block holds one transaction, and what it spends was mined below it.
CacheInv ==
  /\ DOMAIN cache \subseteq Birthday + 1 .. ChainBound
  /\ \A h \in DOMAIN cache : \E tx \in DOMAIN Body :
       /\ cache[h] = {tx}
       /\ \A n \in Body[tx].spends : \E g \in DOMAIN cache : g < h /\ n[1] \in cache[g]

\* What a legal statement makes of the tables.
Follows(d, s, e) ==
  /\ Base(e) /\ Grows(d, e) /\ Done(e, s)
  /\ CreatedIn(e) \subseteq CreatedIn(d) \cup Creates(s)
  /\ e.blocks \subseteq d.blocks \cup Inserts(s)

LEMMA TableFollows ==
  ASSUME NEW d, Base(d), NEW s, Legal(d, s), s.fn = "create_table"
  PROVE  Follows(d, s, CreateTable(d, s)[1])
<1> DEFINE x == IF d.tables < s.table THEN s.table ELSE d.tables
<1>1. CreateTable(d, s)[1] = [d EXCEPT !.tables = x]
  BY DEF CreateTable
<1>2. x \in Nat
  BY DEF Legal, Base, Shape
<1> HIDE DEF x
<1> QED BY <1>1, <1>2, TablesChange DEF Follows, Done, Creates, Inserts

LEMMA BlockFollows ==
  ASSUME CacheInv, NEW d, Base(d), NEW s, Legal(d, s), s.fn = "insert_block",
         InsertBlock(d, s) # Null
  PROVE  Follows(d, s, InsertBlock(d, s)[1])
<1> DEFINE x == d.blocks \cup {s.height}
<1>1. InsertBlock(d, s)[1] = [d EXCEPT !.blocks = x]
  BY DEF InsertBlock
<1>2. s.height \in DOMAIN cache /\ s.height - 1 \in d.blocks /\ BlocksInv(d.blocks)
  BY DEF Legal, Base
<1>3. Birthday \in Nat /\ ChainBound \in Nat /\ s.height \in Birthday + 1 .. ChainBound
  BY <1>2, BackendAssumption DEF CacheInv
<1>4. BlocksInv(x)
  <2>1. x \subseteq Birthday .. ChainBound
    BY <1>2, <1>3 DEF BlocksInv
  <2>2. ASSUME NEW j \in Birthday .. s.height
        PROVE  j \in x
    <3>1. j = s.height \/ j \in Birthday .. s.height - 1
      BY <1>3
    <3> QED BY <3>1, <1>2 DEF BlocksInv
  <2> QED BY <2>1, <2>2, <1>2 DEF BlocksInv
<1>5. [d EXCEPT !.blocks = x].blocks = x
  BY DEF Base, Shape
<1> HIDE DEF x
<1>6. d.blocks \subseteq x /\ s.height \in x /\ x \subseteq d.blocks \cup {s.height}
  BY DEF x
<1> QED BY <1>1, <1>4, <1>5, <1>6, BlocksChange DEF Follows, Done, Creates, Inserts

LEMMA NewTxRow ==
  ASSUME NEW tx, NEW blocks, NEW block, NEW raw, NEW created \in BOOLEAN,
         block = Null \/ \E k \in blocks : k > Birthday /\ block = <<k>> /\ tx \in cache[k]
  PROVE  LET row == [block |-> block, raw |-> raw, created |-> created]
         IN  TxRow(tx, row, blocks) /\ row.created = created
BY DEF TxRow

LEMMA RawTxRow ==
  ASSUME NEW tx, NEW blocks, NEW old, TxRow(tx, old, blocks), NEW raw
  PROVE  LET row == [old EXCEPT !.raw = raw]
         IN  TxRow(tx, row, blocks) /\ row.created = old.created
<1>1. [old EXCEPT !.raw = raw] = [block |-> old.block, raw |-> raw, created |-> old.created]
  BY DEF TxRow
<1>2. /\ old.created \in BOOLEAN
      /\ old.block = Null \/ \E k \in blocks : k > Birthday /\ old.block = <<k>> /\ tx \in cache[k]
  BY DEF TxRow
<1> QED BY <1>1, <1>2, NewTxRow

LEMMA MetaFollows ==
  ASSUME NEW d, Base(d), NEW s, Legal(d, s), s.fn = "put_tx_meta"
  PROVE  Follows(d, s, PutTxMeta(d, s)[1])
<1> DEFINE old == d.transactions
           x == IF s.tx \in DOMAIN old THEN [old EXCEPT ![s.tx].block = <<s.height>>]
                ELSE Put(old, s.tx, [block |-> <<s.height>>, raw |-> FALSE, created |-> FALSE])
<1>1. PutTxMeta(d, s)[1] = [d EXCEPT !.transactions = x]
  BY DEF PutTxMeta
<1>2. s.height \in d.blocks /\ s.height > Birthday /\ s.tx \in cache[s.height]
  BY DEF Legal
<1>3. ASSUME NEW tx \in DOMAIN x
      PROVE  TxRow(tx, x[tx], d.blocks) /\ (x[tx].created => tx \in CreatedIn(d))
  <2>1. CASE s.tx \in DOMAIN old
    <3>1. tx \in DOMAIN old /\ TxRow(tx, old[tx], d.blocks)
      BY <2>1 DEF Base
    <3>2. x[tx] = IF tx = s.tx THEN [old[tx] EXCEPT !.block = <<s.height>>] ELSE old[tx]
      BY <2>1, <3>1
    <3>3. /\ [old[tx] EXCEPT !.block = <<s.height>>].created = old[tx].created
          /\ tx = s.tx => TxRow(tx, [old[tx] EXCEPT !.block = <<s.height>>], d.blocks)
      BY <3>1, <1>2 DEF TxRow
    <3> QED BY <3>1, <3>2, <3>3 DEF CreatedIn
  <2>2. CASE s.tx \notin DOMAIN old
    <3>1. /\ tx = s.tx => x[tx] = [block |-> <<s.height>>, raw |-> FALSE, created |-> FALSE]
          /\ tx # s.tx => tx \in DOMAIN old /\ x[tx] = old[tx]
      BY <2>2 DEF Put
    <3>2. CASE tx = s.tx
      <4>1. \E k \in d.blocks : k > Birthday /\ <<s.height>> = <<k>> /\ tx \in cache[k]
        BY <3>2, <1>2
      <4>2. \A raw : LET row == [block |-> <<s.height>>, raw |-> raw, created |-> FALSE]
                     IN  TxRow(tx, row, d.blocks) /\ row.created = FALSE
        BY <4>1, NewTxRow
      <4>3. TxRow(tx, x[tx], d.blocks) /\ x[tx].created = FALSE
        BY <3>1, <3>2, <4>2
      <4> QED BY <4>3
    <3>3. CASE tx # s.tx
      BY <3>1, <3>3 DEF Base, CreatedIn
    <3> QED BY <3>2, <3>3
  <2> QED BY <2>1, <2>2
<1>4. IsMap(x)
  BY DEF IsMap, Put
<1> HIDE DEF x
<1> QED BY <1>1, <1>3, <1>4, TransactionsChange DEF Follows, Done, Inserts

LEMMA DataFollows ==
  ASSUME NEW d, Base(d), NEW s, Legal(d, s), s.fn = "put_tx_data"
  PROVE  Follows(d, s, PutTxData(d, s)[1])
<1> DEFINE old == d.transactions
           x == IF s.tx \in DOMAIN old THEN [old EXCEPT ![s.tx].raw = TRUE]
                ELSE Put(old, s.tx, [block |-> Null, raw |-> TRUE, created |-> s.created])
<1>1. PutTxData(d, s)[1] = [d EXCEPT !.transactions = x]
  BY DEF PutTxData
<1>2. s.created \in BOOLEAN
  BY DEF Legal
<1>3. ASSUME NEW tx \in DOMAIN x
      PROVE  TxRow(tx, x[tx], d.blocks) /\ (x[tx].created => tx \in CreatedIn(d) \cup Creates(s))
  <2>1. CASE s.tx \in DOMAIN old
    <3>1. tx \in DOMAIN old /\ TxRow(tx, old[tx], d.blocks)
      BY <2>1 DEF Base
    <3>2. x[tx] = IF tx = s.tx THEN [old[tx] EXCEPT !.raw = TRUE] ELSE old[tx]
      BY <2>1, <3>1
    <3>4. /\ [old[tx] EXCEPT !.raw = TRUE].created = old[tx].created
          /\ TxRow(tx, [old[tx] EXCEPT !.raw = TRUE], d.blocks)
      BY <3>1, RawTxRow
    <3> QED BY <3>1, <3>2, <3>4 DEF CreatedIn
  <2>2. CASE s.tx \notin DOMAIN old
    <3>1. /\ tx = s.tx => x[tx] = [block |-> Null, raw |-> TRUE, created |-> s.created]
          /\ tx # s.tx => tx \in DOMAIN old /\ x[tx] = old[tx]
      BY <2>2 DEF Put
    <3>2. CASE tx = s.tx
      BY <3>1, <3>2, <1>2, NewTxRow DEF Creates
    <3>3. CASE tx # s.tx
      BY <3>1, <3>3 DEF Base, CreatedIn
    <3> QED BY <3>2, <3>3
  <2> QED BY <2>1, <2>2
<1>4. IsMap(x)
  BY DEF IsMap, Put
<1> HIDE DEF x
<1> QED BY <1>1, <1>3, <1>4, TransactionsChange DEF Follows, Done, Inserts

\* The received notes when another transaction spends some of them.
Remark(d, keys, spender) ==
  [d EXCEPT !.received = [k \in DOMAIN d.received |->
     IF k \in keys THEN [d.received[k] EXCEPT !.spent = spender] ELSE d.received[k]]]

LEMMA SpentFollows ==
  ASSUME NEW d, Base(d), NEW s, s.fn \notin {"insert_block", "put_received_note", "put_sent_note",
           "insert_sent_note", "put_tx_data"},
         NEW keys, NEW spender
  PROVE  Follows(d, s, Remark(d, keys, spender))
<1> DEFINE old == d.received
           x == [k \in DOMAIN old |-> IF k \in keys THEN [old[k] EXCEPT !.spent = spender] ELSE old[k]]
<1>2. ASSUME NEW n \in DOMAIN old
      PROVE  ReceivedRow(n, x[n]) /\ x[n].memo = old[n].memo
  <2>1. ReceivedRow(n, old[n])
    BY DEF Base
  <2>2. ReceivedRow(n, [old[n] EXCEPT !.spent = spender])
        /\ [old[n] EXCEPT !.spent = spender].memo = old[n].memo
    BY <2>1 DEF ReceivedRow
  <2>3. x[n] = [old[n] EXCEPT !.spent = spender] \/ x[n] = old[n]
    OBVIOUS
  <2> QED BY <2>1, <2>2, <2>3
<1>3. DOMAIN x = DOMAIN old /\ IsMap(x)
  BY DEF IsMap
<1> HIDE DEF x
<1> QED BY <1>2, <1>3, ReceivedChange DEF Follows, Done, Creates, Inserts, x, Remark

LEMMA UtxoSpentFollows ==
  ASSUME NEW d, Base(d), NEW s, s.fn = "mark_transparent_utxo_spent"
  PROVE  Follows(d, s, MarkTransparentUtxoSpent(d, s)[1])
<1> DEFINE old == d.utxos
           x == [k \in DOMAIN old |->
                  IF k \in {s.outpoint} THEN [old[k] EXCEPT !.spent = <<s.tx>>] ELSE old[k]]
<1>1. MarkTransparentUtxoSpent(d, s)[1] = [d EXCEPT !.utxos = x]
  BY DEF Set, MarkTransparentUtxoSpent
<1>2. ASSUME NEW u \in DOMAIN old
      PROVE  UtxoRow(x[u])
  <2>1. UtxoRow(old[u])
    BY DEF Base
  <2>2. [old[u] EXCEPT !.spent = <<s.tx>>] = [height |-> old[u].height, spent |-> <<s.tx>>]
    BY <2>1 DEF UtxoRow
  <2>3. x[u] = [old[u] EXCEPT !.spent = <<s.tx>>] \/ x[u] = old[u]
    OBVIOUS
  <2> QED BY <2>1, <2>2, <2>3 DEF UtxoRow
<1>3. DOMAIN x = DOMAIN old
  OBVIOUS
<1> HIDE DEF x
<1> QED BY <1>1, <1>2, <1>3, UtxosChange DEF Follows, Done, Creates, Inserts

LEMMA UtxoFollows ==
  ASSUME NEW d, Base(d), NEW s, Legal(d, s), s.fn = "put_utxo",
         PutReceivedTransparentUtxo(d, s) # Null
  PROVE  Follows(d, s, PutReceivedTransparentUtxo(d, s)[1])
<1> DEFINE x == Put(d.utxos, s.outpoint, [height |-> s.height, spent |-> Null])
<1>1. PutReceivedTransparentUtxo(d, s)[1] = [d EXCEPT !.utxos = x]
  BY DEF PutReceivedTransparentUtxo
<1>2. \A u \in DOMAIN x : UtxoRow(x[u])
  BY DEF Base, UtxoRow, Legal, Put
<1> HIDE DEF x
<1> QED BY <1>1, <1>2, UtxosChange DEF Follows, Done, Creates, Inserts

LEMMA UtxoGoes ==
  ASSUME NEW d, Base(d), NEW s, s.fn \in {"delete_utxos", "rewind"}
  PROVE  Follows(d, s, DeleteUtxosAbove(d, s)[1])
<1> DEFINE x == [u \in {v \in DOMAIN d.utxos : d.utxos[v].height <= s.height} |-> d.utxos[u]]
<1>1. DeleteUtxosAbove(d, s)[1] = [d EXCEPT !.utxos = x]
  BY DEF DeleteUtxosAbove
<1>2. \A u \in DOMAIN x : UtxoRow(x[u])
  BY DEF Base, UtxoRow
<1> HIDE DEF x
<1> QED BY <1>1, <1>2, UtxosChange DEF Follows, Done, Creates, Inserts

LEMMA NoteFollows ==
  ASSUME NEW d, Base(d), NEW s, Legal(d, s), s.fn = "put_received_note", PutReceivedNote(d, s) # Null
  PROVE  Follows(d, s, PutReceivedNote(d, s)[1])
<1> DEFINE old == d.received
           new == [nf |-> s.nf, memo |-> s.memo, change |-> s.change, spent |-> Null]
           kept == Updated(old[s.note], s)
           row == IF s.note \in DOMAIN old THEN kept ELSE new
           x == Put(old, s.note, row)
<1>1. s.nf \in {Null, <<s.note>>} /\ s.memo \in {Null, <<Out(s.note[1], s.note[2]).memo>>}
  BY DEF Legal
<1>2. PutReceivedNote(d, s)[1] = [d EXCEPT !.received = x]
  <2>1. CASE s.note \in DOMAIN old
    BY <2>1 DEF PutReceivedNote
  <2>2. CASE s.note \notin DOMAIN old
    BY <2>2 DEF PutReceivedNote
  <2> QED BY <2>1, <2>2
<1>3. DOMAIN old \subseteq DOMAIN x /\ s.note \in DOMAIN x /\ IsMap(x)
  <2> HIDE DEF row
  <2> QED BY DEF Put, IsMap
<1>4. ReceivedRow(s.note, row)
  <2>1. CASE s.note \in DOMAIN old
    <3>1. ReceivedRow(s.note, old[s.note])
      BY <2>1 DEF Base
    <3> QED BY <2>1, <3>1, <1>1 DEF ReceivedRow, IfNull, Updated
  <2>2. CASE s.note \notin DOMAIN old
    <3>1. s.nf = <<s.note>>
      BY <2>2, <1>1 DEF PutReceivedNote
    <3> QED BY <2>2, <3>1, <1>1 DEF ReceivedRow
  <2> QED BY <2>1, <2>2
<1>8. \A n \in DOMAIN x : ReceivedRow(n, x[n])
  <2> HIDE DEF row
  <2> QED BY <1>4 DEF Put, Base
<1>9. s.note \in DOMAIN old => kept.memo = IfNull(s.memo, old[s.note].memo)
  BY DEF Updated, Base, ReceivedRow
<1>5. \A n \in DOMAIN old : old[n].memo # Null => x[n].memo # Null
  <2> HIDE DEF kept
  <2> QED BY <1>9 DEF IfNull, Put
<1>6. s.memo # Null => x[s.note].memo # Null
  <2> HIDE DEF kept
  <2> QED BY <1>9 DEF IfNull, Put
<1>7. [d EXCEPT !.received = x].received = x
  BY DEF Base, Shape
<1> HIDE DEF x
<1> QED BY <1>2, <1>3, <1>5, <1>6, <1>7, <1>8, ReceivedChange DEF Follows, Done, Creates, Inserts

LEMMA SentFollows ==
  ASSUME NEW d, Base(d), NEW s, Legal(d, s), s.fn \in {"put_sent_note", "insert_sent_note"}
  PROVE  Follows(d, s, PutSentNote(d, s)[1])
<1> DEFINE x == Put(d.sent, s.output, [to |-> s.to, memo |-> s.memo])
<1>1. PutSentNote(d, s)[1] = [d EXCEPT !.sent = x]
  BY DEF PutSentNote
<1>2. \A o \in DOMAIN x : x[o] \in Notices(o[1], o[2])
  BY DEF Legal, Base, Put
<1>3. DOMAIN d.sent \subseteq DOMAIN x /\ s.output \in DOMAIN x /\ IsMap(x)
  BY DEF Put, IsMap
<1>4. [d EXCEPT !.sent = x].sent = x
  BY DEF Base, Shape
<1> HIDE DEF x
<1> QED BY <1>1, <1>2, <1>3, <1>4, SentChange DEF Follows, Done, Creates, Inserts

LEMMA WitnessFollows ==
  ASSUME NEW d, Base(d), NEW s, s.fn = "insert_witness"
  PROVE  Follows(d, s, InsertWitness(d, s)[1])
<1> DEFINE x == d.witnesses \cup {<<s.note, s.height>>}
<1>1. InsertWitness(d, s)[1] = [d EXCEPT !.witnesses = x]
  BY DEF InsertWitness
<1>2. IsFiniteSet(x)
  BY FS_AddElement DEF Base
<1> HIDE DEF x
<1> QED BY <1>1, <1>2, WitnessesChange DEF Follows, Done, Creates, Inserts

LEMMA PruneFollows ==
  ASSUME NEW d, Base(d), NEW s, s.fn = "prune_witnesses", PruneWitnesses(d, s) # Null
  PROVE  Follows(d, s, PruneWitnesses(d, s)[1])
<1> DEFINE x == {w \in d.witnesses : w[2] >= s.height - PruningHeight}
<1>1. PruneWitnesses(d, s)[1] = [d EXCEPT !.witnesses = x]
  BY DEF PruneWitnesses
<1>2. IsFiniteSet(x)
  BY FS_Subset DEF Base
<1> HIDE DEF x
<1> QED BY <1>1, <1>2, WitnessesChange DEF Follows, Done, Creates, Inserts

LEMMA LegalFollows ==
  ASSUME CacheInv, NEW d, Base(d), NEW s, Legal(d, s), Exec(d, s) # Null
  PROVE  Follows(d, s, Exec(d, s)[1])
<1>1. CASE s.fn = "create_table"
  BY <1>1, TableFollows DEF Exec
<1>2. CASE s.fn = "insert_block"
  BY <1>2, BlockFollows DEF Exec
<1>3. CASE s.fn = "put_tx_meta"
  BY <1>3, MetaFollows DEF Exec
<1>4. CASE s.fn = "put_tx_data"
  BY <1>4, DataFollows DEF Exec
<1>5. CASE s.fn = "mark_sapling_note_spent"
  <2>1. Exec(d, s)[1] = MarkSaplingNoteSpent(d, s)[1]
    BY <1>5 DEF Exec
  <2>2. MarkSaplingNoteSpent(d, s)[1] = Remark(d, {s.nf}, <<s.tx>>)
    BY DEF MarkSaplingNoteSpent, Set, Remark
  <2> QED BY <1>5, <2>1, <2>2, SpentFollows
<1>6. CASE s.fn = "mark_transparent_utxo_spent"
  BY <1>6, UtxoSpentFollows DEF Exec
<1>7. CASE s.fn = "put_utxo"
  BY <1>7, UtxoFollows DEF Exec
<1>8. CASE s.fn = "delete_utxos"
  BY <1>8, UtxoGoes DEF Exec
<1>9. CASE s.fn = "put_received_note"
  BY <1>9, NoteFollows DEF Exec
<1>10. CASE s.fn = "put_sent_note"
  BY <1>10, SentFollows DEF Exec
<1>11. CASE s.fn = "insert_sent_note"
  <2>1. Exec(d, s) = InsertSentNote(d, s)
    BY <1>11 DEF Exec
  <2>2. Exec(d, s) = PutSentNote(d, s)
    BY <2>1 DEF InsertSentNote
  <2> QED BY <1>11, <2>2, SentFollows
<1>12. CASE s.fn = "insert_witness"
  BY <1>12, WitnessFollows DEF Exec
<1>13. CASE s.fn = "prune_witnesses"
  BY <1>13, PruneFollows DEF Exec
<1>14. CASE s.fn = "update_expired_notes"
  <2>1. Exec(d, s)[1] = UpdateExpiredNotes(d, s)[1]
    BY <1>14 DEF Exec
  <2>2. PICK keys : UpdateExpiredNotes(d, s)[1] = Remark(d, keys, Null)
    BY DEF UpdateExpiredNotes, Set, Remark
  <2> QED BY <1>14, <2>1, <2>2, SpentFollows
<1>15. CASE s.fn = "panic"
  BY <1>15 DEF Exec
<1> QED
  BY <1>1, <1>2, <1>3, <1>4, <1>5, <1>6, <1>7, <1>8, <1>9, <1>10, <1>11, <1>12, <1>13, <1>14, <1>15
  DEF Legal

----------------------------------------------------------------------------
(* Bodies.                                                                   *)

IsResult(r) == r = [ok |-> r.ok, db |-> r.db, fault |-> r.fault] /\ r.ok \in BOOLEAN

\* A body whose statements are legal where they come, and what holds of the
\* tables when it ends, or is cut short.
LegalBody(d, body) ==
  /\ Len(body) \in Nat
  /\ \A k \in 1 .. Len(body) : \A e :
       Base(e) /\ Grows(d, e) /\ (\A p \in 1 .. k - 1 : Done(e, body[p])) => Legal(e, body[k])
Adds(body, created, inserted) ==
  \A k \in 1 .. Len(body) : Creates(body[k]) \subseteq created /\ Inserts(body[k]) \subseteq inserted
Ends(d, body, r, created, inserted) ==
  /\ IsResult(r) /\ Base(r.db) /\ Grows(d, r.db)
  /\ CreatedIn(r.db) \subseteq CreatedIn(d) \cup created
  /\ r.db.blocks \subseteq d.blocks \cup inserted
  /\ r.ok => \A p \in 1 .. Len(body) : Done(r.db, body[p])

LEMMA BodyFollows ==
  ASSUME CacheInv, NEW d, Base(d), NEW body, NEW fault, NEW C, NEW B,
         LegalBody(d, body), Adds(body, C, B)
  PROVE  Ends(d, body, Execute(d, body, fault), C, B)
<1>0. PICK run : IsRun(run, d, body, fault)
  BY RunsAre DEF LegalBody
<1> DEFINE n == Len(body)
           Good(k) == /\ IsResult(run[k]) /\ Base(run[k].db) /\ Grows(d, run[k].db)
                      /\ CreatedIn(run[k].db) \subseteq CreatedIn(d) \cup C
                      /\ run[k].db.blocks \subseteq d.blocks \cup B
                      /\ run[k].ok => \A p \in 1 .. k : Done(run[k].db, body[p])
           Bad == {k \in 0 .. n : ~Good(k)}
<1>1. Good(0)
  <2>1. run[0] = [ok |-> TRUE, db |-> d, fault |-> fault]
    BY <1>0 DEF IsRun
  <2>2. run[0].db = d /\ IsResult(run[0])
    BY <2>1 DEF IsResult
  <2> QED BY <2>2 DEF Grows, Keeps
<1>2. ASSUME NEW k \in 1 .. n, Good(k - 1)
      PROVE  Good(k)
  <2> DEFINE r == run[k - 1]
             s == body[k]
  <2>1. run[k] = Advance(r, s)
    BY <1>0 DEF IsRun
  <2>2. k - 1 \in Nat /\ \A p \in 1 .. k : p = k \/ p \in 1 .. k - 1
    OBVIOUS
  <2>3. CASE ~r.ok
    BY <2>1, <2>3, <1>2 DEF Advance
  <2>4. CASE r.ok /\ (r.fault = 1 \/ Exec(r.db, s) = Null)
    <3>1. run[k] = [ok |-> FALSE, db |-> r.db, fault |-> r.fault]
      BY <2>1, <2>4, <1>2 DEF Advance, IsResult
    <3>2. IsResult(run[k]) /\ run[k].db = r.db /\ ~run[k].ok
      BY <3>1 DEF IsResult
    <3> QED BY <3>2, <1>2
  <2>5. CASE r.ok /\ r.fault # 1 /\ Exec(r.db, s) # Null
    <3>1. Legal(r.db, s)
      BY <2>5, <1>2 DEF LegalBody
    <3>2. Follows(r.db, s, Exec(r.db, s)[1])
      BY <3>1, <2>5, <1>2, LegalFollows
    <3>3. run[k] = [ok |-> TRUE, db |-> Exec(r.db, s)[1],
                    fault |-> IF r.fault = 0 THEN 0 ELSE r.fault - 1]
      BY <2>1, <2>5 DEF Advance
    <3>4. IsResult(run[k]) /\ run[k].db = Exec(r.db, s)[1]
      BY <3>3 DEF IsResult
    <3>5. Base(run[k].db) /\ Grows(r.db, run[k].db) /\ Done(run[k].db, s)
          /\ CreatedIn(run[k].db) \subseteq CreatedIn(r.db) \cup Creates(s)
          /\ run[k].db.blocks \subseteq r.db.blocks \cup Inserts(s)
      BY <3>2, <3>4 DEF Follows
    <3>6. Grows(d, run[k].db)
      BY <3>5, <1>2, GrowsTransitive
    <3>7. \A p \in 1 .. k : Done(run[k].db, body[p])
      BY <2>2, <2>5, <3>5, <1>2, DoneStays
    <3> QED BY <3>4, <3>5, <3>6, <3>7, <1>2 DEF Adds
  <2>6. r.ok \in BOOLEAN
    BY <1>2 DEF IsResult
  <2> QED BY <2>3, <2>4, <2>5, <2>6
<1> HIDE DEF Good
<1>3. Bad = {}
  <2> SUFFICES ASSUME Bad # {} PROVE FALSE
    OBVIOUS
  <2>0. Bad \subseteq Nat
    OBVIOUS
  <2>1. PICK k \in Bad : \A m \in Bad : k <= m
    BY <2>0, LeastNumber
  <2>2. k \in 1 .. n /\ k - 1 \in 0 .. n /\ k - 1 < k
    BY <2>1, <1>1
  <2>3. k - 1 \notin Bad
    BY <2>1, <2>2
  <2> QED BY <1>2, <2>1, <2>2, <2>3
<1>4. Good(n)
  BY <1>3 DEF LegalBody
<1> QED BY <1>0, <1>4 DEF Good, IsRun, Ends
\* What the tables know of the blocks and of the transactions created here.
Tables(d) ==
  /\ Base(d)
  /\ \A k \in d.blocks : k > Birthday =>
       \A tx \in cache[k] : \A i \in OwnOutputs(tx) : <<tx, i>> \in DOMAIN d.received
  /\ \A tx \in CreatedIn(d) \cap DOMAIN BuiltPayment : <<tx, BuiltPayment[tx].index>> \in DOMAIN d.sent

\* What a call leaves of them.
Leaves(d, r) == Tables(r.db) /\ Keeps(d, r.db)

LEMMA Account ==
  ASSUME NEW d, d.accounts = <<ViewingKey>>, NEW tx
  PROVE  /\ AccountIds(d) = {0} /\ Received(d, tx) = OwnOutputs(tx) /\ SentBy(d, tx) = PaidOutputs(tx)
<1>1. AccountIds(d) = {0}
  BY DEF AccountIds
<1> QED BY <1>1 DEF Received, OwnOutputs, SentBy, PaidOutputs

LEMMA OutputsAreFinite ==
  ASSUME NEW tx \in DOMAIN Body, NEW S, S \subseteq Outputs(tx)
  PROVE  IsFiniteSet(S)
<1>1. Len(Body[tx].outs) \in Nat
  BY BackendAssumption
<1>2. IsFiniteSet(Outputs(tx))
  BY <1>1, FS_Interval DEF Outputs
<1> QED BY <1>2, FS_Subset

\* Of a bounded set of numbers.
LEMMA Extremes ==
  ASSUME NEW S, NEW n \in Nat, S \subseteq 0 .. n, S # {}
  PROVE  /\ Max(S) \in S /\ \A m \in S : m <= Max(S)
         /\ Min(S) \in S /\ \A m \in S : Min(S) <= m
<1>0. S \subseteq Nat
  OBVIOUS
<1>1. \E m \in S : \A k \in S : m <= k
  BY <1>0, LeastNumber
<1>2. \E m \in S : \A k \in S : k <= m
  <2> DEFINE above == {n - m : m \in S}
  <2>0. \A m \in S : n - m \in Nat
    OBVIOUS
  <2>1. above \subseteq Nat /\ above # {}
    BY <2>0
  <2>2. PICK a \in above : \A b \in above : a <= b
    BY <2>1, LeastNumber
  <2>3. PICK m \in S : a = n - m
    BY <2>2
  <2>4. \A k \in S : n - m <= n - k
    BY <2>2, <2>3
  <2>5. \A k \in S : k \in Int /\ m \in Int /\ (n - m <= n - k => k <= m)
    OBVIOUS
  <2> QED BY <2>4, <2>5
<1> QED BY <1>1, <1>2 DEF Max, Min

\* A transaction's statements, all or none of them.
LEMMA AllOrNothing ==
  ASSUME NEW d, NEW body, NEW fault,
         LET r == Execute(d, body, fault) IN IsResult(r) /\ Tables(d) /\ (r.ok => Leaves(d, r))
  PROVE  LET r == Transactionally(d, body, fault)
         IN  /\ IsResult(r) /\ Leaves(d, r)
             /\ \/ ~r.ok /\ r.db = d
                \/ r.ok /\ r = Execute(d, body, fault)
<1> DEFINE r == Execute(d, body, fault)
<1>1. CASE r.ok
  <2>1. Transactionally(d, body, fault) = r
    BY <1>1 DEF Transactionally
  <2> QED BY <1>1, <2>1
<1>2. CASE ~r.ok
  <2>1. Transactionally(d, body, fault) = [r EXCEPT !.db = d]
    BY <1>2 DEF Transactionally
  <2>2. r = [ok |-> r.ok, db |-> r.db, fault |-> r.fault]
    BY DEF IsResult
  <2> HIDE DEF r
  <2>3. [r EXCEPT !.db = d] = [ok |-> r.ok, db |-> d, fault |-> r.fault]
    BY <2>2
  <2>4. Keeps(d, d) /\ Tables(d) /\ r.ok \in BOOLEAN
    BY DEF Keeps, IsResult, r
  <2> DEFINE t == Transactionally(d, body, fault)
  <2>5. t.ok = r.ok /\ t.db = d /\ t.fault = r.fault /\ t = [ok |-> r.ok, db |-> d, fault |-> r.fault]
    BY <2>1, <2>3
  <2> HIDE DEF t
  <2>6. IsResult(t) /\ Leaves(d, t) /\ ~t.ok
    BY <2>4, <2>5, <1>2 DEF IsResult, Leaves
  <2> QED BY <2>5, <2>6 DEF t
<1> QED BY <1>1, <1>2
LEMMA FiniteImage ==
  ASSUME NEW S, IsFiniteSet(S), NEW T, NEW f \in [S -> T], \A t \in T : \E x \in S : f[x] = t
  PROVE  IsFiniteSet(T)
<1>1. f \in Surjection(S, T)
  BY DEF Surjection
<1> QED BY <1>1, FS_Surjection

\* advance_by_block: the statements of a block's body.
LEMMA BlockBodyIs ==
  ASSUME CacheInv, NEW d, Base(d), d.accounts = <<ViewingKey>>, NEW h \in DOMAIN cache
  PROVE  LET body == BlockBody(d, h, cache[h])
         IN  /\ IsList(body) /\ Len(body) >= 1 /\ body[1] = [fn |-> "insert_block", height |-> h]
             /\ \A s \in Items(body) :
                  \/ s = [fn |-> "insert_block", height |-> h]
                  \/ s.fn \in {"mark_sapling_note_spent", "insert_witness", "prune_witnesses",
                              "update_expired_notes"}
                  \/ s.fn = "put_tx_meta" /\ s.tx \in cache[h] /\ s.height = h
                  \/ s.fn = "put_received_note" /\ s.nf = <<s.note>> /\ s.memo = Null
             /\ \A tx \in cache[h] : \A i \in OwnOutputs(tx) :
                  \E s \in Items(body) : s.fn = "put_received_note" /\ s.note = <<tx, i>>
<1>1. PICK tx \in DOMAIN Body : cache[h] = {tx}
  BY DEF CacheInv
<1> DEFINE relevant == {t \in cache[h] : IsRelevant(d, t)}
           notes == UNION {{<<t, i>> : i \in Received(d, t)} : t \in relevant}
           spent(t) == Spends(t, GetNullifiers(d))
           S1 == {[fn |-> "put_tx_meta", tx |-> t, height |-> h] : t \in relevant}
           S2 == UNION {{[fn |-> "mark_sapling_note_spent", tx |-> t, nf |-> n] : n \in spent(t)} :
                          t \in relevant}
           change(n) == <<spent(n[1]) # {}>>
           S3 == {[fn |-> "put_received_note", note |-> n, nf |-> <<n>>, memo |-> Null,
                   change |-> change(n)] : n \in notes}
           W == notes \cup GetWitnesses(d, h - 1)
           S4 == {[fn |-> "insert_witness", note |-> n, height |-> h] : n \in W}
           L0 == <<[fn |-> "insert_block", height |-> h]>>
           L5 == <<[fn |-> "prune_witnesses", height |-> h], [fn |-> "update_expired_notes", height |-> h]>>
<1>2. BlockBody(d, h, cache[h])
        = L0 \o SetToSeq(S1) \o SetToSeq(S2) \o SetToSeq(S3) \o SetToSeq(S4) \o L5
  BY DEF BlockBody
<1> HIDE DEF change
<1>3. IsFiniteSet(relevant)
  BY <1>1, FS_Singleton, FS_Subset
<1>4. IsFiniteSet(S1)
  <2> DEFINE f == [t \in relevant |-> [fn |-> "put_tx_meta", tx |-> t, height |-> h]]
  <2>1. f \in [relevant -> S1] /\ \A s \in S1 : \E t \in relevant : f[t] = s
    OBVIOUS
  <2> QED BY <2>1, <1>3, FiniteImage
<1>5. IsFiniteSet(S2)
  <2> DEFINE f == [n \in spent(tx) |-> [fn |-> "mark_sapling_note_spent", tx |-> tx, nf |-> n]]
             T == {[fn |-> "mark_sapling_note_spent", tx |-> tx, nf |-> n] : n \in spent(tx)}
  <2>1. IsFiniteSet(spent(tx))
    BY BackendAssumption, FS_Subset DEF Spends
  <2>2. f \in [spent(tx) -> T] /\ \A s \in T : \E n \in spent(tx) : f[n] = s
    OBVIOUS
  <2>3. S2 \subseteq T
    BY <1>1
  <2>4. IsFiniteSet(T)
    BY <2>1, <2>2, FiniteImage
  <2> QED BY <2>3, <2>4, FS_Subset
<1>6. IsFiniteSet(notes)
  <2> DEFINE S == Received(d, tx)
             f == [i \in S |-> <<tx, i>>]
             T == {<<tx, i>> : i \in S}
  <2>1. IsFiniteSet(S)
    BY OutputsAreFinite DEF Received
  <2>2. f \in [S -> T] /\ \A s \in T : \E n \in S : f[n] = s
    OBVIOUS
  <2>3. notes \subseteq T
    BY <1>1
  <2>4. IsFiniteSet(T)
    BY <2>1, <2>2, FiniteImage
  <2> QED BY <2>3, <2>4, FS_Subset
<1>7. IsFiniteSet(W)
  <2> DEFINE A == {x \in d.witnesses : x[2] = h - 1}
             T == {w[1] : w \in A}
             f == [w \in A |-> w[1]]
  <2>1. IsFiniteSet(A)
    BY FS_Subset DEF Base
  <2>2. f \in [A -> T] /\ \A s \in T : \E w \in A : f[w] = s
    OBVIOUS
  <2>3. T = GetWitnesses(d, h - 1)
    BY DEF GetWitnesses
  <2> HIDE DEF T, A, f
  <2>4. IsFiniteSet(T)
    BY <2>1, <2>2, FiniteImage
  <2> QED BY <2>3, <2>4, <1>6, FS_Union
<1>8. IsFiniteSet(S3)
  <2> DEFINE f == [n \in notes |-> [fn |-> "put_received_note", note |-> n, nf |-> <<n>>, memo |-> Null,
                                     change |-> change(n)]]
  <2>1. f \in [notes -> S3] /\ \A s \in S3 : \E n \in notes : f[n] = s
    OBVIOUS
  <2> HIDE DEF f, S3, notes
  <2> QED BY <2>1, <1>6, FiniteImage
<1>9. IsFiniteSet(S4)
  <2> DEFINE f == [n \in W |-> [fn |-> "insert_witness", note |-> n, height |-> h]]
  <2>1. f \in [W -> S4] /\ \A s \in S4 : \E n \in W : f[n] = s
    OBVIOUS
  <2> QED BY <2>1, <1>7, FiniteImage
<1>10. \A s \in S1 : s.fn = "put_tx_meta" /\ s.tx \in cache[h] /\ s.height = h
  OBVIOUS
<1>11. \A s \in S2 : s.fn = "mark_sapling_note_spent"
  OBVIOUS
<1>12. \A s \in S3 : s.fn = "put_received_note" /\ s.nf = <<s.note>> /\ s.memo = Null
  OBVIOUS
<1>13. \A s \in S4 : s.fn = "insert_witness"
  OBVIOUS
<1>14. ASSUME NEW t \in cache[h], NEW i \in OwnOutputs(t)
       PROVE  \E s \in S3 : s.fn = "put_received_note" /\ s.note = <<t, i>>
  <2>1. Received(d, t) = OwnOutputs(t)
    BY Account
  <2>2. t \in relevant /\ <<t, i>> \in notes
    BY <2>1 DEF IsRelevant
  <2> DEFINE s == [fn |-> "put_received_note", note |-> <<t, i>>, nf |-> <<<<t, i>>>>, memo |-> Null,
                   change |-> change(<<t, i>>)]
  <2>3. s \in S3
    BY <2>2
  <2>4. s.fn = "put_received_note" /\ s.note = <<t, i>>
    OBVIOUS
  <2> HIDE DEF s, S3
  <2> QED BY <2>3, <2>4
<1>15. IsList(L0) /\ Len(L0) = 1 /\ L0[1] = [fn |-> "insert_block", height |-> h] /\ Items(L0) = {L0[1]}
  BY ListOf
<1>16. /\ IsList(L5)
       /\ \A s \in Items(L5) : s.fn \in {"prune_witnesses", "update_expired_notes"}
  BY DEF IsList, Items
<1> HIDE DEF S1, S2, S3, S4, L0, L5
<1> DEFINE M1 == L0 \o SetToSeq(S1)
           M2 == M1 \o SetToSeq(S2)
           M3 == M2 \o SetToSeq(S3)
           M4 == M3 \o SetToSeq(S4)
           M5 == M4 \o L5
<1>17. /\ IsList(M1) /\ Items(M1) = Items(L0) \cup S1
       /\ Len(M1) = Len(L0) + Len(SetToSeq(S1)) /\ M1[1] = L0[1]
  <2>1. IsList(SetToSeq(S1)) /\ Items(SetToSeq(S1)) = S1
    BY <1>4, ItemsOfSet
  <2> DEFINE L1 == SetToSeq(S1)
  <2> HIDE DEF L1
  <2>2. IsList(L1) /\ Items(L1) = S1
    BY <2>1 DEF L1
  <2>3. /\ IsList(L0 \o L1) /\ Items(L0 \o L1) = Items(L0) \cup S1
        /\ Len(L0 \o L1) = Len(L0) + Len(L1)
        /\ \A i \in 1 .. Len(L0) : (L0 \o L1)[i] = L0[i]
    BY <2>2, <1>15, ItemsOfConcat
  <2>4. (L0 \o L1)[1] = L0[1]
    BY <2>3, <1>15
  <2>5. M1 = L0 \o L1
    BY DEF L1
  <2> QED BY <2>3, <2>4, <2>5 DEF L1
<1> HIDE DEF M1
<1>18. Len(M1) >= 1
  BY <1>17, <1>15, <1>4, ItemsOfSet DEF IsList
<1>19. IsList(M2) /\ Items(M2) = Items(M1) \cup S2 /\ Len(M2) >= 1 /\ M2[1] = M1[1]
  BY <1>5, <1>17, <1>18, ItemsOfSet, ItemsOfConcat DEF IsList
<1> HIDE DEF M2
<1>20. IsList(M3) /\ Items(M3) = Items(M2) \cup S3 /\ Len(M3) >= 1 /\ M3[1] = M2[1]
  BY <1>8, <1>19, ItemsOfSet, ItemsOfConcat DEF IsList
<1> HIDE DEF M3
<1>21. IsList(M4) /\ Items(M4) = Items(M3) \cup S4 /\ Len(M4) >= 1 /\ M4[1] = M3[1]
  BY <1>9, <1>20, ItemsOfSet, ItemsOfConcat DEF IsList
<1> HIDE DEF M4
<1>22. IsList(M5) /\ Items(M5) = Items(M4) \cup Items(L5) /\ Len(M5) >= 1 /\ M5[1] = M4[1]
  BY <1>16, <1>21, ItemsOfConcat DEF IsList
<1> HIDE DEF M5
<1>23. BlockBody(d, h, cache[h]) = M5
  BY <1>2 DEF M1, M2, M3, M4, M5
<1>24. Items(M5) = {L0[1]} \cup S1 \cup S2 \cup S3 \cup S4 \cup Items(L5)
  BY <1>15, <1>17, <1>19, <1>20, <1>21, <1>22
<1>25. M5[1] = L0[1]
  BY <1>17, <1>19, <1>20, <1>21, <1>22
<1> QED BY <1>10, <1>11, <1>12, <1>13, <1>14, <1>15, <1>16, <1>22, <1>23, <1>24, <1>25

\* The next block, scanned or not.
LEMMA RowLeaves ==
  ASSUME CacheInv, NEW d, Tables(d), d.accounts = <<ViewingKey>>,
         NEW h \in DOMAIN cache, h = LastScanned(d) + 1, NEW fault
  PROVE  LET r == Transactionally(d, BlockBody(d, h, cache[h]), fault)
         IN  /\ IsResult(r) /\ Leaves(d, r) /\ r.db.accounts = d.accounts
             /\ r.ok => h \in r.db.blocks /\ r.db.blocks \subseteq d.blocks \cup {h}
             /\ ~r.ok => r.db = d
<1> DEFINE body == BlockBody(d, h, cache[h])
           r == Execute(d, body, fault)
<1>1. h \in Birthday + 1 .. ChainBound /\ Birthday \in Nat /\ ChainBound \in Nat
      /\ SaplingActivation \in Nat /\ SaplingActivation <= Birthday
  BY BackendAssumption DEF CacheInv
<1>2. h - 1 \in d.blocks
  <2>1. d.blocks # {}
    BY <1>1 DEF LastScanned
  <2>2. d.blocks \subseteq 0 .. ChainBound
    BY <1>1 DEF Tables, Base, BlocksInv
  <2>3. Max(d.blocks) \in d.blocks
    BY <1>1, <2>1, <2>2, Extremes
  <2>4. h = Max(d.blocks) + 1 /\ Max(d.blocks) \in Nat
    BY <2>1, <2>2, <2>3 DEF LastScanned
  <2> QED BY <2>3, <2>4
<1>3. /\ IsList(body) /\ Len(body) >= 1 /\ body[1] = [fn |-> "insert_block", height |-> h]
      /\ \A s \in Items(body) :
                  \/ s = [fn |-> "insert_block", height |-> h]
                  \/ s.fn \in {"mark_sapling_note_spent", "insert_witness", "prune_witnesses",
                              "update_expired_notes"}
                  \/ s.fn = "put_tx_meta" /\ s.tx \in cache[h] /\ s.height = h
                  \/ s.fn = "put_received_note" /\ s.nf = <<s.note>> /\ s.memo = Null
      /\ \A tx \in cache[h] : \A i \in OwnOutputs(tx) :
                  \E s \in Items(body) : s.fn = "put_received_note" /\ s.note = <<tx, i>>
  BY BlockBodyIs DEF Tables
<1> HIDE DEF body
<1>4. \A k \in 1 .. Len(body) : body[k] \in Items(body)
  BY <1>3 DEF IsList, Items
<1>5. \A s \in Items(body) : \E k \in 1 .. Len(body) : s = body[k]
  BY <1>3 DEF IsList, Items
<1>6. Adds(body, {}, {h})
  BY <1>3, <1>4 DEF Adds, Creates, Inserts
<1>7. ASSUME NEW k \in 1 .. Len(body), NEW e, Base(e), Grows(d, e),
             \A p \in 1 .. k - 1 : Done(e, body[p])
      PROVE  Legal(e, body[k])
  <2> DEFINE s == body[k]
  <2>1. CASE s = [fn |-> "insert_block", height |-> h]
    BY <2>1, <1>2, <1>7 DEF Legal, Grows
  <2>2. CASE s # [fn |-> "insert_block", height |-> h]
    <3>1. k # 1 /\ 1 \in 1 .. k - 1
      BY <2>2, <1>3
    <3>2. Done(e, [fn |-> "insert_block", height |-> h])
      BY <3>1, <1>3, <1>7
    <3>3. h \in e.blocks /\ h > Birthday
      BY <3>2, <1>1 DEF Done
    <3>4. s \in Items(body)
      BY <1>4
    <3> SUFFICES Legal(e, s)
      OBVIOUS
    <3> HIDE DEF s
    <3>5. CASE s.fn \in {"mark_sapling_note_spent", "insert_witness", "prune_witnesses",
                         "update_expired_notes"}
      BY <3>5 DEF Legal
    <3>6. CASE s.fn = "put_tx_meta" /\ s.tx \in cache[h] /\ s.height = h
      BY <3>3, <3>6 DEF Legal
    <3>7. CASE s.fn = "put_received_note" /\ s.nf = <<s.note>> /\ s.memo = Null
      BY <3>7 DEF Legal
    <3> QED BY <2>2, <3>4, <3>5, <3>6, <3>7, <1>3
  <2> QED BY <2>1, <2>2
<1>8. LegalBody(d, body) /\ Base(d)
  BY <1>3, <1>7 DEF IsList, Tables, LegalBody
<1>13. Ends(d, body, r, {}, {h})
  BY <1>6, <1>8, BodyFollows
<1>9. /\ IsResult(r) /\ Base(r.db) /\ Grows(d, r.db)
      /\ CreatedIn(r.db) \subseteq CreatedIn(d) /\ r.db.blocks \subseteq d.blocks \cup {h}
      /\ r.ok => \A p \in 1 .. Len(body) : Done(r.db, body[p])
  BY <1>13 DEF Ends
<1> HIDE DEF r
<1>10. ASSUME r.ok
       PROVE  Leaves(d, r)
  <2>1. ASSUME NEW k \in r.db.blocks, k > Birthday, NEW tx \in cache[k], NEW i \in OwnOutputs(tx)
        PROVE  <<tx, i>> \in DOMAIN r.db.received
    <3>1. CASE k \in d.blocks
      BY <3>1, <2>1, <1>9 DEF Tables, Grows, Keeps
    <3>2. CASE k = h
      <4>1. PICK s \in Items(body) : s.fn = "put_received_note" /\ s.note = <<tx, i>>
        BY <3>2, <1>3
      <4>2. Done(r.db, s)
        BY <1>5, <1>9, <1>10
      <4> QED BY <4>1, <4>2 DEF Done
    <3> QED BY <3>1, <3>2, <1>9
  <2>2. \A tx \in CreatedIn(r.db) \cap DOMAIN BuiltPayment : <<tx, BuiltPayment[tx].index>> \in DOMAIN r.db.sent
    BY <1>9 DEF Tables, Grows, Keeps
  <2> QED BY <2>1, <2>2, <1>9 DEF Leaves, Tables, Grows
<1> DEFINE t == Transactionally(d, body, fault)
<1>11. IsResult(t) /\ Leaves(d, t) /\ ((~t.ok /\ t.db = d) \/ (t.ok /\ t = r))
  BY <1>9, <1>10, AllOrNothing DEF r
<1>12. t.db.accounts = d.accounts
  BY <1>9, <1>11 DEF Grows
<1>14. ASSUME t.ok
       PROVE  h \in t.db.blocks /\ t.db.blocks \subseteq d.blocks \cup {h}
  <2>1. t = r /\ Done(r.db, body[1]) /\ body[1] = [fn |-> "insert_block", height |-> h]
    BY <1>3, <1>9, <1>11, <1>14 DEF IsList
  <2>2. h \in r.db.blocks
    BY <2>1 DEF Done
  <2> QED BY <1>9, <2>1, <2>2
<1>15. ~t.ok => t.db = d
  BY <1>11
<1>16. IsResult(t) /\ Leaves(d, t)
  BY <1>11
<1> QED BY <1>12, <1>14, <1>15, <1>16 DEF body

LEMMA KeepsTransitive ==
  ASSUME NEW d, NEW e, NEW f, Keeps(d, e), Keeps(e, f)
  PROVE  Keeps(d, f)
BY DEF Keeps

\* scan_cached_blocks, whatever block it stops at.
LEMMA ScanLeaves ==
  ASSUME CacheInv, NEW d, Tables(d), d.accounts = <<ViewingKey>>, NEW limit, NEW fault
  PROVE  LET r == ScanCachedBlocks(d, cache, limit, fault) IN IsResult(r) /\ Leaves(d, r)
<1> DEFINE rows == WithBlocks(cache, LastScanned(d), limit)
<1>1. rows \subseteq DOMAIN cache
  BY DEF WithBlocks
<1> HIDE DEF rows
<1>2. Max({0} \cup rows) \in Nat
  <2> DEFINE S == {0} \cup rows
  <2>0. ChainBound \in Nat /\ Birthday \in Nat
    BY BackendAssumption
  <2>1. ChainBound \in Nat /\ S \subseteq 0 .. ChainBound /\ S # {}
    BY <1>1, <2>0 DEF CacheInv
  <2> HIDE DEF S
  <2>2. Max(S) \in S
    BY <2>1, Extremes
  <2> QED BY <2>1, <2>2 DEF S
<1> DEFINE last == Max({0} \cup rows)
<1>3. last \in Nat
  BY <1>2
<1>4. PICK run : IsScan(run, last, d, cache, limit, fault)
  BY <1>2, ScanIs DEF rows
<1> HIDE DEF last
<1> DEFINE Good(h) == /\ IsResult(run[h]) /\ Leaves(d, run[h])
                      /\ run[h].db.accounts = <<ViewingKey>>
           Bad == {h \in 0 .. last : ~Good(h)}
<1>5. Good(0)
  <2>1. run[0] = [ok |-> TRUE, db |-> d, fault |-> fault]
    BY <1>4 DEF IsScan
  <2>2. run[0].db = d /\ IsResult(run[0])
    BY <2>1 DEF IsResult
  <2> QED BY <2>2 DEF Leaves, Keeps
<1>6. ASSUME NEW h \in 1 .. last, Good(h - 1)
      PROVE  Good(h)
  <2> DEFINE r == run[h - 1]
  <2>1. run[h] = IF h \in rows THEN ScanRow(r, h, cache) ELSE r
    BY <1>4 DEF IsScan, rows
  <2>2. CASE h \notin rows \/ ~r.ok
    BY <2>1, <2>2, <1>6 DEF ScanRow
  <2>3. CASE h \in rows /\ r.ok /\ h # LastScanned(r.db) + 1
    <3>1. run[h] = [ok |-> FALSE, db |-> r.db, fault |-> r.fault]
      BY <2>1, <2>3, <1>6 DEF ScanRow, IsResult
    <3>2. IsResult(run[h]) /\ run[h].db = r.db
      BY <3>1 DEF IsResult
    <3> QED BY <3>2, <1>6 DEF Leaves
  <2>4. CASE h \in rows /\ r.ok /\ h = LastScanned(r.db) + 1
    <3>1. run[h] = Transactionally(r.db, BlockBody(r.db, h, cache[h]), r.fault)
      BY <2>1, <2>4 DEF ScanRow
    <3>2. Tables(r.db) /\ Keeps(d, r.db) /\ r.db.accounts = <<ViewingKey>> /\ h \in DOMAIN cache
      BY <2>4, <1>1, <1>6 DEF Leaves
    <3>3. IsResult(run[h]) /\ Leaves(r.db, run[h]) /\ run[h].db.accounts = r.db.accounts
      BY <3>1, <3>2, <2>4, RowLeaves
    <3>4. Keeps(d, run[h].db)
      BY <3>2, <3>3, KeepsTransitive DEF Leaves
    <3> QED BY <3>2, <3>3, <3>4 DEF Leaves
  <2>5. r.ok \in BOOLEAN
    BY <1>6 DEF IsResult
  <2> QED BY <2>2, <2>3, <2>4, <2>5
<1> HIDE DEF Good
<1>7. Bad = {}
  <2> SUFFICES ASSUME Bad # {} PROVE FALSE
    OBVIOUS
  <2>0. Bad \subseteq Nat
    OBVIOUS
  <2>1. PICK h \in Bad : \A m \in Bad : h <= m
    BY <2>0, LeastNumber
  <2>2. h \in 1 .. last /\ h - 1 \in 0 .. last /\ h - 1 < h
    BY <2>1, <1>3, <1>5
  <2>3. h - 1 \notin Bad
    BY <2>1, <2>2
  <2> QED BY <1>6, <2>1, <2>2, <2>3
<1>8. Good(last)
  BY <1>3, <1>7
<1> QED BY <1>4, <1>8 DEF Good, IsScan

\* No transaction is mined above the height.
NoneAbove(d, height) ==
  \A tx \in DOMAIN d.transactions : Mined(d, tx) => ~(MinedAt(d, tx) > height)

\* The statements of a rewind: nothing noted goes with the blocks.
LEMMA RewindStep ==
  ASSUME NEW d, Tables(d), NEW height \in Int, NEW part \in 1 .. 6, NEW s,
         s.fn = "rewind", s.part = part, s.height = height, part > 2 => NoneAbove(d, height)
  PROVE  LET e == Exec(d, s)[1]
         IN  /\ Exec(d, s) # Null /\ Tables(e) /\ Keeps(d, e)
             /\ part >= 2 => NoneAbove(e, height)
<1> DEFINE e == Exec(d, s)[1]
<1>1. Exec(d, s) = RewindStatement(d, s) /\ Base(d)
  BY DEF Exec, Tables
<1>2. ASSUME NEW f, Base(f), Grows(d, f), CreatedIn(f) = CreatedIn(d), f.blocks \subseteq d.blocks
      PROVE  Tables(f) /\ Keeps(d, f)
  BY <1>2 DEF Tables, Grows, Keeps
<1>3. CASE part = 1
  <2> DEFINE x == {w \in d.witnesses : ~(w[2] > height)}
  <2>1. RewindStatement(d, s) = <<[d EXCEPT !.witnesses = x]>>
    BY <1>3 DEF RewindStatement
  <2>2. IsFiniteSet(x)
    BY <1>1, FS_Subset DEF Base
  <2> HIDE DEF x
  <2>3. e = [d EXCEPT !.witnesses = x] /\ Exec(d, s) # Null
    BY <1>1, <2>1 DEF Null
  <2>4. Tables(e) /\ Keeps(d, e)
    BY <1>1, <1>2, <2>2, <2>3, WitnessesChange
  <2> QED BY <1>3, <2>3, <2>4
<1>4. CASE part = 2
  <2> DEFINE of == {tx \in DOMAIN d.transactions : Mined(d, tx) /\ MinedAt(d, tx) > height}
             x == [tx \in DOMAIN d.transactions |->
                    IF tx \in of THEN [d.transactions[tx] EXCEPT !.block = Null] ELSE d.transactions[tx]]
  <2>1. RewindStatement(d, s) = <<[d EXCEPT !.transactions = x]>>
    BY <1>4 DEF RewindStatement, Set
  <2>2. ASSUME NEW tx \in DOMAIN x
        PROVE  TxRow(tx, x[tx], d.blocks) /\ x[tx].created = d.transactions[tx].created
               /\ (x[tx].block # Null => ~(x[tx].block[1] > height))
    <3>1. TxRow(tx, d.transactions[tx], d.blocks)
      BY <1>1 DEF Base
    <3>2. TxRow(tx, [d.transactions[tx] EXCEPT !.block = Null], d.blocks)
          /\ [d.transactions[tx] EXCEPT !.block = Null].created = d.transactions[tx].created
          /\ [d.transactions[tx] EXCEPT !.block = Null].block = Null
      BY <3>1 DEF TxRow
    <3>3. CASE tx \in of
      BY <3>2, <3>3
    <3>4. CASE tx \notin of
      BY <3>1, <3>4 DEF Mined, MinedAt
    <3> QED BY <3>3, <3>4
  <2>3. {tx \in DOMAIN x : x[tx].created} = CreatedIn(d)
    BY <2>2 DEF CreatedIn
  <2>4. [d EXCEPT !.transactions = x].transactions = x /\ IsMap(x)
    BY <1>1 DEF Base, Shape, IsMap
  <2> HIDE DEF x
  <2>5. e = [d EXCEPT !.transactions = x] /\ Exec(d, s) # Null
    BY <1>1, <2>1 DEF Null
  <2>6. Tables(e) /\ Keeps(d, e)
    BY <1>1, <1>2, <2>2, <2>3, <2>4, <2>5, TransactionsChange
  <2>7. NoneAbove(e, height)
    BY <2>2, <2>4, <2>5 DEF NoneAbove, Mined, MinedAt
  <2> QED BY <2>5, <2>6, <2>7
<1>5. CASE part = 3
  <2> DEFINE x == {k \in d.blocks : ~(k > height)}
  <2>1. RewindStatement(d, s) = <<[d EXCEPT !.blocks = x]>>
    BY <1>5 DEF RewindStatement
  <2>2. BlocksInv(d.blocks) /\ d.blocks \subseteq Int /\ Birthday \in Nat
    BY <1>1, BackendAssumption DEF Base, BlocksInv
  <2>3. BlocksInv(x)
    BY <2>2 DEF BlocksInv
  <2>4. \A tx \in DOMAIN d.transactions : TxRow(tx, d.transactions[tx], x)
    <3> TAKE tx \in DOMAIN d.transactions
    <3>1. TxRow(tx, d.transactions[tx], d.blocks)
      BY <1>1 DEF Base
    <3>2. d.transactions[tx].block # Null => ~(d.transactions[tx].block[1] > height)
      BY <1>5 DEF NoneAbove, Mined, MinedAt
    <3> QED BY <3>1, <3>2 DEF TxRow
  <2>5. x \subseteq d.blocks
    OBVIOUS
  <2> DEFINE f == [d EXCEPT !.blocks = x]
  <2> HIDE DEF x
  <2>6. e = f /\ Exec(d, s) # Null
    BY <1>1, <2>1 DEF Null
  <2>7. f = [tables |-> d.tables, accounts |-> d.accounts, blocks |-> x,
       transactions |-> d.transactions, received |-> d.received,
       witnesses |-> d.witnesses, sent |-> d.sent, utxos |-> d.utxos]
    BY <1>1 DEF Base, Shape
  <2> HIDE DEF f
  <2>8. Base(f)
    BY <1>1, <2>3, <2>4, <2>7 DEF Base, Shape
  <2>9. Tables(f) /\ Keeps(d, f)
    BY <2>5, <2>7, <2>8 DEF Tables, Keeps, CreatedIn
  <2>10. NoneAbove(f, height)
    BY <2>7, <1>5 DEF NoneAbove, Mined, MinedAt
  <2> QED BY <2>6, <2>9, <2>10
<1>6. CASE part = 4
  <2> DEFINE of == {n \in DOMAIN d.received : Mined(d, n[1]) /\ MinedAt(d, n[1]) > height}
             x == [n \in DOMAIN d.received \ of |-> d.received[n]]
  <2>1. RewindStatement(d, s) = <<[d EXCEPT !.received = x]>>
    BY <1>6 DEF RewindStatement
  <2>2. of = {}
    BY <1>6 DEF NoneAbove, Mined
  <2>3. DOMAIN x = DOMAIN d.received /\ (\A n \in DOMAIN x : x[n] = d.received[n]) /\ IsMap(x)
    BY <2>2 DEF IsMap
  <2> HIDE DEF x
  <2>4. e = [d EXCEPT !.received = x] /\ Exec(d, s) # Null
    BY <1>1, <2>1 DEF Null
  <2>5. \A n \in DOMAIN x : ReceivedRow(n, x[n])
    BY <1>1, <2>3 DEF Base
  <2>6. Tables(e) /\ Keeps(d, e)
    BY <1>1, <1>2, <2>3, <2>4, <2>5, ReceivedChange
  <2>7. NoneAbove(e, height)
    BY <2>4, <1>1, <1>6 DEF NoneAbove, Mined, MinedAt, Base, Shape
  <2> QED BY <2>4, <2>6, <2>7
<1>7. CASE part = 5
  <2> DEFINE of == {n \in DOMAIN d.sent : Mined(d, n[1]) /\ MinedAt(d, n[1]) > height}
             x == [n \in DOMAIN d.sent \ of |-> d.sent[n]]
  <2>1. RewindStatement(d, s) = <<[d EXCEPT !.sent = x]>>
    BY <1>7 DEF RewindStatement
  <2>2. of = {}
    BY <1>7 DEF NoneAbove, Mined
  <2>3. DOMAIN x = DOMAIN d.sent /\ (\A n \in DOMAIN x : x[n] = d.sent[n]) /\ IsMap(x)
    BY <2>2 DEF IsMap
  <2> HIDE DEF x
  <2>4. e = [d EXCEPT !.sent = x] /\ Exec(d, s) # Null
    BY <1>1, <2>1 DEF Null
  <2>5. \A o \in DOMAIN x : x[o] \in Notices(o[1], o[2])
    BY <1>1, <2>3 DEF Base
  <2>6. Tables(e) /\ Keeps(d, e)
    BY <1>1, <1>2, <2>3, <2>4, <2>5, SentChange
  <2>7. NoneAbove(e, height)
    BY <2>4, <1>1, <1>7 DEF NoneAbove, Mined, MinedAt, Base, Shape
  <2> QED BY <2>4, <2>6, <2>7
<1>8. CASE part = 6
  <2> DEFINE x == [u \in {v \in DOMAIN d.utxos : d.utxos[v].height <= s.height} |-> d.utxos[u]]
  <2>1. RewindStatement(d, s) = <<[d EXCEPT !.utxos = x]>>
    BY <1>8 DEF RewindStatement, DeleteUtxosAbove
  <2>2. \A u \in DOMAIN x : UtxoRow(x[u])
    BY <1>1 DEF Base
  <2> HIDE DEF x
  <2>4. e = [d EXCEPT !.utxos = x] /\ Exec(d, s) # Null
    BY <1>1, <2>1 DEF Null
  <2>6. Tables(e) /\ Keeps(d, e)
    BY <1>1, <1>2, <2>2, <2>4, UtxosChange
  <2>7. NoneAbove(e, height)
    BY <2>4, <1>1, <1>8 DEF NoneAbove, Mined, MinedAt, Base, Shape
  <2> QED BY <2>4, <2>6, <2>7
<1>9. part = 1 \/ part = 2 \/ part = 3 \/ part = 4 \/ part = 5 \/ part = 6
  OBVIOUS
<1> QED BY <1>3, <1>4, <1>5, <1>6, <1>7, <1>8, <1>9

\* rewind_to_height, which is no transaction: it may stop at any statement.
LEMMA RewindLeaves ==
  ASSUME CacheInv, NEW d, Tables(d), NEW height \in Int, NEW fault
  PROVE  LET r == Execute(d, RewindBody(d, height), fault) IN IsResult(r) /\ Leaves(d, r)
<1> DEFINE body == RewindBody(d, height)
           r == Execute(d, body, fault)
<1>1. CASE body = << >> \/ body = <<[fn |-> "panic"]>>
  <2>1. LegalBody(d, body) /\ Adds(body, {}, {})
    BY <1>1 DEF LegalBody, Adds, Legal, Creates, Inserts
  <2> HIDE DEF body
  <2>2. Ends(d, body, r, {}, {})
    BY <2>1, BodyFollows DEF Tables
  <2> HIDE DEF r
  <2> QED BY <2>2 DEF Ends, Tables, Leaves, Grows, Keeps, body, r
<1>2. CASE body = [i \in 1 .. 6 |-> [fn |-> "rewind", part |-> i, height |-> height]]
  <2>1. Len(body) = 6 /\ \A i \in 1 .. 6 : body[i] = [fn |-> "rewind", part |-> i, height |-> height]
    BY <1>2
  <2> HIDE DEF body
  <2>8. Len(body) \in Nat
    BY <2>1
  <2>2. PICK run : IsRun(run, d, body, fault)
    BY <2>8, RunsAre
  <2> DEFINE Good(k) == /\ IsResult(run[k]) /\ Leaves(d, run[k])
                        /\ run[k].ok /\ k >= 2 => NoneAbove(run[k].db, height)
             Bad == {k \in 0 .. 6 : ~Good(k)}
  <2>3. Good(0)
    <3>1. run[0] = [ok |-> TRUE, db |-> d, fault |-> fault]
      BY <2>2 DEF IsRun
    <3>2. run[0].db = d /\ IsResult(run[0])
      BY <3>1 DEF IsResult
    <3> QED BY <3>2 DEF Leaves, Keeps
  <2>4. ASSUME NEW k \in 1 .. 6, Good(k - 1)
        PROVE  Good(k)
    <3> DEFINE q == run[k - 1]
               s == body[k]
               e == Exec(q.db, s)[1]
    <3>1. run[k] = Advance(q, s)
      BY <2>1, <2>2 DEF IsRun
    <3>2. CASE ~q.ok
      BY <3>1, <3>2, <2>4 DEF Advance
    <3>3. CASE q.ok /\ (q.fault = 1 \/ Exec(q.db, s) = Null)
      <4>1. run[k] = [ok |-> FALSE, db |-> q.db, fault |-> q.fault]
        BY <3>1, <3>3, <2>4 DEF Advance, IsResult
      <4>2. IsResult(run[k]) /\ run[k].db = q.db /\ ~run[k].ok
        BY <4>1 DEF IsResult
      <4> QED BY <4>2, <2>4 DEF Leaves
    <3>4. CASE q.ok /\ q.fault # 1 /\ Exec(q.db, s) # Null
      <4>1. run[k] = [ok |-> TRUE, db |-> e, fault |-> IF q.fault = 0 THEN 0 ELSE q.fault - 1]
        BY <3>1, <3>4 DEF Advance
      <4>2. IsResult(run[k]) /\ run[k].db = e
        BY <4>1 DEF IsResult
      <4>3. s.fn = "rewind" /\ s.part = k /\ s.height = height
        BY <2>1
      <4>4. Tables(q.db) /\ Keeps(d, q.db) /\ (k > 2 => NoneAbove(q.db, height))
        BY <3>4, <2>4 DEF Leaves
      <4> HIDE DEF s
      <4>5. Tables(e) /\ Keeps(q.db, e) /\ (k >= 2 => NoneAbove(e, height))
        BY <4>3, <4>4, RewindStep
      <4>6. Keeps(d, e)
        BY <4>4, <4>5, KeepsTransitive
      <4> QED BY <4>2, <4>5, <4>6 DEF Leaves
    <3>5. q.ok \in BOOLEAN
      BY <2>4 DEF IsResult
    <3> QED BY <3>2, <3>3, <3>4, <3>5
  <2> HIDE DEF Good
  <2>5. Bad = {}
    <3> SUFFICES ASSUME Bad # {} PROVE FALSE
      OBVIOUS
    <3>0. Bad \subseteq Nat
      OBVIOUS
    <3>1. PICK k \in Bad : \A m \in Bad : k <= m
      BY <3>0, LeastNumber
    <3>2. k \in 1 .. 6 /\ k - 1 \in 0 .. 6 /\ k - 1 < k
      BY <3>1, <2>3
    <3>3. k - 1 \notin Bad
      BY <3>1, <3>2
    <3> QED BY <2>4, <3>1, <3>2, <3>3
  <2>6. Good(6)
    BY <2>5
  <2>7. r = run[6]
    BY <2>1, <2>2 DEF IsRun
  <2> QED BY <2>6, <2>7 DEF Good, body
<1>3. \/ body = << >> \/ body = <<[fn |-> "panic"]>>
      \/ body = [i \in 1 .. 6 |-> [fn |-> "rewind", part |-> i, height |-> height]]
  BY DEF RewindBody
<1> QED BY <1>1, <1>2, <1>3

----------------------------------------------------------------------------
(* The other calls.                                                          *)

\* A call whose statements are legal and create no transaction.
LEMMA LegalLeaves ==
  ASSUME CacheInv, NEW d, Tables(d), NEW body, LegalBody(d, body), Adds(body, {}, {}), NEW fault
  PROVE  LET r == Execute(d, body, fault) IN IsResult(r) /\ Leaves(d, r)
<1> DEFINE r == Execute(d, body, fault)
<1>1. Ends(d, body, r, {}, {})
  BY BodyFollows DEF Tables
<1> HIDE DEF r
<1> QED BY <1>1 DEF Ends, Tables, Leaves, Grows, Keeps, r

LEMMA InitDataDbLeaves ==
  ASSUME CacheInv, NEW d, Tables(d), NEW fault
  PROVE  Leaves(d, InitDataDb(d, fault))
<1>1. Len(InitWalletDb) = 7 /\ \A i \in 1 .. 7 : InitWalletDb[i] = [fn |-> "create_table", table |-> i]
  BY DEF InitWalletDb, TableNames
<1>2. LegalBody(d, InitWalletDb) /\ Adds(InitWalletDb, {}, {})
  BY <1>1 DEF LegalBody, Adds, Legal, Creates, Inserts
<1> QED BY <1>2, LegalLeaves DEF InitDataDb

LEMMA PutUtxoLeaves ==
  ASSUME CacheInv, NEW d, Tables(d), NEW outpoint \in DOMAIN UtxoHeight, NEW fault
  PROVE  Leaves(d, PutUtxo(d, outpoint, fault))
<1> DEFINE body == <<[fn |-> "put_utxo", outpoint |-> outpoint, height |-> UtxoHeight[outpoint]]>>
<1>1. UtxoHeight[outpoint] \in Nat
  BY BackendAssumption
<1>2. LegalBody(d, body) /\ Adds(body, {}, {})
  BY <1>1 DEF LegalBody, Adds, Legal, Creates, Inserts
<1> HIDE DEF body
<1>3. Leaves(d, Execute(d, body, fault))
  BY <1>2, LegalLeaves
<1> QED BY <1>3 DEF body, PutUtxo

LEMMA ClearUtxosLeaves ==
  ASSUME CacheInv, NEW d, Tables(d), NEW above, NEW fault
  PROVE  Leaves(d, ClearUtxos(d, above, fault))
<1> DEFINE body == <<[fn |-> "delete_utxos", height |-> above]>>
<1>2. LegalBody(d, body) /\ Adds(body, {}, {})
  BY DEF LegalBody, Adds, Legal, Creates, Inserts
<1> HIDE DEF body
<1>3. Leaves(d, Execute(d, body, fault))
  BY <1>2, LegalLeaves
<1> QED BY <1>3 DEF body, ClearUtxos

\* A body of one statement.
LEMMA OneStatement ==
  ASSUME NEW d, NEW s, NEW fault
  PROVE  LET r == Execute(d, <<s>>, fault)
         IN  /\ IsResult(r)
             /\ \/ ~r.ok /\ r.db = d
                \/ r.ok /\ r.db = Exec(d, s)[1] /\ Exec(d, s) # Null
<1>1. Len(<<s>>) = 1 /\ <<s>>[1] = s
  OBVIOUS
<1>2. PICK run : IsRun(run, d, <<s>>, fault)
  BY <1>1, RunsAre
<1>3. run[0] = [ok |-> TRUE, db |-> d, fault |-> fault]
  BY <1>2 DEF IsRun
<1>4. Execute(d, <<s>>, fault) = run[1] /\ run[1] = Advance(run[0], s)
  BY <1>1, <1>2 DEF IsRun
<1>5. CASE fault = 1 \/ Exec(d, s) = Null
  <2> DEFINE q == run[0]
  <2>1. q.ok /\ q.db = d /\ q.fault = fault /\ IsResult(q)
    BY <1>3 DEF IsResult
  <2> HIDE DEF q
  <2>2. Advance(q, s) = [ok |-> FALSE, db |-> q.db, fault |-> q.fault]
    BY <2>1, <1>5 DEF Advance, IsResult
  <2>3. run[1] = [ok |-> FALSE, db |-> d, fault |-> fault]
    BY <1>4, <2>1, <2>2 DEF q
  <2>4. IsResult(run[1]) /\ ~run[1].ok /\ run[1].db = d
    BY <2>3 DEF IsResult
  <2> QED BY <2>4, <1>4
<1>6. CASE fault # 1 /\ Exec(d, s) # Null
  <2>1. run[1] = [ok |-> TRUE, db |-> Exec(d, s)[1], fault |-> IF fault = 0 THEN 0 ELSE fault - 1]
    BY <1>3, <1>4, <1>6 DEF Advance
  <2>2. IsResult(run[1]) /\ run[1].ok /\ run[1].db = Exec(d, s)[1]
    BY <2>1 DEF IsResult
  <2> QED BY <2>2, <1>4, <1>6
<1> QED BY <1>5, <1>6

LEMMA InitAccountsLeaves ==
  ASSUME NEW d, Tables(d), NEW fault
  PROVE  Leaves(d, InitAccountsTableWithKeys(d, fault))
<1> DEFINE s == [fn |-> "insert_account", key |-> ViewingKey]
           e == Exec(d, s)[1]
           r == Execute(d, <<s>>, fault)
<1>1. Keeps(d, d)
  BY DEF Keeps
<1>2. CASE d.accounts # << >>
  BY <1>1, <1>2 DEF InitAccountsTableWithKeys, Leaves
<1>3. CASE d.accounts = << >>
  <2>1. AccountRows(<<ViewingKey>>) = <<s>>
    <3>1. DOMAIN <<ViewingKey>> = 1 .. 1 /\ <<ViewingKey>>[1] = ViewingKey
      OBVIOUS
    <3>2. AccountRows(<<ViewingKey>>) = [i \in 1 .. 1 |-> s]
      BY <3>1 DEF AccountRows
    <3> QED BY <3>2
  <2>2. InitAccountsTableWithKeys(d, fault) = Transactionally(d, <<s>>, fault)
    BY <1>3, <2>1 DEF InitAccountsTableWithKeys
  <2>3. e = [d EXCEPT !.accounts = <<ViewingKey>>]
    BY <1>3 DEF Exec, InsertAccount
  <2>4. e = [tables |-> d.tables, accounts |-> <<ViewingKey>>, blocks |-> d.blocks,
       transactions |-> d.transactions, received |-> d.received,
       witnesses |-> d.witnesses, sent |-> d.sent, utxos |-> d.utxos]
    BY <2>3 DEF Tables, Base, Shape
  <2> HIDE DEF e
  <2>5. Tables(e) /\ Keeps(d, e)
    BY <1>3, <2>4 DEF Tables, Base, Shape, Keeps, CreatedIn
  <2>6. IsResult(r) /\ (r.ok => Leaves(d, r))
    BY <2>5, OneStatement DEF e, Leaves
  <2> QED BY <2>2, <2>6, AllOrNothing
<1> QED BY <1>2, <1>3

LEMMA InitBlocksLeaves ==
  ASSUME NEW d, Tables(d), NEW fault
  PROVE  Leaves(d, InitBlocksTable(d, fault))
<1> DEFINE s == [fn |-> "insert_block", height |-> Birthday]
           e == Exec(d, s)[1]
           r == Execute(d, <<s>>, fault)
<1>1. Keeps(d, d)
  BY DEF Keeps
<1>2. CASE d.blocks # {}
  BY <1>1, <1>2 DEF InitBlocksTable, Leaves
<1>3. CASE d.blocks = {}
  <2>1. e = [d EXCEPT !.blocks = {Birthday}]
    BY <1>3 DEF Exec, InsertBlock
  <2>2. Birthday \in Nat /\ ChainBound \in Nat /\ Birthday <= ChainBound
    BY BackendAssumption
  <2>3. BlocksInv({Birthday})
    BY <2>2 DEF BlocksInv
  <2> HIDE DEF e
  <2>8. Base(d) /\ d.blocks \subseteq {Birthday}
    BY <1>3 DEF Tables
  <2>4. Base(e) /\ Grows(d, e) /\ CreatedIn(e) = CreatedIn(d) /\ e.blocks = {Birthday}
    BY <2>1, <2>3, <2>8, BlocksChange
  <2>5. Tables(e) /\ Keeps(d, e)
    BY <2>2, <2>4 DEF Tables, Grows, Keeps
  <2>6. InitBlocksTable(d, fault) = r
    BY <1>3 DEF InitBlocksTable
  <2>7. r.db = d \/ r.db = e
    BY OneStatement DEF e
  <2> QED BY <1>1, <2>5, <2>6, <2>7 DEF Leaves
<1> QED BY <1>2, <1>3

\* Statements that are legal in any tables.
LEMMA LegalAnywhere ==
  ASSUME NEW d, NEW body, IsList(body), \A s \in Items(body) : \A e : Legal(e, s),
         NEW C, \A s \in Items(body) : Creates(s) \subseteq C /\ Inserts(s) = {}
  PROVE  LegalBody(d, body) /\ Adds(body, C, {})
<1>1. \A k \in 1 .. Len(body) : body[k] \in Items(body)
  BY DEF IsList, Items
<1>2. \A k \in 1 .. Len(body) : \A e : Legal(e, body[k])
  BY <1>1
<1> QED BY <1>1, <1>2 DEF LegalBody, Adds, IsList

\* What full decryption found is noted.
Noted(d, tx) ==
  /\ \A i \in OwnOutputs(tx) :
       <<tx, i>> \in DOMAIN d.received /\ d.received[<<tx, i>>].memo # Null
  /\ \A i \in PaidOutputs(tx) : <<tx, i>> \in DOMAIN d.sent
  /\ (\E n \in Body[tx].spends : n[2] \in OwnOutputs(n[1])) =>
       \A j \in DOMAIN Body[tx].vouts : <<tx, j - 1>> \in DOMAIN d.sent

\* store_decrypted_tx: its statements.
LEMMA DecryptedBodyIs ==
  ASSUME NEW d, d.accounts = <<ViewingKey>>, NEW tx \in DOMAIN Body
  PROVE  LET body == DecryptedBody(d, tx)
         IN  /\ IsList(body)
             /\ \A s \in Items(body) :
                  /\ s.fn \in {"put_tx_data", "put_sent_note", "put_received_note", "panic"}
                  /\ s.fn = "put_tx_data" => s.created = FALSE
                  /\ s.fn = "put_sent_note" =>
                       [to |-> s.to, memo |-> s.memo] \in Notices(s.output[1], s.output[2])
                  /\ s.fn = "put_received_note" =>
                       s.nf = Null /\ s.memo = <<Out(s.note[1], s.note[2]).memo>>
             /\ \A i \in OwnOutputs(tx) :
                  \E s \in Items(body) : s.fn = "put_received_note" /\ s.note = <<tx, i>>
             /\ \A i \in PaidOutputs(tx) :
                  \E s \in Items(body) : s.fn = "put_sent_note" /\ s.output = <<tx, i>>
             /\ Body[tx].spends \cap DOMAIN d.received # {} =>
                  \A j \in DOMAIN Body[tx].vouts :
                    \E s \in Items(body) : s.fn = "put_sent_note" /\ s.output = <<tx, j - 1>>
<1> DEFINE ours == Body[tx].spends \cap GetAllNullifiers(d) # {}
           many == Cardinality(UNION {Members(Out(tx, i).account) \cap AccountIds(d) :
                                        i \in Received(d, tx)}) > 1
           sentOf(i) == [fn |-> "put_sent_note", output |-> <<tx, i>>, to |-> Out(tx, i).to,
                         memo |-> <<Out(tx, i).memo>>]
           receivedOf(i) == [fn |-> "put_received_note", note |-> <<tx, i>>, nf |-> Null,
                             memo |-> <<Out(tx, i).memo>>, change |-> Null]
           paidOf(j) == [fn |-> "put_sent_note", output |-> <<tx, j - 1>>, to |-> Body[tx].vouts[j],
                         memo |-> Null]
           S1 == {sentOf(i) : i \in SentBy(d, tx)}
           S2 == {receivedOf(i) : i \in Received(d, tx)}
           L0 == <<[fn |-> "put_tx_data", tx |-> tx, created |-> FALSE]>>
           L3 == IF many THEN <<[fn |-> "panic"]>> ELSE << >>
           n == IF ours THEN Len(Body[tx].vouts) ELSE 0
           L4 == [j \in 1 .. n |-> paidOf(j)]
<1>1. DecryptedBody(d, tx) = L0 \o SetToSeq(S1) \o SetToSeq(S2) \o L3 \o L4
  BY DEF DecryptedBody
<1>2. Received(d, tx) = OwnOutputs(tx) /\ SentBy(d, tx) = PaidOutputs(tx)
  BY Account
<1>3. /\ {Len(Body[tx].outs), Len(Body[tx].vouts)} \subseteq Nat
      /\ DOMAIN Body[tx].vouts = 1 .. Len(Body[tx].vouts)
  BY BackendAssumption
<1>4. IsFiniteSet(S1)
  <2> DEFINE S == SentBy(d, tx)
             f == [i \in S |-> sentOf(i)]
  <2>1. IsFiniteSet(S)
    BY OutputsAreFinite DEF SentBy
  <2> HIDE DEF sentOf, S
  <2>2. f \in [S -> S1] /\ \A s \in S1 : \E i \in S : f[i] = s
    BY DEF S
  <2> HIDE DEF f, S1
  <2> QED BY <2>1, <2>2, FiniteImage
<1>5. IsFiniteSet(S2)
  <2> DEFINE S == Received(d, tx)
             f == [i \in S |-> receivedOf(i)]
  <2>1. IsFiniteSet(S)
    BY OutputsAreFinite DEF Received
  <2> HIDE DEF receivedOf, S
  <2>2. f \in [S -> S2] /\ \A s \in S2 : \E i \in S : f[i] = s
    BY DEF S
  <2> HIDE DEF f, S2
  <2> QED BY <2>1, <2>2, FiniteImage
<1>6. IsList(L0) /\ Items(L0) = {[fn |-> "put_tx_data", tx |-> tx, created |-> FALSE]}
  BY ListOf
<1>7. IsList(L3) /\ \A s \in Items(L3) : s = [fn |-> "panic"]
  <2>1. CASE many
    BY <2>1 DEF IsList, Items
  <2>2. CASE ~many
    BY <2>2 DEF IsList, Items
  <2> QED BY <2>1, <2>2
<1>8. IsList(L4) /\ Items(L4) = {paidOf(j) : j \in 1 .. n}
  <2>1. n \in Nat
    BY <1>3
  <2> HIDE DEF n, paidOf
  <2> QED BY <2>1 DEF IsList, Items
<1>9. \A i \in SentBy(d, tx) :
        [to |-> Out(tx, i).to, memo |-> <<Out(tx, i).memo>>] \in Notices(tx, i)
  BY <1>2 DEF Notices
<1>10. \A j \in 1 .. n : [to |-> Body[tx].vouts[j], memo |-> Null] \in Notices(tx, j - 1)
  <2> TAKE j \in 1 .. n
  <2>1. j \in DOMAIN Body[tx].vouts /\ j - 1 + 1 = j
    BY <1>3
  <2>2. j \in DOMAIN Body[tx].vouts \cap {j - 1 + 1}
    BY <2>1
  <2> QED BY <2>2 DEF Notices
<1> DEFINE Fine(s) ==
                  /\ s.fn \in {"put_tx_data", "put_sent_note", "put_received_note", "panic"}
                  /\ s.fn = "put_tx_data" => s.created = FALSE
                  /\ s.fn = "put_sent_note" =>
                       [to |-> s.to, memo |-> s.memo] \in Notices(s.output[1], s.output[2])
                  /\ s.fn = "put_received_note" =>
                       s.nf = Null /\ s.memo = <<Out(s.note[1], s.note[2]).memo>>
<1>11. \A s \in S1 : Fine(s)
  <2> SUFFICES ASSUME NEW i \in SentBy(d, tx) PROVE Fine(sentOf(i))
    OBVIOUS
  <2> QED BY <1>9
<1>12. \A s \in S2 : Fine(s)
  <2> SUFFICES ASSUME NEW i \in Received(d, tx) PROVE Fine(receivedOf(i))
    OBVIOUS
  <2> QED OBVIOUS
<1>13. \A s \in Items(L4) : Fine(s)
  <2> SUFFICES ASSUME NEW j \in 1 .. n PROVE Fine(paidOf(j))
    BY <1>8
  <2> QED BY <1>10
<1>14. \A s \in Items(L0) : Fine(s)
  <2> DEFINE s == [fn |-> "put_tx_data", tx |-> tx, created |-> FALSE]
  <2>1. s.fn = "put_tx_data" /\ s.created = FALSE
    OBVIOUS
  <2> HIDE DEF s
  <2>2. Fine(s)
    BY <2>1
  <2> QED BY <2>2, <1>6 DEF s
<1>15. \A s \in Items(L3) : Fine(s)
  BY <1>7
<1>16. \A i \in OwnOutputs(tx) : \E s \in S2 : s.fn = "put_received_note" /\ s.note = <<tx, i>>
  <2> TAKE i \in OwnOutputs(tx)
  <2>1. receivedOf(i) \in S2
    BY <1>2
  <2>2. receivedOf(i).fn = "put_received_note" /\ receivedOf(i).note = <<tx, i>>
    OBVIOUS
  <2> HIDE DEF receivedOf, S2
  <2> QED BY <2>1, <2>2
<1>17. \A i \in PaidOutputs(tx) : \E s \in S1 : s.fn = "put_sent_note" /\ s.output = <<tx, i>>
  <2> TAKE i \in PaidOutputs(tx)
  <2>1. sentOf(i) \in S1
    BY <1>2
  <2>2. sentOf(i).fn = "put_sent_note" /\ sentOf(i).output = <<tx, i>>
    OBVIOUS
  <2> HIDE DEF sentOf, S1
  <2> QED BY <2>1, <2>2
<1>18. Body[tx].spends \cap DOMAIN d.received # {} =>
         \A j \in DOMAIN Body[tx].vouts :
           \E s \in Items(L4) : s.fn = "put_sent_note" /\ s.output = <<tx, j - 1>>
  <2> SUFFICES ASSUME Body[tx].spends \cap DOMAIN d.received # {}, NEW j \in DOMAIN Body[tx].vouts
               PROVE  \E s \in Items(L4) : s.fn = "put_sent_note" /\ s.output = <<tx, j - 1>>
    OBVIOUS
  <2>1. j \in 1 .. n
    BY <1>3 DEF GetAllNullifiers
  <2>2. paidOf(j) \in Items(L4)
    BY <2>1, <1>8
  <2>3. paidOf(j).fn = "put_sent_note" /\ paidOf(j).output = <<tx, j - 1>>
    OBVIOUS
  <2> HIDE DEF paidOf, L4
  <2> QED BY <2>2, <2>3
<1> HIDE DEF Fine, S1, S2, L0, L3, L4
<1> DEFINE M1 == L0 \o SetToSeq(S1)
           M2 == M1 \o SetToSeq(S2)
           M3 == M2 \o L3
           M4 == M3 \o L4
<1>21. IsList(M1) /\ Items(M1) = Items(L0) \cup S1
  BY <1>4, <1>6, ItemsOfSet, ItemsOfConcat
<1> HIDE DEF M1
<1>22. IsList(M2) /\ Items(M2) = Items(M1) \cup S2
  BY <1>5, <1>21, ItemsOfSet, ItemsOfConcat
<1> HIDE DEF M2
<1>23. IsList(M3) /\ Items(M3) = Items(M2) \cup Items(L3)
  BY <1>7, <1>22, ItemsOfConcat
<1> HIDE DEF M3
<1>24. IsList(M4) /\ Items(M4) = Items(M3) \cup Items(L4)
  BY <1>8, <1>23, ItemsOfConcat
<1> HIDE DEF M4
<1>25. DecryptedBody(d, tx) = M4
  BY <1>1 DEF M1, M2, M3, M4
<1>26. Items(M4) = Items(L0) \cup S1 \cup S2 \cup Items(L3) \cup Items(L4)
  BY <1>21, <1>22, <1>23, <1>24
<1>27. \A s \in Items(M4) : Fine(s)
  BY <1>11, <1>12, <1>13, <1>14, <1>15, <1>26
<1> QED BY <1>16, <1>17, <1>18, <1>24, <1>25, <1>26, <1>27 DEF Fine

\* A transaction in a scanned block spends notes of the wallet: they are known.
LEMMA SpentNotesAreKnown ==
  ASSUME CacheInv, NEW d, Tables(d), NEW tx \in DOMAIN Body, tx \in DOMAIN d.transactions, Mined(d, tx),
         NEW n \in Body[tx].spends, n[2] \in OwnOutputs(n[1])
  PROVE  n \in DOMAIN d.received
<1>1. TxRow(tx, d.transactions[tx], d.blocks) /\ BlocksInv(d.blocks) /\ Birthday \in Nat
      /\ d.blocks \subseteq Int
  BY BackendAssumption DEF Tables, Base, BlocksInv
<1>2. PICK k \in d.blocks : k > Birthday /\ tx \in cache[k]
  BY <1>1 DEF TxRow, Mined
<1>3. k \in DOMAIN cache
  BY <1>1, <1>2 DEF BlocksInv
<1>4. PICK g \in DOMAIN cache : g < k /\ n[1] \in cache[g]
  <2>1. PICK x \in DOMAIN Body :
          /\ cache[k] = {x}
          /\ \A m \in Body[x].spends : \E g \in DOMAIN cache : g < k /\ m[1] \in cache[g]
    BY <1>3 DEF CacheInv
  <2>2. x = tx
    BY <1>2, <2>1
  <2> QED BY <2>1, <2>2
<1>5. g \in d.blocks /\ g > Birthday
  <2>1. g \in Int /\ g >= Birthday + 1
    BY <1>1, BackendAssumption DEF CacheInv
  <2> QED BY <1>1, <1>2, <1>4, <2>1 DEF BlocksInv
<1>6. <<n[1], n[2]>> \in DOMAIN d.received
  BY <1>4, <1>5 DEF Tables
<1>7. n = <<n[1], n[2]>>
  BY BackendAssumption
<1> QED BY <1>6, <1>7

LEMMA DecryptLeaves ==
  ASSUME CacheInv, NEW d, Tables(d), d.accounts = <<ViewingKey>>, NEW tx \in DOMAIN Body,
         tx \in DOMAIN d.transactions, Mined(d, tx), NEW fault
  PROVE  LET r == DecryptAndStoreTransaction(d, tx, fault)
         IN  Leaves(d, r) /\ (r.ok => Noted(r.db, tx))
<1> DEFINE t == DecryptAndStoreTransaction(d, tx, fault)
           body == DecryptedBody(d, tx)
           r == Execute(d, body, fault)
<1>1. Leaves(d, [ok |-> TRUE, db |-> d])
  BY DEF Leaves, Keeps
<1>2. GetTxHeight(d, tx).ok
  BY DEF GetTxHeight, Mined
<1>3. Received(d, tx) = OwnOutputs(tx) /\ SentBy(d, tx) = PaidOutputs(tx)
  BY Account
<1>4. CASE Received(d, tx) \cup SentBy(d, tx) = {} /\ Body[tx].vouts = << >>
  <2>1. t = [ok |-> TRUE, db |-> d]
    BY <1>2, <1>4 DEF DecryptAndStoreTransaction
  <2>2. OwnOutputs(tx) = {} /\ PaidOutputs(tx) = {} /\ DOMAIN Body[tx].vouts = {}
    BY <1>3, <1>4
  <2>3. Noted(d, tx)
    BY <2>2 DEF Noted
  <2> QED BY <1>1, <2>1, <2>3
<1>5. CASE ~(Received(d, tx) \cup SentBy(d, tx) = {} /\ Body[tx].vouts = << >>)
  <2>1. t = Transactionally(d, body, fault)
    BY <1>2, <1>5 DEF DecryptAndStoreTransaction
  <2>2.      /\ IsList(body)
             /\ \A s \in Items(body) :
                  /\ s.fn \in {"put_tx_data", "put_sent_note", "put_received_note", "panic"}
                  /\ s.fn = "put_tx_data" => s.created = FALSE
                  /\ s.fn = "put_sent_note" =>
                       [to |-> s.to, memo |-> s.memo] \in Notices(s.output[1], s.output[2])
                  /\ s.fn = "put_received_note" =>
                       s.nf = Null /\ s.memo = <<Out(s.note[1], s.note[2]).memo>>
             /\ \A i \in OwnOutputs(tx) :
                  \E s \in Items(body) : s.fn = "put_received_note" /\ s.note = <<tx, i>>
             /\ \A i \in PaidOutputs(tx) :
                  \E s \in Items(body) : s.fn = "put_sent_note" /\ s.output = <<tx, i>>
             /\ Body[tx].spends \cap DOMAIN d.received # {} =>
                  \A j \in DOMAIN Body[tx].vouts :
                    \E s \in Items(body) : s.fn = "put_sent_note" /\ s.output = <<tx, j - 1>>
    BY DecryptedBodyIs
  <2> HIDE DEF body
  <2>3. \A s \in Items(body) : \A e : Legal(e, s)
    <3> TAKE s \in Items(body)
    <3> TAKE e
    <3>1. CASE s.fn = "put_tx_data"
      BY <2>2, <3>1 DEF Legal
    <3>2. CASE s.fn = "put_sent_note"
      BY <2>2, <3>2 DEF Legal
    <3>3. CASE s.fn = "put_received_note"
      BY <2>2, <3>3 DEF Legal
    <3>4. CASE s.fn = "panic"
      BY <3>4 DEF Legal
    <3> QED BY <2>2, <3>1, <3>2, <3>3, <3>4
  <2>4. \A s \in Items(body) : Creates(s) \subseteq {} /\ Inserts(s) = {}
    BY <2>2 DEF Creates, Inserts
  <2>5. LegalBody(d, body) /\ Adds(body, {}, {})
    BY <2>2, <2>3, <2>4, LegalAnywhere
  <2>6. Ends(d, body, r, {}, {})
    BY <2>5, BodyFollows DEF Tables
  <2>7. IsResult(r) /\ Leaves(d, r)
    BY <2>5, LegalLeaves
  <2> HIDE DEF r
  <2>8. ASSUME r.ok
        PROVE  Noted(r.db, tx)
    <3>1. \A s \in Items(body) : Done(r.db, s)
      BY <2>2, <2>6, <2>8 DEF Ends, Items, IsList
    <3>2. \A i \in OwnOutputs(tx) :
            <<tx, i>> \in DOMAIN r.db.received /\ r.db.received[<<tx, i>>].memo # Null
      <4> TAKE i \in OwnOutputs(tx)
      <4>1. PICK s \in Items(body) : s.fn = "put_received_note" /\ s.note = <<tx, i>>
        BY <2>2
      <4>2. s.memo = <<Out(s.note[1], s.note[2]).memo>>
        BY <2>2, <4>1
      <4>3. \A x : <<x>> # Null
        BY DEF Null
      <4>4. s.memo # Null
        BY <4>2, <4>3
      <4> QED BY <3>1, <4>1, <4>4 DEF Done
    <3>3. \A i \in PaidOutputs(tx) : <<tx, i>> \in DOMAIN r.db.sent
      BY <2>2, <3>1 DEF Done
    <3>4. ASSUME NEW n \in Body[tx].spends, n[2] \in OwnOutputs(n[1]), NEW j \in DOMAIN Body[tx].vouts
          PROVE  <<tx, j - 1>> \in DOMAIN r.db.sent
      <4>1. Body[tx].spends \cap DOMAIN d.received # {}
        BY <3>4, SpentNotesAreKnown
      <4> QED BY <2>2, <3>1, <4>1 DEF Done
    <3> QED BY <3>2, <3>3, <3>4 DEF Noted
  <2>9. Leaves(d, t) /\ (~t.ok \/ t = r)
    BY <2>1, <2>7, AllOrNothing DEF r
  <2> QED BY <2>8, <2>9
<1> QED BY <1>4, <1>5

\* store_sent_tx.
LEMMA SentLeaves ==
  ASSUME CacheInv, NEW d, Tables(d), NEW tx \in DOMAIN BuiltPayment, NEW fault
  PROVE  Leaves(d, Transactionally(d, SentBody(tx, BuiltPayment[tx]), fault))
<1> DEFINE payment == BuiltPayment[tx]
           body == SentBody(tx, payment)
           markOf(n) == [fn |-> "mark_sapling_note_spent", tx |-> tx, nf |-> n]
           coinOf(u) == [fn |-> "mark_transparent_utxo_spent", tx |-> tx, outpoint |-> u]
           data == [fn |-> "put_tx_data", tx |-> tx, created |-> TRUE]
           last == [fn |-> "insert_sent_note", output |-> <<tx, payment.index>>, to |-> payment.to,
                    memo |-> payment.memo]
           S1 == {markOf(n) : n \in Body[tx].spends}
           S2 == {coinOf(u) : u \in Body[tx].vins}
           r == Execute(d, body, fault)
<1>1. body = <<data>> \o SetToSeq(S1) \o SetToSeq(S2) \o <<last>>
  BY DEF SentBody
<1>2. IsFiniteSet(S1) /\ IsFiniteSet(S2)
  <2> DEFINE A == Body[tx].spends
             f == [n \in A |-> markOf(n)]
             B == Body[tx].vins
             g == [u \in B |-> coinOf(u)]
  <2>1. IsFiniteSet(A) /\ IsFiniteSet(B)
    BY BackendAssumption
  <2> HIDE DEF markOf, coinOf, A, B
  <2>2. f \in [A -> S1] /\ \A s \in S1 : \E n \in A : f[n] = s
    BY DEF A
  <2>3. g \in [B -> S2] /\ \A s \in S2 : \E u \in B : g[u] = s
    BY DEF B
  <2> HIDE DEF f, g, S1, S2
  <2> QED BY <2>1, <2>2, <2>3, FiniteImage
<1>3. [to |-> last.to, memo |-> last.memo] \in Notices(last.output[1], last.output[2])
  <2>1. last.to = payment.to /\ last.memo = payment.memo
        /\ last.output[1] = tx /\ last.output[2] = payment.index
    OBVIOUS
  <2>2. [to |-> BuiltPayment[tx].to, memo |-> BuiltPayment[tx].memo] \in Notices(tx, BuiltPayment[tx].index)
    BY DEF Notices
  <2> HIDE DEF last
  <2> QED BY <2>1, <2>2
<1>4. /\ data.fn = "put_tx_data" /\ data.tx = tx /\ data.created \in BOOLEAN
      /\ last.fn = "insert_sent_note" /\ last.output = <<tx, payment.index>>
  OBVIOUS
<1>5. \A s \in S1 \cup S2 : s.fn \in {"mark_sapling_note_spent", "mark_transparent_utxo_spent"}
  OBVIOUS
<1> HIDE DEF S1, S2, data, last, body
<1>6. IsList(body) /\ Items(body) = {data, last} \cup S1 \cup S2
  <2> DEFINE M1 == <<data>> \o SetToSeq(S1)
             M2 == M1 \o SetToSeq(S2)
             M3 == M2 \o <<last>>
  <2>1. IsList(M1) /\ Items(M1) = {data} \cup S1
    BY <1>2, ListOf, ItemsOfSet, ItemsOfConcat
  <2> HIDE DEF M1
  <2>2. IsList(M2) /\ Items(M2) = Items(M1) \cup S2
    BY <1>2, <2>1, ItemsOfSet, ItemsOfConcat
  <2> HIDE DEF M2
  <2>3. IsList(M3) /\ Items(M3) = Items(M2) \cup {last}
    BY <2>2, ListOf, ItemsOfConcat
  <2> HIDE DEF M3
  <2>4. body = M3
    BY <1>1 DEF M1, M2, M3
  <2> QED BY <2>1, <2>2, <2>3, <2>4
<1>7. \A s \in Items(body) : \A e : Legal(e, s)
  BY <1>3, <1>4, <1>5, <1>6 DEF Legal
<1>8. \A s \in Items(body) : Creates(s) \subseteq {tx} /\ Inserts(s) = {}
  BY <1>4, <1>5, <1>6 DEF Creates, Inserts
<1>9. LegalBody(d, body) /\ Adds(body, {tx}, {})
  BY <1>6, <1>7, <1>8, LegalAnywhere
<1>10. Ends(d, body, r, {tx}, {})
  BY <1>9, BodyFollows DEF Tables
<1> HIDE DEF r
<1>11. IsResult(r)
  BY <1>10 DEF Ends
<1>12. ASSUME r.ok
       PROVE  Leaves(d, r)
  <2>1. Done(r.db, last)
    BY <1>6, <1>10, <1>12 DEF Ends, Items, IsList
  <2>2. <<tx, BuiltPayment[tx].index>> \in DOMAIN r.db.sent
    BY <1>4, <2>1 DEF Done
  <2> QED BY <1>10, <2>2 DEF Ends, Tables, Leaves, Grows, Keeps
<1>13. Leaves(d, Transactionally(d, body, fault))
  BY <1>11, <1>12, AllOrNothing DEF r
<1> QED BY <1>13 DEF body

----------------------------------------------------------------------------
(* The invariant.                                                            *)

\* Whatever a call cut short left, the tables hold what was noted, and all that
\* decryptAndStoreTransaction returned for is noted.
Inv ==
  /\ CacheInv /\ Tables(db)
  /\ enhanced # {} => Ready
  /\ \A tx \in enhanced : tx \in DOMAIN Body /\ Noted(db, tx)

LEMMA NotedStays ==
  ASSUME NEW d, NEW e, NEW tx, Noted(d, tx), Keeps(d, e)
  PROVE  Noted(e, tx)
BY DEF Noted, Keeps

LEMMA InitInv == BackendInit => Inv
<1> SUFFICES ASSUME BackendInit PROVE Inv
  OBVIOUS
<1>1. db = NoDb /\ DOMAIN cache = {} /\ enhanced = {}
  BY DEF BackendInit
<1>2. /\ db = [tables |-> db.tables, accounts |-> db.accounts, blocks |-> db.blocks,
       transactions |-> db.transactions, received |-> db.received,
       witnesses |-> db.witnesses, sent |-> db.sent, utxos |-> db.utxos]
      /\ db.accounts = << >> /\ db.blocks = {} /\ db.transactions = << >> /\ db.received = << >>
      /\ db.witnesses = {} /\ db.sent = << >> /\ db.utxos = << >>
  BY <1>1 DEF NoDb
<1>3. DOMAIN << >> = {} /\ IsMap(<< >>)
  BY DEF IsMap
<1>4. IsFiniteSet({})
  BY FS_EmptySet
<1>5. Base(db)
  <2>1. db.tables = 0
    BY <1>1 DEF NoDb
  <2> QED BY <1>2, <1>3, <1>4, <2>1 DEF Base, Shape, BlocksInv
<1>6. Tables(db)
  BY <1>2, <1>3, <1>5 DEF Tables, CreatedIn
<1> QED BY <1>1, <1>6 DEF Inv, CacheInv

\* The height a rewind is clamped to.
LEMMA NearestIs ==
  ASSUME NEW d, Base(d), NEW h \in RewindHeights
  PROVE  GetNearestRewindHeight(d, h) \in Int
<1> DEFINE height == GetNearestRewindHeight(d, h)
<1> DEFINE S == {MinedAt(d, n[1]) : n \in {m \in DOMAIN d.received :
                   d.received[m].spent = Null /\ Mined(d, m[1])}}
<1>1. h \in Nat /\ Birthday \in Nat /\ ChainBound \in Nat
  BY BackendAssumption
<1>2. S \subseteq 0 .. ChainBound
  <2> SUFFICES ASSUME NEW n \in DOMAIN d.received, Mined(d, n[1])
               PROVE  MinedAt(d, n[1]) \in 0 .. ChainBound
    OBVIOUS
  <2>1. TxRow(n[1], d.transactions[n[1]], d.blocks) /\ BlocksInv(d.blocks)
    BY DEF Base, Mined
  <2> QED BY <1>1, <2>1 DEF TxRow, BlocksInv, Mined, MinedAt
<1>3. GetRewindHeight(d) = IF S = {} THEN Null ELSE <<Min(S)>>
  BY DEF GetRewindHeight
<1> HIDE DEF S
<1>4. CASE S = {} \/ h < ClampFloor
  BY <1>1, <1>3, <1>4 DEF GetNearestRewindHeight
<1>5. CASE S # {} /\ ~(h < ClampFloor)
  <2>1. Min(S) \in S
    BY <1>1, <1>2, <1>5, Extremes
  <2>2. GetRewindHeight(d)[1] = Min(S) /\ GetRewindHeight(d) # Null
    BY <1>3, <1>5 DEF Null
  <2>3. height = Least(Min(S), h)
    BY <1>5, <2>2 DEF GetNearestRewindHeight
  <2>4. \A m \in Int : Least(m, h) \in Int
    BY <1>1 DEF Least
  <2>7. \A m \in S : m \in Int
    BY <1>1, <1>2
  <2>5. Min(S) \in Int
    BY <2>1, <2>7
  <2>6. Least(Min(S), h) \in Int
    BY <2>4, <2>5
  <2> QED BY <2>3, <2>6
<1> QED BY <1>4, <1>5

\* The calls the SDK makes.
LEMMA CallLeaves ==
  ASSUME Inv, NEW c, NEW fault,
         \/ c \in StartCalls
         \/ Ready /\ c \in ScanCalls \cup RewindCalls \cup RefreshCalls \cup EnhanceCalls \cup BuildCalls
  PROVE  LET r == Run(c, db, fault)
         IN  /\ Leaves(db, r)
             /\ c.name = "decryptAndStoreTransaction" =>
                  /\ Ready /\ c.argument \in DOMAIN Body
                  /\ r.ok => Noted(r.db, c.argument)
<1>1. CacheInv /\ Tables(db) /\ (Ready => db.accounts = <<ViewingKey>>)
  BY DEF Inv, Tables, Base, Ready
<1>2. Keeps(db, db)
  BY DEF Keeps
<1>3. CASE c \in StartCalls
  <2>1. CASE c = Call("initDataDb", 0)
    BY <1>1, <2>1, InitDataDbLeaves DEF Call, Run
  <2>2. CASE c = Call("initBlocksTable", 0)
    BY <1>1, <2>2, InitBlocksLeaves DEF Call, Run
  <2>3. CASE c = Call("initAccountsTableWithKeys", 0)
    BY <1>1, <2>3, InitAccountsLeaves DEF Call, Run
  <2> QED BY <1>3, <2>1, <2>2, <2>3 DEF StartCalls
<1>4. CASE Ready /\ c \in ScanCalls
  <2>1. CASE c = Call("scanBlocks", 0)
    <3>1. Run(c, db, fault) = ScanBlocks(db, fault) /\ c.name = "scanBlocks"
      BY <2>1 DEF Call, Run
    <3>2. Leaves(db, ScanBlocks(db, fault))
      BY <1>1, <1>4, ScanLeaves DEF ScanBlocks
    <3> QED BY <3>1, <3>2
  <2>2. CASE c = Call("scanBlockBatch", 0)
    <3>1. Run(c, db, fault) = ScanBlockBatch(db, fault) /\ c.name = "scanBlockBatch"
      BY <2>2 DEF Call, Run
    <3>2. Leaves(db, ScanBlockBatch(db, fault))
      BY <1>1, <1>4, ScanLeaves DEF ScanBlockBatch
    <3> QED BY <3>1, <3>2
  <2> QED BY <1>4, <2>1, <2>2 DEF ScanCalls
<1>5. CASE c \in RewindCalls
  <2>1. PICK h \in RewindHeights : c = Call("rewindToHeight", GetNearestRewindHeight(db, h))
    BY <1>5 DEF RewindCalls
  <2> DEFINE height == GetNearestRewindHeight(db, h)
  <2>2. height \in Int
    BY <1>1, NearestIs DEF Tables
  <2> HIDE DEF height
  <2>3. Run(c, db, fault) = RewindToHeight(db, height, fault) /\ c.name = "rewindToHeight"
    BY <2>1 DEF Call, Run, height
  <2>4. Leaves(db, RewindToHeight(db, height, fault))
    BY <1>1, <2>2, RewindLeaves DEF RewindToHeight
  <2> QED BY <2>3, <2>4
<1>6. CASE c \in RefreshCalls
  <2>1. CASE \E h : c = Call("clearUtxos", h)
    BY <1>1, <2>1, ClearUtxosLeaves DEF Call, Run
  <2>2. CASE \E u \in DOMAIN UtxoHeight : c = Call("putUtxo", u)
    BY <1>1, <2>2, PutUtxoLeaves DEF Call, Run
  <2> QED BY <1>6, <2>1, <2>2 DEF RefreshCalls
<1>7. CASE Ready /\ c \in EnhanceCalls
  <2>1. PICK tx \in DOMAIN db.transactions : Mined(db, tx) /\ c = Call("decryptAndStoreTransaction", tx)
    BY <1>7 DEF EnhanceCalls
  <2>2. tx \in DOMAIN Body
    <3>1. TxRow(tx, db.transactions[tx], db.blocks) /\ BlocksInv(db.blocks)
      BY <1>1 DEF Tables, Base
    <3>2. PICK k \in db.blocks : k > Birthday /\ tx \in cache[k]
      BY <2>1, <3>1 DEF TxRow, Mined
    <3>3. k \in DOMAIN cache
      BY <3>1, <3>2 DEF BlocksInv
    <3> QED BY <1>1, <3>2, <3>3 DEF CacheInv
  <2>3. Run(c, db, fault) = DecryptAndStoreTransaction(db, tx, fault) /\ c.argument = tx
    BY <2>1 DEF Call, Run
  <2> DEFINE r == DecryptAndStoreTransaction(db, tx, fault)
  <2>4. Leaves(db, r) /\ (r.ok => Noted(r.db, tx))
    BY <1>1, <1>7, <2>1, <2>2, DecryptLeaves
  <2> QED BY <1>7, <2>2, <2>3, <2>4
<1>8. CASE c \in BuildCalls
  <2>1. PICK tx \in DOMAIN BuiltPayment :
          c = Call(IF Body[tx].vins = {} THEN "createToAddress" ELSE "shieldToAddress", tx)
    BY <1>8 DEF BuildCalls
  <2> DEFINE stored == Transactionally(db, SentBody(tx, BuiltPayment[tx]), fault)
             refused == [ok |-> FALSE, db |-> db]
  <2>2. Leaves(db, stored)
    BY <1>1, SentLeaves
  <2>3. Leaves(db, refused)
    BY <1>1, <1>2 DEF Leaves
  <2>4. CreateToAddress(db, tx, fault) \in {stored, refused}
    BY DEF CreateToAddress
  <2>5. ShieldToAddress(db, tx, fault) \in {stored, refused}
    BY DEF ShieldToAddress, ShieldFunds
  <2> HIDE DEF stored, refused
  <2>6. CASE c = Call("createToAddress", tx)
    BY <2>2, <2>3, <2>4, <2>6 DEF Call, Run
  <2>7. CASE c = Call("shieldToAddress", tx)
    BY <2>2, <2>3, <2>5, <2>7 DEF Call, Run
  <2> QED BY <2>1, <2>6, <2>7
<1> QED BY <1>3, <1>4, <1>5, <1>6, <1>7, <1>8

LEMMA CallInv ==
  ASSUME Inv, NEW c, Made(c),
         \/ c \in StartCalls
         \/ Ready /\ c \in ScanCalls \cup RewindCalls \cup RefreshCalls \cup EnhanceCalls \cup BuildCalls
  PROVE  Inv'
<1>1. PICK fault \in Faults :
        /\ db' = Run(c, db, fault).db
        /\ enhanced' = IF Run(c, db, fault).ok /\ c.name = "decryptAndStoreTransaction"
                       THEN enhanced \cup {c.argument} ELSE enhanced
        /\ cache' = cache
  BY DEF Made
<1> DEFINE r == Run(c, db, fault)
<1>2. /\ Leaves(db, r)
      /\ c.name = "decryptAndStoreTransaction" =>
           /\ Ready /\ c.argument \in DOMAIN Body
           /\ r.ok => Noted(r.db, c.argument)
  BY CallLeaves
<1>3. /\ db' = r.db
      /\ \/ enhanced' = enhanced
         \/ /\ enhanced' = enhanced \cup {c.argument} /\ Ready
            /\ c.argument \in DOMAIN Body /\ Noted(r.db, c.argument)
  BY <1>1, <1>2
<1> HIDE DEF r
<1>4. CacheInv'
  BY <1>1 DEF Inv, CacheInv
<1>5. Tables(db)'
  BY <1>1, <1>2, <1>3 DEF Leaves, Tables, Base, BlocksInv, TxRow
<1>6. Ready => Ready'
  BY <1>2, <1>3 DEF Leaves, Keeps, Ready
<1>7. \A tx \in enhanced : Noted(db', tx)
  BY <1>2, <1>3, NotedStays DEF Inv, Leaves
<1> QED BY <1>3, <1>4, <1>5, <1>6, <1>7 DEF Inv, Noted

\* What the tables hold stays true of a chain that goes on, or that loses blocks
\* the wallet has not scanned.
LEMMA ChainInv ==
  ASSUME Inv, UNCHANGED <<db, enhanced>>, CacheInv',
         \A k \in db.blocks : k > Birthday => k \in DOMAIN cache' /\ cache'[k] = cache[k]
  PROVE  Inv'
<1>1. Base(db) /\ BlocksInv(db.blocks)
  BY DEF Inv, Tables, Base
<1>2. BlocksInv(db.blocks)'
  BY <1>1 DEF BlocksInv
<1>3. \A tx \in DOMAIN db.transactions : TxRow(tx, db.transactions[tx], db.blocks)'
  BY <1>1 DEF Base, TxRow
<1>4. Base(db)'
  BY <1>1, <1>2, <1>3 DEF Base, Shape, ReceivedRow, UtxoRow
<1>5. Tables(db)'
  BY <1>4 DEF Inv, Tables, CreatedIn
<1> QED BY <1>5 DEF Inv, Ready, Noted

LEMMA NextInv == Inv /\ [BackendNext]_backendVars => Inv'
<1> SUFFICES ASSUME Inv, [BackendNext]_backendVars PROVE Inv'
  OBVIOUS
<1>1. CASE Start
  BY <1>1, CallInv DEF Start
<1>2. CASE Scan
  BY <1>2, CallInv DEF Scan
<1>3. CASE Rewind
  BY <1>3, CallInv DEF Rewind
<1>4. CASE RefreshUtxos
  BY <1>4, CallInv DEF RefreshUtxos
<1>5. CASE Enhance
  BY <1>5, CallInv DEF Enhance
<1>6. CASE Build
  BY <1>6, CallInv DEF Build
<1>7. /\ BlocksInv(db.blocks) /\ CacheInv /\ Birthday \in Nat /\ ChainBound \in Nat
      /\ DOMAIN cache \subseteq 0 .. ChainBound
  <2>1. Birthday \in Nat /\ ChainBound \in Nat
    BY BackendAssumption
  <2>2. BlocksInv(db.blocks) /\ CacheInv
    BY DEF Inv, Tables, Base
  <2>3. DOMAIN cache \subseteq 0 .. ChainBound
    BY <2>1, <2>2 DEF CacheInv
  <2> QED BY <2>1, <2>2, <2>3
<1>8. CASE Download
  <2> DEFINE h == IF DOMAIN cache = {} THEN Birthday + 1 ELSE Max(DOMAIN cache) + 1
  <2>1. PICK tx \in DOMAIN Body :
          /\ {n[1] : n \in Body[tx].spends} \subseteq Cached
          /\ cache' = Put(cache, h, {tx}) /\ h <= ChainBound
    BY <1>8 DEF Download
  <2>2. h \in Birthday + 1 .. ChainBound /\ \A k \in DOMAIN cache : k < h
    <3>1. CASE DOMAIN cache = {}
      BY <3>1, <2>1, <1>7
    <3>2. CASE DOMAIN cache # {}
      <4>1. Max(DOMAIN cache) \in DOMAIN cache /\ \A k \in DOMAIN cache : k <= Max(DOMAIN cache)
        BY <3>2, <1>7, Extremes
      <4>2. h = Max(DOMAIN cache) + 1 /\ DOMAIN cache \subseteq Birthday + 1 .. ChainBound
        BY <3>2, <1>7 DEF CacheInv
      <4> HIDE DEF h
      <4> QED BY <4>1, <4>2, <2>1, <1>7
    <3> QED BY <3>1, <3>2
  <2> HIDE DEF h
  <2>3. /\ DOMAIN cache' = {h} \cup DOMAIN cache /\ cache'[h] = {tx}
        /\ \A k \in DOMAIN cache : cache'[k] = cache[k]
    <3>1. h \notin DOMAIN cache
      BY <2>2
    <3> QED BY <2>1, <3>1 DEF Put
  <2>4. \A n \in Body[tx].spends : \E g \in DOMAIN cache : g < h /\ n[1] \in cache[g]
    BY <2>1, <2>2 DEF Cached
  <2>5. \A k \in DOMAIN cache' : \E x \in DOMAIN Body :
          /\ cache'[k] = {x}
          /\ \A n \in Body[x].spends : \E g \in DOMAIN cache' : g < k /\ n[1] \in cache'[g]
    <3> TAKE k \in DOMAIN cache'
    <3>1. CASE k = h
      BY <3>1, <2>3, <2>4
    <3>2. CASE k \in DOMAIN cache
      <4>1. PICK x \in DOMAIN Body :
              /\ cache[k] = {x}
              /\ \A n \in Body[x].spends : \E g \in DOMAIN cache : g < k /\ n[1] \in cache[g]
        BY <3>2, <1>7 DEF CacheInv
      <4> QED BY <3>2, <4>1, <2>3
    <3> QED BY <3>1, <3>2, <2>3
  <2>6. CacheInv'
    BY <2>2, <2>3, <2>5, <1>7 DEF CacheInv
  <2> QED BY <2>3, <2>6, <1>7, <1>8, ChainInv DEF Download, BlocksInv
<1>9. CASE RewindCache
  <2>1. PICK h \in Birthday .. ChainBound - 1 :
          /\ \A k \in db.blocks : k <= h
          /\ cache' = [k \in {j \in DOMAIN cache : j <= h} |-> cache[k]]
    BY <1>9 DEF RewindCache
  <2>2. DOMAIN cache' = {j \in DOMAIN cache : j <= h} /\ \A k \in DOMAIN cache' : cache'[k] = cache[k]
    BY <2>1
  <2>3. \A k \in DOMAIN cache' : \E x \in DOMAIN Body :
          /\ cache'[k] = {x}
          /\ \A n \in Body[x].spends : \E g \in DOMAIN cache' : g < k /\ n[1] \in cache'[g]
    <3> TAKE k \in DOMAIN cache'
    <3>1. PICK x \in DOMAIN Body :
              /\ cache[k] = {x}
              /\ \A n \in Body[x].spends : \E g \in DOMAIN cache : g < k /\ n[1] \in cache[g]
      BY <2>2, <1>7 DEF CacheInv
    <3>2. \A g \in DOMAIN cache : g < k => g \in DOMAIN cache'
      BY <2>2, <1>7
    <3> QED BY <3>1, <3>2, <2>2
  <2>4. CacheInv'
    BY <2>2, <2>3, <1>7 DEF CacheInv
  <2> QED BY <2>1, <2>2, <2>4, <1>7, <1>9, ChainInv DEF RewindCache, BlocksInv
<1>10. CASE UNCHANGED backendVars
  BY <1>10, <1>7, ChainInv DEF backendVars, CacheInv, BlocksInv
<1> QED BY <1>1, <1>2, <1>3, <1>4, <1>5, <1>6, <1>8, <1>9, <1>10 DEF BackendNext

\* The invariant gives what the wallet shows.
LEMMA InvMatches == Inv => RecordsMatchTransactions
<1> SUFFICES ASSUME Inv PROVE RecordsMatchTransactions
  OBVIOUS
<1>1. Base(db) /\ Tables(db)
  BY DEF Inv, Tables
<1>2. \A x : NonNull(<<x>>) = Okay(x)
  BY DEF NonNull, Null
<1>3. \A x : UnwrapExcOr(Okay(x), Null) = [thrown |-> FALSE, value |-> x]
  BY DEF UnwrapExcOr, Okay
<1>4. ASSUME NEW tx \in enhanced
      PROVE  /\ \A i \in Received(db, tx) :
                 /\ GetReceivedMemoAsUtf8(db, <<tx, i>>) = [thrown |-> FALSE, value |-> Out(tx, i).memo]
                 /\ db.received[<<tx, i>>].nf = <<<<tx, i>>>>
             /\ \A i \in SentBy(db, tx) :
                 /\ GetSentMemoAsUtf8(db, <<tx, i>>) = [thrown |-> FALSE, value |-> Out(tx, i).memo]
                 /\ db.sent[<<tx, i>>].to = Out(tx, i).to
             /\ \A j \in DOMAIN Body[tx].vouts :
                 (\E n \in Body[tx].spends : n[2] \in Received(db, n[1])) =>
                 db.sent[<<tx, j - 1>>] = [to |-> Body[tx].vouts[j], memo |-> Null]
  <2>1. tx \in DOMAIN Body /\ Noted(db, tx) /\ db.accounts = <<ViewingKey>>
    BY <1>1 DEF Inv, Ready, Base
  <2>2. Received(db, tx) = OwnOutputs(tx) /\ SentBy(db, tx) = PaidOutputs(tx)
    BY <2>1, Account
  <2>3. ASSUME NEW i \in Received(db, tx)
        PROVE  /\ GetReceivedMemoAsUtf8(db, <<tx, i>>) = [thrown |-> FALSE, value |-> Out(tx, i).memo]
               /\ db.received[<<tx, i>>].nf = <<<<tx, i>>>>
    <3>1. <<tx, i>> \in DOMAIN db.received /\ db.received[<<tx, i>>].memo # Null
      BY <2>1, <2>2 DEF Noted
    <3>2. ReceivedRow(<<tx, i>>, db.received[<<tx, i>>])
      BY <1>1, <3>1 DEF Base
    <3>3. db.received[<<tx, i>>].memo = <<Out(tx, i).memo>> /\ db.received[<<tx, i>>].nf = <<<<tx, i>>>>
      BY <3>1, <3>2 DEF ReceivedRow
    <3>4. GetReceivedMemo(db, <<tx, i>>) = <<Out(tx, i).memo>>
      BY <3>1, <3>3 DEF GetReceivedMemo
    <3> QED BY <1>2, <1>3, <3>3, <3>4 DEF GetReceivedMemoAsUtf8
  <2>4. ASSUME NEW i \in SentBy(db, tx)
        PROVE  /\ GetSentMemoAsUtf8(db, <<tx, i>>) = [thrown |-> FALSE, value |-> Out(tx, i).memo]
               /\ db.sent[<<tx, i>>].to = Out(tx, i).to
    <3>1. <<tx, i>> \in DOMAIN db.sent /\ i \in Outputs(tx)
      BY <2>1, <2>2 DEF Noted, PaidOutputs
    <3>2. db.sent[<<tx, i>>] \in Notices(tx, i)
      BY <1>1, <3>1 DEF Base
    <3>3. [to |-> Out(tx, i).to, memo |-> <<Out(tx, i).memo>>] \in Notices(tx, i)
      BY <2>2 DEF Notices
    <3>4. \A row, other \in Notices(tx, i) : row = other
      BY <2>1, <3>1, BackendAssumption
    <3>5. db.sent[<<tx, i>>] = [to |-> Out(tx, i).to, memo |-> <<Out(tx, i).memo>>]
      BY <3>2, <3>3, <3>4
    <3>6. GetSentMemo(db, <<tx, i>>) = <<Out(tx, i).memo>>
      BY <3>1, <3>5 DEF GetSentMemo
    <3>7. db.sent[<<tx, i>>].to = Out(tx, i).to
      BY <3>5
    <3>8. GetSentMemoAsUtf8(db, <<tx, i>>) = [thrown |-> FALSE, value |-> Out(tx, i).memo]
      BY <1>2, <1>3, <3>6 DEF GetSentMemoAsUtf8
    <3> QED BY <3>7, <3>8
  <2>5. ASSUME NEW j \in DOMAIN Body[tx].vouts,
               \E n \in Body[tx].spends : n[2] \in Received(db, n[1])
        PROVE  db.sent[<<tx, j - 1>>] = [to |-> Body[tx].vouts[j], memo |-> Null]
    <3>1. \A x : Received(db, x) = OwnOutputs(x)
      BY <2>1, Account
    <3>2. <<tx, j - 1>> \in DOMAIN db.sent
      BY <2>1, <2>5, <3>1 DEF Noted
    <3>3. db.sent[<<tx, j - 1>>] \in Notices(tx, j - 1)
      BY <1>1, <3>2 DEF Base
    <3>4. j - 1 + 1 = j
      BY <2>1, BackendAssumption
    <3>5. j \in DOMAIN Body[tx].vouts \cap {j - 1 + 1}
      BY <3>4
    <3>6. [to |-> Body[tx].vouts[j], memo |-> Null] \in Notices(tx, j - 1)
      BY <3>5 DEF Notices
    <3>7. \A row, other \in Notices(tx, j - 1) : row = other
      BY <2>1, BackendAssumption
    <3> QED BY <3>3, <3>6, <3>7
  <2> QED BY <2>3, <2>4, <2>5
<1>5. ASSUME NEW tx \in DOMAIN db.transactions \cap DOMAIN BuiltPayment, db.transactions[tx].created
      PROVE  db.sent[<<tx, BuiltPayment[tx].index>>] = [to |-> BuiltPayment[tx].to, memo |-> BuiltPayment[tx].memo]
  <2> DEFINE index == BuiltPayment[tx].index
  <2>1. <<tx, index>> \in DOMAIN db.sent
    BY <1>1, <1>5 DEF Tables, CreatedIn
  <2>2. db.sent[<<tx, index>>] \in Notices(tx, index)
    BY <1>1, <2>1 DEF Base
  <2>3. [to |-> BuiltPayment[tx].to, memo |-> BuiltPayment[tx].memo] \in Notices(tx, index)
    BY DEF Notices
  <2>4. \A row, other \in Notices(tx, index) : row = other
    BY BackendAssumption
  <2> QED BY <2>2, <2>3, <2>4
<1>6. Ready => GetShieldedAddress(db, 0) = [thrown |-> FALSE, value |-> ViewingKey]
  <2> SUFFICES ASSUME Ready PROVE GetShieldedAddress(db, 0) = [thrown |-> FALSE, value |-> ViewingKey]
    OBVIOUS
  <2>1. db.accounts = <<ViewingKey>>
    BY <1>1 DEF Ready, Base
  <2>2. AccountIds(db) = {0}
    BY <2>1, Account
  <2>3. GetAddress(db, 0) = <<ViewingKey>>
    BY <2>1, <2>2 DEF GetAddress
  <2> QED BY <1>2, <1>3, <2>3 DEF GetShieldedAddress
<1> DEFINE ends == TargetAndAnchorHeights(db)[1]
<1>7. TargetAndAnchorHeights(db) # Null =>
        ends.target \in Nat /\ ends.anchor \in Nat /\ ends.anchor <= ends.target
  <2> SUFFICES ASSUME TargetAndAnchorHeights(db) # Null
               PROVE  ends.target \in Nat /\ ends.anchor \in Nat /\ ends.anchor <= ends.target
    OBVIOUS
  <2>1. db.blocks # {}
    BY DEF TargetAndAnchorHeights, BlockHeightExtrema
  <2>2. ChainBound \in Nat /\ AnchorOffset \in Nat /\ Birthday \in Nat
    BY BackendAssumption
  <2>3. db.blocks \subseteq 0 .. ChainBound
    BY <1>1, <2>2 DEF Base, BlocksInv
  <2>4. Max(db.blocks) \in Nat /\ Min(db.blocks) \in Nat /\ Min(db.blocks) <= Max(db.blocks)
    <3>1. Max(db.blocks) \in db.blocks /\ Min(db.blocks) \in db.blocks
          /\ \A m \in db.blocks : Min(db.blocks) <= m
      BY <2>1, <2>2, <2>3, Extremes
    <3> QED BY <3>1, <2>3
  <2> DEFINE low == Min(db.blocks)
             high == Max(db.blocks)
             deep == IF high + 1 > AnchorOffset THEN high + 1 - AnchorOffset ELSE 0
  <2>5. BlockHeightExtrema(db) = <<[min |-> low, max |-> high]>>
    BY <2>1 DEF BlockHeightExtrema
  <2> HIDE DEF low, high
  <2>6. ends = [target |-> high + 1, anchor |-> IF deep > low THEN deep ELSE low]
    BY <2>5 DEF TargetAndAnchorHeights, Null
  <2>7. low \in Nat /\ high \in Nat /\ low <= high
    BY <2>4 DEF low, high
  <2> HIDE DEF ends
  <2> QED BY <2>2, <2>6, <2>7
<1>8. GetVerifiedTransparentBalance(db).value \subseteq GetTotalTransparentBalance(db).value
  <2>1. CASE TargetAndAnchorHeights(db) = Null
    BY <2>1 DEF GetVerifiedTransparentBalance, GetTotalTransparentBalance, UnwrapExcOr, Err
  <2>2. CASE TargetAndAnchorHeights(db) # Null
    <3> DEFINE target == ends.target
    <3>1. GetTotalTransparentBalance(db).value = GetUnspentTransparentUtxos(db, target)
      BY <2>2 DEF GetTotalTransparentBalance, UnwrapExcOr, Okay
    <3>2. \/ GetVerifiedTransparentBalance(db).value = {}
          \/ GetVerifiedTransparentBalance(db).value
               = GetUnspentTransparentUtxos(db, target - AnchorOffset)
      BY <2>2 DEF GetVerifiedTransparentBalance, UnwrapExcOr, Okay, Err
    <3>3. target \in Nat /\ AnchorOffset \in Nat
      BY <2>2, <1>7, BackendAssumption
    <3> HIDE DEF target
    <3>4. \A u \in DOMAIN db.utxos : db.utxos[u].height \in Nat
      BY <1>1 DEF Base, UtxoRow
    <3>5. GetUnspentTransparentUtxos(db, target - AnchorOffset) \subseteq GetUnspentTransparentUtxos(db, target)
      BY <3>3, <3>4 DEF GetUnspentTransparentUtxos
    <3> QED BY <3>1, <3>2, <3>5
  <2> QED BY <2>1, <2>2
<1>9. GetVerifiedBalance(db).value \subseteq GetBalance(db).value
  <2>1. CASE TargetAndAnchorHeights(db) = Null
    BY <2>1 DEF GetVerifiedBalance, GetBalance, UnwrapExcOr, Err
  <2>2. CASE TargetAndAnchorHeights(db) # Null
    <3> DEFINE target == ends.target
               anchor == ends.anchor
    <3>1. GetBalance(db).value = BalanceAt(db, target)
      BY <2>2 DEF GetBalance, UnwrapExcOr, Okay
    <3>2. GetVerifiedBalance(db).value \subseteq BalanceAt(db, anchor)
      BY <2>2 DEF GetVerifiedBalance, UnwrapExcOr, Okay, Spendable
    <3>3. target \in Nat /\ anchor \in Nat /\ anchor <= target
      BY <2>2, <1>7
    <3> HIDE DEF target, anchor
    <3>4. \A tx : Mined(db, tx) => MinedAt(db, tx) \in Int
      <4> SUFFICES ASSUME NEW tx, Mined(db, tx) PROVE MinedAt(db, tx) \in Int
        OBVIOUS
      <4>1. TxRow(tx, db.transactions[tx], db.blocks) /\ db.blocks \subseteq Int
        BY <1>1, BackendAssumption DEF Base, Mined, BlocksInv
      <4> QED BY <4>1 DEF TxRow, Mined, MinedAt
    <3>5. BalanceAt(db, anchor) \subseteq BalanceAt(db, target)
      BY <3>3, <3>4 DEF BalanceAt
    <3> QED BY <3>1, <3>2, <3>5
  <2> QED BY <2>1, <2>2
<1> HIDE DEF ends
<1> QED BY <1>4, <1>5, <1>6, <1>8, <1>9 DEF RecordsMatchTransactions

\* Whatever is scanned, decrypted, rewound, refused or cut short, what the wallet
\* shows of a transaction is what the transaction says.
THEOREM RecordsMatch == BackendSpec => []RecordsMatchTransactions
<1>1. BackendSpec => []Inv
  BY InitInv, NextInv, PTL DEF BackendSpec
<1> QED BY <1>1, InvMatches, PTL
----------------------------------------------------------------------------
(* Calls that are made again.                                                *)

\* What a body has made of the tables after each of its statements, when none
\* of them fails by itself.
LEMMA StagesFollow ==
  ASSUME NEW body, Len(body) \in Nat, NEW stage, NEW fault,
         \A k \in 1 .. Len(body) : Exec(stage[k - 1], body[k]) = <<stage[k]>>
  PROVE  LET r == Execute(stage[0], body, fault)
         IN  /\ IsResult(r)
             /\ \E j \in 0 .. Len(body) : r.db = stage[j] /\ (r.ok => j = Len(body))
             /\ fault = 0 => r.ok
<1> DEFINE n == Len(body)
<1>0. PICK run : IsRun(run, stage[0], body, fault)
  BY RunsAre
<1> DEFINE Good(k) == /\ IsResult(run[k])
                      /\ \E j \in 0 .. k : run[k].db = stage[j] /\ (run[k].ok => j = k)
                      /\ fault = 0 => run[k].ok /\ run[k].fault = 0
           Bad == {k \in 0 .. n : ~Good(k)}
<1>1. Good(0)
  <2>1. run[0] = [ok |-> TRUE, db |-> stage[0], fault |-> fault]
    BY <1>0 DEF IsRun
  <2>2. run[0].db = stage[0] /\ IsResult(run[0]) /\ run[0].ok /\ run[0].fault = fault
    BY <2>1 DEF IsResult
  <2> QED BY <2>2
<1>2. ASSUME NEW k \in 1 .. n, Good(k - 1)
      PROVE  Good(k)
  <2> DEFINE q == run[k - 1]
             s == body[k]
  <2>1. run[k] = Advance(q, s) /\ IsResult(q)
    BY <1>0, <1>2 DEF IsRun
  <2>2. PICK j \in 0 .. k - 1 : q.db = stage[j] /\ (q.ok => j = k - 1)
    BY <1>2
  <2>3. j \in 0 .. k /\ k \in 0 .. k
    OBVIOUS
  <2>4. CASE ~q.ok
    BY <1>2, <2>1, <2>2, <2>3, <2>4 DEF Advance
  <2>5. CASE q.ok
    <3>1. Exec(q.db, s) = <<stage[k]>> /\ Exec(q.db, s) # Null /\ Exec(q.db, s)[1] = stage[k]
      BY <2>2, <2>5 DEF Null
    <3>2. CASE q.fault = 1
      <4>1. run[k] = [ok |-> FALSE, db |-> q.db, fault |-> q.fault]
        BY <2>1, <2>5, <3>2 DEF Advance, IsResult
      <4>2. IsResult(run[k]) /\ run[k].db = q.db /\ ~run[k].ok
        BY <4>1 DEF IsResult
      <4>3. fault # 0
        BY <1>2, <3>2
      <4> QED BY <2>2, <2>3, <4>2, <4>3
    <3>3. CASE q.fault # 1
      <4>1. run[k] = [ok |-> TRUE, db |-> stage[k], fault |-> IF q.fault = 0 THEN 0 ELSE q.fault - 1]
        BY <2>1, <2>5, <3>1, <3>3 DEF Advance
      <4>2. IsResult(run[k]) /\ run[k].db = stage[k] /\ run[k].ok /\ (q.fault = 0 => run[k].fault = 0)
        BY <4>1 DEF IsResult
      <4> QED BY <1>2, <2>3, <4>2
    <3> QED BY <3>2, <3>3
  <2> QED BY <2>4, <2>5
<1> HIDE DEF Good
<1>3. Bad = {}
  <2> SUFFICES ASSUME Bad # {} PROVE FALSE
    OBVIOUS
  <2>0. Bad \subseteq Nat
    OBVIOUS
  <2>1. PICK k \in Bad : \A m \in Bad : k <= m
    BY <2>0, LeastNumber
  <2>2. k \in 1 .. n /\ k - 1 \in 0 .. n /\ k - 1 < k
    BY <2>1, <1>1
  <2>3. k - 1 \notin Bad
    BY <2>1, <2>2
  <2> QED BY <1>2, <2>1, <2>2, <2>3
<1>4. Good(n)
  BY <1>3
<1>5. Execute(stage[0], body, fault) = run[n]
  BY <1>0 DEF IsRun
<1> QED BY <1>4, <1>5 DEF Good

\* A body that ends well despite a fault did what it does without one.
LEMMA WithoutFault ==
  ASSUME NEW d, NEW body, Len(body) \in Nat, NEW fault, Execute(d, body, fault).ok
  PROVE  Execute(d, body, 0) = [ok |-> TRUE, db |-> Execute(d, body, fault).db, fault |-> 0]
<1> DEFINE n == Len(body)
<1>1. PICK run : IsRun(run, d, body, fault)
  BY RunsAre
<1>2. PICK free : IsRun(free, d, body, 0)
  BY RunsAre
<1> DEFINE Good(k) == /\ IsResult(run[k])
                      /\ run[k].ok => free[k] = [ok |-> TRUE, db |-> run[k].db, fault |-> 0]
           Bad == {k \in 0 .. n : ~Good(k)}
<1>3. Good(0)
  <2>1. run[0] = [ok |-> TRUE, db |-> d, fault |-> fault] /\ free[0] = [ok |-> TRUE, db |-> d, fault |-> 0]
    BY <1>1, <1>2 DEF IsRun
  <2>2. run[0].db = d /\ IsResult(run[0])
    BY <2>1 DEF IsResult
  <2> QED BY <2>1, <2>2
<1>4. ASSUME NEW k \in 1 .. n, Good(k - 1)
      PROVE  Good(k)
  <2> DEFINE q == run[k - 1]
             p == free[k - 1]
             s == body[k]
  <2>1. run[k] = Advance(q, s) /\ free[k] = Advance(p, s) /\ IsResult(q)
    BY <1>1, <1>2, <1>4 DEF IsRun
  <2>2. CASE ~q.ok
    BY <1>4, <2>1, <2>2 DEF Advance
  <2>3. CASE q.ok /\ (q.fault = 1 \/ Exec(q.db, s) = Null)
    <3>1. run[k] = [ok |-> FALSE, db |-> q.db, fault |-> q.fault]
      BY <2>1, <2>3 DEF Advance, IsResult
    <3>2. IsResult(run[k]) /\ ~run[k].ok
      BY <3>1 DEF IsResult
    <3> QED BY <3>2
  <2>4. CASE q.ok /\ q.fault # 1 /\ Exec(q.db, s) # Null
    <3>1. run[k] = [ok |-> TRUE, db |-> Exec(q.db, s)[1], fault |-> IF q.fault = 0 THEN 0 ELSE q.fault - 1]
      BY <2>1, <2>4 DEF Advance
    <3>2. IsResult(run[k]) /\ run[k].db = Exec(q.db, s)[1]
      BY <3>1 DEF IsResult
    <3>3. p.ok /\ p.db = q.db /\ p.fault = 0
      BY <1>4, <2>4
    <3>4. free[k] = [ok |-> TRUE, db |-> Exec(q.db, s)[1], fault |-> 0]
      BY <2>1, <2>4, <3>3 DEF Advance
    <3> QED BY <3>2, <3>4
  <2> QED BY <2>2, <2>3, <2>4
<1> HIDE DEF Good
<1>5. Bad = {}
  <2> SUFFICES ASSUME Bad # {} PROVE FALSE
    OBVIOUS
  <2>0. Bad \subseteq Nat
    OBVIOUS
  <2>1. PICK k \in Bad : \A m \in Bad : k <= m
    BY <2>0, LeastNumber
  <2>2. k \in 1 .. n /\ k - 1 \in 0 .. n /\ k - 1 < k
    BY <2>1, <1>3
  <2>3. k - 1 \notin Bad
    BY <2>1, <2>2
  <2> QED BY <1>4, <2>1, <2>2, <2>3
<1>6. Good(n)
  BY <1>5
<1>7. Execute(d, body, fault) = run[n] /\ Execute(d, body, 0) = free[n]
  BY <1>1, <1>2 DEF IsRun
<1> QED BY <1>6, <1>7 DEF Good

LEMMA RunIsResult ==
  ASSUME NEW d, NEW body, Len(body) \in Nat, NEW fault
  PROVE  IsResult(Execute(d, body, fault))
<1> DEFINE n == Len(body)
<1>1. PICK run : IsRun(run, d, body, fault)
  BY RunsAre
<1> DEFINE Bad == {k \in 0 .. n : ~IsResult(run[k])}
<1>2. IsResult(run[0])
  BY <1>1 DEF IsRun, IsResult
<1>3. ASSUME NEW k \in 1 .. n, IsResult(run[k - 1])
      PROVE  IsResult(run[k])
  <2> DEFINE q == run[k - 1]
             s == body[k]
  <2>1. run[k] = Advance(q, s) /\ IsResult(q)
    BY <1>1, <1>3 DEF IsRun
  <2> HIDE DEF q, s
  <2>2. CASE Advance(q, s) = q
    BY <2>1, <2>2
  <2>3. CASE Advance(q, s) = [q EXCEPT !.ok = FALSE]
    <3>1. run[k] = [ok |-> FALSE, db |-> q.db, fault |-> q.fault]
      BY <2>1, <2>3 DEF IsResult
    <3> QED BY <3>1 DEF IsResult
  <2>4. CASE Advance(q, s) = [ok |-> TRUE, db |-> Exec(q.db, s)[1],
                              fault |-> IF q.fault = 0 THEN 0 ELSE q.fault - 1]
    BY <2>1, <2>4 DEF IsResult
  <2> QED BY <2>2, <2>3, <2>4 DEF Advance
<1>4. Bad = {}
  <2> SUFFICES ASSUME Bad # {} PROVE FALSE
    OBVIOUS
  <2>0. Bad \subseteq Nat
    OBVIOUS
  <2>1. PICK k \in Bad : \A m \in Bad : k <= m
    BY <2>0, LeastNumber
  <2>2. k \in 1 .. n /\ k - 1 \in 0 .. n /\ k - 1 < k
    BY <2>1, <1>2
  <2>3. k - 1 \notin Bad
    BY <2>1, <2>2
  <2> QED BY <1>3, <2>1, <2>2, <2>3
<1> QED BY <1>1, <1>4 DEF IsRun

\* A transaction leaves all of its statements or none.
LEMMA AllOrNone ==
  ASSUME NEW d, NEW body, Len(body) \in Nat, NEW fault
  PROVE  LET r == Transactionally(d, body, fault) IN r.ok \/ r.db = d
<1> DEFINE r == Execute(d, body, fault)
<1>5. IsResult(r)
  BY RunIsResult
<1> HIDE DEF r
<1>6. Transactionally(d, body, fault) = IF r.ok THEN r ELSE [r EXCEPT !.db = d]
  BY DEF Transactionally, r
<1>7. [r EXCEPT !.db = d] = [ok |-> r.ok, db |-> d, fault |-> r.fault]
  BY <1>5 DEF IsResult
<1> QED BY <1>6, <1>7

\* initDataDb creates the tables that are not there.
Created(d, k) == [d EXCEPT !.tables = IF @ < k THEN k ELSE @]

LEMMA InitDataDbAgain ==
  ASSUME NEW d, Tables(d), NEW fault
  PROVE  LET half == InitDataDb(d, fault).db
         IN  InitDataDb(half, 0).ok = InitDataDb(d, 0).ok /\ InitDataDb(half, 0).db = InitDataDb(d, 0).db
<1>1. Len(InitWalletDb) = 7 /\ \A k \in 1 .. 7 : InitWalletDb[k] = [fn |-> "create_table", table |-> k]
  BY DEF InitWalletDb, TableNames
<1>2. ASSUME NEW e, Shape(e), NEW k \in 0 .. 7
      PROVE  /\ Shape(Created(e, k)) /\ (k = 0 => Created(e, k) = e)
             /\ \A j \in 0 .. k : Created(Created(e, j), k) = Created(e, k)
  <2> DEFINE With(x) == [tables |-> x, accounts |-> e.accounts, blocks |-> e.blocks,
                         transactions |-> e.transactions, received |-> e.received,
                         witnesses |-> e.witnesses, sent |-> e.sent, utxos |-> e.utxos]
             Up(x, j) == IF x < j THEN j ELSE x
  <2>1. ASSUME NEW x, NEW j
        PROVE  Created(With(x), j) = With(Up(x, j))
    BY DEF Created
  <2>2. e = With(e.tables) /\ e.tables \in Nat
    BY <1>2 DEF Shape
  <2>3. ASSUME NEW x \in Nat
        PROVE  Shape(With(x))
    BY <1>2, <2>3 DEF Shape
  <2> HIDE DEF With
  <2>4. ASSUME NEW j \in 0 .. 7
        PROVE  Created(e, j) = With(Up(e.tables, j)) /\ Up(e.tables, j) \in Nat
    BY <2>1, <2>2
  <2>5. k = 0 => Up(e.tables, k) = e.tables
    BY <2>2
  <2>6. ASSUME NEW j \in 0 .. k
        PROVE  Created(Created(e, j), k) = Created(e, k)
    <3>1. j \in 0 .. 7 /\ Up(Up(e.tables, j), k) = Up(e.tables, k)
      BY <2>2
    <3>2. Created(With(Up(e.tables, j)), k) = With(Up(Up(e.tables, j), k))
      BY <2>1
    <3> QED BY <2>4, <3>1, <3>2
  <2> QED BY <2>2, <2>3, <2>4, <2>5, <2>6
<1>3. ASSUME NEW e, Shape(e), NEW f
      PROVE  LET r == InitDataDb(e, f)
             IN  /\ \E j \in 0 .. 7 : r.db = Created(e, j) /\ (r.ok => j = 7)
                 /\ f = 0 => r.ok
                 /\ r.ok \in BOOLEAN
  <2> DEFINE stage == [k \in 0 .. 7 |-> Created(e, k)]
  <2>1. ASSUME NEW k \in 1 .. 7
        PROVE  Exec(stage[k - 1], InitWalletDb[k]) = <<stage[k]>>
    <3>1. stage[k - 1] = Created(e, k - 1) /\ stage[k] = Created(e, k) /\ k \in 0 .. 7 /\ k - 1 \in 0 .. k
      OBVIOUS
    <3>2. Exec(stage[k - 1], InitWalletDb[k]) = <<Created(stage[k - 1], k)>>
      <4> DEFINE x == stage[k - 1]
                 s == InitWalletDb[k]
      <4>1. s.fn = "create_table" /\ s.table = k
        BY <1>1
      <4> HIDE DEF x, s
      <4>2. Exec(x, s) = CreateTable(x, s)
        BY <4>1 DEF Exec
      <4>3. CreateTable(x, s) = <<Created(x, k)>>
        BY <4>1 DEF CreateTable, Created
      <4> QED BY <4>2, <4>3 DEF x, s
    <3> QED BY <1>2, <1>3, <3>1, <3>2
  <2>2. stage[0] = e
    BY <1>2, <1>3
  <2>3. \A k \in 0 .. 7 : stage[k] = Created(e, k)
    OBVIOUS
  <2> HIDE DEF stage
  <2> DEFINE r == Execute(e, InitWalletDb, f)
  <2>4. IsResult(r) /\ (\E j \in 0 .. 7 : r.db = stage[j] /\ (r.ok => j = 7)) /\ (f = 0 => r.ok)
    <3> DEFINE q == Execute(stage[0], InitWalletDb, f)
    <3>1. Len(InitWalletDb) \in Nat
          /\ \A k \in 1 .. Len(InitWalletDb) : Exec(stage[k - 1], InitWalletDb[k]) = <<stage[k]>>
      BY <1>1, <2>1
    <3>2. IsResult(q) /\ (\E j \in 0 .. Len(InitWalletDb) : q.db = stage[j] /\ (q.ok => j = Len(InitWalletDb)))
          /\ (f = 0 => q.ok)
      BY <3>1, StagesFollow
    <3>3. q = r
      BY <2>2
    <3> HIDE DEF q, r
    <3> QED BY <1>1, <3>2, <3>3
  <2>5. InitDataDb(e, f) = r /\ r.ok \in BOOLEAN
    BY <2>4 DEF InitDataDb, IsResult
  <2> HIDE DEF r
  <2>6. PICK j \in 0 .. 7 : r.db = stage[j] /\ (r.ok => j = 7)
    BY <2>4
  <2>7. InitDataDb(e, f).db = Created(e, j) /\ (InitDataDb(e, f).ok => j = 7)
    BY <2>3, <2>5, <2>6
  <2>8. (f = 0 => InitDataDb(e, f).ok) /\ InitDataDb(e, f).ok \in BOOLEAN
    BY <2>4, <2>5
  <2> QED BY <2>7, <2>8
<1>4. Shape(d)
  BY DEF Tables, Base
<1>5. PICK j \in 0 .. 7 : InitDataDb(d, fault).db = Created(d, j)
  BY <1>3, <1>4
<1>6. Shape(Created(d, j))
  BY <1>2, <1>4
<1>7. InitDataDb(d, 0).ok = TRUE /\ InitDataDb(d, 0).db = Created(d, 7)
  BY <1>3, <1>4
<1>8. InitDataDb(Created(d, j), 0).ok = TRUE /\ InitDataDb(Created(d, j), 0).db = Created(Created(d, j), 7)
  BY <1>3, <1>6
<1>9. Created(Created(d, j), 7) = Created(d, 7)
  BY <1>2, <1>4
<1> QED BY <1>5, <1>7, <1>8, <1>9

\* A rewind to a height, after k of its six statements.
BlocksUpTo(d, h) == {k \in d.blocks : ~(k > h)}
WitnessesUpTo(d, h) == {w \in d.witnesses : ~(w[2] > h)}
UnminedAbove(d, h) ==
  [tx \in DOMAIN d.transactions |->
     IF Mined(d, tx) /\ MinedAt(d, tx) > h THEN [d.transactions[tx] EXCEPT !.block = Null]
     ELSE d.transactions[tx]]
UtxosUpTo(d, h) == [u \in {v \in DOMAIN d.utxos : d.utxos[v].height <= h} |-> d.utxos[u]]
Rewound(d, h, k) ==
  [tables |-> d.tables, accounts |-> d.accounts,
   blocks |-> IF k >= 3 THEN BlocksUpTo(d, h) ELSE d.blocks,
   transactions |-> IF k >= 2 THEN UnminedAbove(d, h) ELSE d.transactions,
   received |-> d.received,
   witnesses |-> IF k >= 1 THEN WitnessesUpTo(d, h) ELSE d.witnesses,
   sent |-> d.sent,
   utxos |-> IF k >= 6 THEN UtxosUpTo(d, h) ELSE d.utxos]
RewindPart(h, k) == [fn |-> "rewind", part |-> k, height |-> h]

\* Which transactions are still mined, and that un-mining twice is un-mining once.
LEMMA UnminedIs ==
  ASSUME NEW d, Base(d), NEW h \in Int, NEW e, e.transactions \in {d.transactions, UnminedAbove(d, h)}
  PROVE  /\ UnminedAbove(e, h) = UnminedAbove(d, h)
         /\ \A tx : Mined(e, tx) => Mined(d, tx) /\ MinedAt(e, tx) = MinedAt(d, tx)
         /\ e.transactions = UnminedAbove(d, h) => NoneAbove(e, h)
<1> DEFINE T == d.transactions
           U == UnminedAbove(d, h)
<1>1. DOMAIN U = DOMAIN T
  BY DEF UnminedAbove
<1>2. ASSUME NEW tx \in DOMAIN T
      PROVE  /\ U[tx].block # Null => U[tx] = T[tx] /\ ~(T[tx].block[1] > h)
             /\ ~(U[tx].block # Null /\ U[tx].block[1] > h)
             /\ U[tx].block = Null => (T[tx].block = Null /\ U[tx] = T[tx]) \/ (T[tx].block # Null /\ T[tx].block[1] > h)
  <2>1. TxRow(tx, T[tx], d.blocks)
    BY DEF Base
  <2>2. [T[tx] EXCEPT !.block = Null].block = Null
    BY <2>1 DEF TxRow
  <2>3. U[tx] = IF T[tx].block # Null /\ T[tx].block[1] > h THEN [T[tx] EXCEPT !.block = Null] ELSE T[tx]
    BY DEF UnminedAbove, Mined, MinedAt
  <2> QED BY <2>2, <2>3
<1>3. ASSUME e.transactions = U
      PROVE  UnminedAbove(e, h) = U
  <2>1. \A tx \in DOMAIN U : ~(Mined(e, tx) /\ MinedAt(e, tx) > h)
    BY <1>1, <1>2, <1>3 DEF Mined, MinedAt
  <2>2. UnminedAbove(e, h) = [tx \in DOMAIN U |-> U[tx]]
    BY <1>3, <2>1 DEF UnminedAbove
  <2>3. U = [tx \in DOMAIN U |-> U[tx]]
    BY <1>1 DEF UnminedAbove
  <2> QED BY <2>2, <2>3
<1>4. ASSUME e.transactions = T
      PROVE  UnminedAbove(e, h) = U
  BY <1>4 DEF UnminedAbove, Mined, MinedAt
<1>5. ASSUME NEW tx, Mined(e, tx)
      PROVE  Mined(d, tx) /\ MinedAt(e, tx) = MinedAt(d, tx)
  <2>1. CASE e.transactions = T
    BY <1>5, <2>1 DEF Mined, MinedAt
  <2>2. CASE e.transactions = U
    <3> HIDE DEF U
    <3> QED BY <1>1, <1>2, <1>5, <2>2 DEF Mined, MinedAt
  <2> QED BY <2>1, <2>2
<1>6. e.transactions = U => NoneAbove(e, h)
  <2> HIDE DEF U
  <2> QED BY <1>1, <1>2 DEF NoneAbove, Mined, MinedAt
<1> QED BY <1>3, <1>4, <1>5, <1>6

LEMMA RewoundStep ==
  ASSUME NEW d, Base(d), NEW h \in Int, NEW k \in 1 .. 6
  PROVE  Exec(Rewound(d, h, k - 1), RewindPart(h, k)) = <<Rewound(d, h, k)>>
<1> DEFINE e == Rewound(d, h, k - 1)
           s == RewindPart(h, k)
           f == Rewound(d, h, k)
<1>1. Exec(e, s) = RewindStatement(e, s) /\ s.part = k /\ s.height = h
  BY DEF Exec, RewindPart
<1>2. \A j \in 0 .. 6 : Rewound(d, h, j) =
        [tables |-> d.tables, accounts |-> d.accounts, blocks |-> Rewound(d, h, j).blocks,
         transactions |-> Rewound(d, h, j).transactions, received |-> d.received,
         witnesses |-> Rewound(d, h, j).witnesses, sent |-> d.sent, utxos |-> Rewound(d, h, j).utxos]
  BY DEF Rewound
<1>3. /\ e.blocks = (IF k > 3 THEN BlocksUpTo(d, h) ELSE d.blocks)
      /\ f.blocks = (IF k >= 3 THEN BlocksUpTo(d, h) ELSE d.blocks)
      /\ e.transactions = (IF k > 2 THEN UnminedAbove(d, h) ELSE d.transactions)
      /\ f.transactions = (IF k >= 2 THEN UnminedAbove(d, h) ELSE d.transactions)
      /\ e.witnesses = (IF k > 1 THEN WitnessesUpTo(d, h) ELSE d.witnesses)
      /\ f.witnesses = (IF k >= 1 THEN WitnessesUpTo(d, h) ELSE d.witnesses)
      /\ e.utxos = d.utxos
      /\ f.utxos = (IF k >= 6 THEN UtxosUpTo(d, h) ELSE d.utxos)
      /\ e.received = d.received /\ e.sent = d.sent
  BY DEF Rewound
<1>4. k \in 0 .. 6 /\ k - 1 \in 0 .. 6
  OBVIOUS
<1>5. /\ e = [tables |-> d.tables, accounts |-> d.accounts, blocks |-> e.blocks,
              transactions |-> e.transactions, received |-> d.received,
              witnesses |-> e.witnesses, sent |-> d.sent, utxos |-> d.utxos]
      /\ f = [tables |-> d.tables, accounts |-> d.accounts, blocks |-> f.blocks,
              transactions |-> f.transactions, received |-> d.received,
              witnesses |-> f.witnesses, sent |-> d.sent, utxos |-> f.utxos]
  BY <1>2, <1>3, <1>4
<1>6. k > 2 => NoneAbove(e, h)
  BY <1>3, UnminedIs
<1>7. IsMap(d.received) /\ IsMap(d.sent)
  BY DEF Base, Shape
<1> HIDE DEF e, f, s
<1>8. CASE k = 1
  <2>1. RewindStatement(e, s) = <<[e EXCEPT !.witnesses = WitnessesUpTo(e, h)]>>
    BY <1>1, <1>8 DEF RewindStatement, WitnessesUpTo
  <2>2. WitnessesUpTo(e, h) = f.witnesses /\ f.blocks = e.blocks /\ f.transactions = e.transactions /\ f.utxos = d.utxos
    BY <1>3, <1>8 DEF WitnessesUpTo
  <2>3. [e EXCEPT !.witnesses = WitnessesUpTo(e, h)] = f
    BY <1>5, <2>2
  <2> QED BY <1>1, <2>1, <2>3 DEF e, f, s
<1>9. CASE k = 2
  <2>1. RewindStatement(e, s) = <<[e EXCEPT !.transactions = UnminedAbove(e, h)]>>
    BY <1>1, <1>9 DEF RewindStatement, UnminedAbove, Set
  <2>2. UnminedAbove(e, h) = f.transactions /\ f.blocks = e.blocks /\ f.witnesses = e.witnesses /\ f.utxos = d.utxos
    BY <1>3, <1>9, UnminedIs
  <2>3. [e EXCEPT !.transactions = UnminedAbove(e, h)] = f
    BY <1>5, <2>2
  <2> QED BY <1>1, <2>1, <2>3 DEF e, f, s
<1>10. CASE k = 3
  <2>1. RewindStatement(e, s) = <<[e EXCEPT !.blocks = BlocksUpTo(e, h)]>>
    BY <1>1, <1>10 DEF RewindStatement, BlocksUpTo
  <2>2. BlocksUpTo(e, h) = f.blocks /\ f.transactions = e.transactions /\ f.witnesses = e.witnesses /\ f.utxos = d.utxos
    BY <1>3, <1>10 DEF BlocksUpTo
  <2>3. [e EXCEPT !.blocks = BlocksUpTo(e, h)] = f
    BY <1>5, <2>2
  <2> QED BY <1>1, <2>1, <2>3 DEF e, f, s
<1>11. CASE k = 4
  <2> DEFINE of == {r \in DOMAIN e.received : Mined(e, r[1]) /\ MinedAt(e, r[1]) > h}
             x == [r \in DOMAIN e.received \ of |-> e.received[r]]
  <2>1. RewindStatement(e, s) = <<[e EXCEPT !.received = x]>>
    BY <1>1, <1>11 DEF RewindStatement
  <2>2. of = {}
    BY <1>6, <1>11 DEF NoneAbove, Mined
  <2>3. x = d.received
    BY <1>3, <1>7, <2>2 DEF IsMap
  <2>4. f.blocks = e.blocks /\ f.transactions = e.transactions /\ f.witnesses = e.witnesses /\ f.utxos = d.utxos
    BY <1>3, <1>11
  <2> HIDE DEF x
  <2>5. [e EXCEPT !.received = x] = f
    BY <1>5, <2>3, <2>4
  <2> QED BY <1>1, <2>1, <2>5 DEF e, f, s
<1>12. CASE k = 5
  <2> DEFINE of == {r \in DOMAIN e.sent : Mined(e, r[1]) /\ MinedAt(e, r[1]) > h}
             x == [r \in DOMAIN e.sent \ of |-> e.sent[r]]
  <2>1. RewindStatement(e, s) = <<[e EXCEPT !.sent = x]>>
    BY <1>1, <1>12 DEF RewindStatement
  <2>2. of = {}
    BY <1>6, <1>12 DEF NoneAbove, Mined
  <2>3. x = d.sent
    BY <1>3, <1>7, <2>2 DEF IsMap
  <2>4. f.blocks = e.blocks /\ f.transactions = e.transactions /\ f.witnesses = e.witnesses /\ f.utxos = d.utxos
    BY <1>3, <1>12
  <2> HIDE DEF x
  <2>5. [e EXCEPT !.sent = x] = f
    BY <1>5, <2>3, <2>4
  <2> QED BY <1>1, <2>1, <2>5 DEF e, f, s
<1>13. CASE k = 6
  <2>1. RewindStatement(e, s) = <<[e EXCEPT !.utxos = UtxosUpTo(e, h)]>>
    BY <1>1, <1>13 DEF RewindStatement, DeleteUtxosAbove, UtxosUpTo
  <2>2. UtxosUpTo(e, h) = f.utxos /\ f.transactions = e.transactions /\ f.witnesses = e.witnesses /\ f.blocks = e.blocks
    BY <1>3, <1>13 DEF UtxosUpTo
  <2>3. [e EXCEPT !.utxos = UtxosUpTo(e, h)] = f
    BY <1>5, <2>2
  <2> QED BY <1>1, <2>1, <2>3 DEF e, f, s
<1>14. k = 1 \/ k = 2 \/ k = 3 \/ k = 4 \/ k = 5 \/ k = 6
  OBVIOUS
<1> QED BY <1>8, <1>9, <1>10, <1>11, <1>12, <1>13, <1>14

LEMMA NoStatements ==
  ASSUME NEW d, NEW fault
  PROVE  Execute(d, << >>, fault) = [ok |-> TRUE, db |-> d, fault |-> fault]
<1>1. Len(<< >>) = 0
  OBVIOUS
<1>2. PICK run : IsRun(run, d, << >>, fault)
  BY <1>1, RunsAre
<1> QED BY <1>1, <1>2 DEF IsRun

\* The six statements of a rewind, and where a fault may leave them.
SixParts(h) == [i \in 1 .. 6 |-> [fn |-> "rewind", part |-> i, height |-> h]]

LEMMA RewindRuns ==
  ASSUME NEW d, Base(d), NEW h \in Int, NEW fault
  PROVE  LET r == Execute(d, SixParts(h), fault)
         IN  /\ r.ok \in BOOLEAN /\ (fault = 0 => r.ok)
             /\ \E j \in 0 .. 6 : r.db = Rewound(d, h, j) /\ (r.ok => j = 6)
<1> DEFINE stage == [k \in 0 .. 6 |-> Rewound(d, h, k)]
           body == SixParts(h)
           r == Execute(d, body, fault)
<1>1. Len(body) = 6 /\ \A k \in 1 .. 6 : body[k] = RewindPart(h, k)
  BY DEF SixParts, RewindPart
<1>2. \A k \in 0 .. 6 : stage[k] = Rewound(d, h, k)
  OBVIOUS
<1>3. stage[0] = d
  BY DEF Rewound, Base, Shape
<1> HIDE DEF stage, body
<1>4. ASSUME NEW k \in 1 .. 6
      PROVE  Exec(stage[k - 1], body[k]) = <<stage[k]>>
  BY <1>1, <1>2, RewoundStep
<1>5. Len(body) \in Nat /\ \A k \in 1 .. Len(body) : Exec(stage[k - 1], body[k]) = <<stage[k]>>
  BY <1>1, <1>4
<1> DEFINE q == Execute(stage[0], body, fault)
<1>6. IsResult(q) /\ (\E j \in 0 .. Len(body) : q.db = stage[j] /\ (q.ok => j = Len(body))) /\ (fault = 0 => q.ok)
  BY <1>5, StagesFollow
<1>7. q = r
  BY <1>3
<1> HIDE DEF q, r
<1>8. PICK j \in 0 .. 6 : r.db = stage[j] /\ (r.ok => j = 6)
  BY <1>1, <1>6, <1>7
<1>9. r.db = Rewound(d, h, j) /\ r.ok \in BOOLEAN
  BY <1>2, <1>6, <1>7, <1>8 DEF IsResult
<1>10. r = Execute(d, SixParts(h), fault)
  BY DEF r, body
<1> QED BY <1>6, <1>7, <1>8, <1>9, <1>10

\* The heights of the notes that are not spent, and the lowest of them.
UnspentHeights(d) ==
  {MinedAt(d, n[1]) : n \in {m \in DOMAIN d.received : d.received[m].spent = Null /\ Mined(d, m[1])}}

LEMMA LowestIs ==
  ASSUME NEW d, Base(d)
  PROVE  /\ UnspentHeights(d) \subseteq d.blocks /\ d.blocks \subseteq 0 .. ChainBound
         /\ UnspentHeights(d) = {} => Members(GetRewindHeight(d)) = {}
         /\ UnspentHeights(d) # {} => Members(GetRewindHeight(d)) = {Min(UnspentHeights(d))}
<1> DEFINE S == UnspentHeights(d)
<1>1. Birthday \in Nat /\ ChainBound \in Nat /\ BlocksInv(d.blocks)
  BY BackendAssumption DEF Base
<1>2. ASSUME NEW n \in DOMAIN d.received, Mined(d, n[1])
      PROVE  MinedAt(d, n[1]) \in d.blocks
  <2>1. TxRow(n[1], d.transactions[n[1]], d.blocks)
    BY <1>2 DEF Base, Mined
  <2> QED BY <1>2, <2>1 DEF TxRow, Mined, MinedAt
<1>3. S \subseteq d.blocks
  BY <1>2 DEF UnspentHeights
<1>4. d.blocks \subseteq 0 .. ChainBound
  BY <1>1 DEF BlocksInv
<1>5. GetRewindHeight(d) = IF S = {} THEN Null ELSE <<Min(S)>>
  BY DEF GetRewindHeight, UnspentHeights
<1> HIDE DEF S
<1>6. \A x : DOMAIN <<x>> = {1} /\ <<x>>[1] = x
  OBVIOUS
<1>7. DOMAIN Null = {}
  BY DEF Null
<1>8. S = {} => Members(GetRewindHeight(d)) = {}
  BY <1>5, <1>7 DEF Members
<1>9. S # {} => Members(GetRewindHeight(d)) = {Min(S)}
  BY <1>5, <1>6 DEF Members
<1> QED BY <1>3, <1>4, <1>8, <1>9 DEF S

\* A torn rewind made again ends as the whole one, but for the transparent
\* outputs.
LEMMA RewindAgain ==
  ASSUME CacheInv, NEW d, Tables(d), NEW h \in Int, NEW fault,
         ~RewindToHeight(d, h, fault).ok, RewindToHeight(d, h, fault).db # d,
         ~(LastScanned(RewindToHeight(d, h, fault).db) < PruningHeight)
  PROVE  LET second == RewindToHeight(RewindToHeight(d, h, fault).db, h, 0)
             whole == RewindToHeight(d, h, 0)
         IN  /\ second.ok = whole.ok
             /\ [second.db EXCEPT !.utxos = << >>] = [whole.db EXCEPT !.utxos = << >>]
<1> DEFINE half == RewindToHeight(d, h, fault).db
           second == RewindToHeight(half, h, 0)
           whole == RewindToHeight(d, h, 0)
<1>0. Base(d) /\ PruningHeight \in Nat /\ ChainBound \in Nat /\ SaplingActivation \in Nat
  BY BackendAssumption DEF Tables
<1>1. RewindBody(d, h) = SixParts(h) /\ h < LastScanned(d)
      /\ ~(h < LastScanned(d) - PruningHeight /\ \E x \in Members(GetRewindHeight(d)) : h > x)
  <2>1. RewindBody(d, h) # << >>
    <3>1. Execute(d, << >>, fault) = [ok |-> TRUE, db |-> d, fault |-> fault]
      BY NoStatements
    <3>2. Execute(d, << >>, fault).ok
      BY <3>1
    <3> QED BY <3>2 DEF RewindToHeight
  <2>2. RewindBody(d, h) # <<[fn |-> "panic"]>>
    <3> DEFINE s == [fn |-> "panic"]
               r == Execute(d, <<s>>, fault)
    <3>1. r.db = d \/ r.ok
      BY OneStatement
    <3> QED BY <3>1 DEF RewindToHeight
  <2> QED BY <2>1, <2>2 DEF RewindBody, SixParts
<1>2. PICK j \in 0 .. 6 : half = Rewound(d, h, j)
  BY <1>0, <1>1, RewindRuns DEF RewindToHeight
<1>3. Base(half)
  BY RewindLeaves DEF RewindToHeight, Leaves, Tables
<1> HIDE DEF half
<1>4. /\ half.tables = d.tables /\ half.accounts = d.accounts /\ half.received = d.received /\ half.sent = d.sent
      /\ half.blocks = (IF j >= 3 THEN BlocksUpTo(d, h) ELSE d.blocks)
      /\ half.transactions = (IF j >= 2 THEN UnminedAbove(d, h) ELSE d.transactions)
      /\ half.witnesses = (IF j >= 1 THEN WitnessesUpTo(d, h) ELSE d.witnesses)
  BY <1>2 DEF Rewound
<1>5. UnminedAbove(half, h) = UnminedAbove(d, h)
      /\ \A tx : Mined(half, tx) => Mined(d, tx) /\ MinedAt(half, tx) = MinedAt(d, tx)
  BY <1>0, <1>4, UnminedIs
<1>6. BlocksUpTo(half, h) = BlocksUpTo(d, h) /\ WitnessesUpTo(half, h) = WitnessesUpTo(d, h)
  BY <1>4 DEF BlocksUpTo, WitnessesUpTo
<1> DEFINE Ended == [tables |-> d.tables, accounts |-> d.accounts, blocks |-> BlocksUpTo(d, h),
                     transactions |-> UnminedAbove(d, h), received |-> d.received,
                     witnesses |-> WitnessesUpTo(d, h), sent |-> d.sent, utxos |-> << >>]
<1>7. \A e : Base(e) => [Rewound(e, h, 6) EXCEPT !.utxos = << >>] =
        [tables |-> e.tables, accounts |-> e.accounts, blocks |-> BlocksUpTo(e, h),
         transactions |-> UnminedAbove(e, h), received |-> e.received,
         witnesses |-> WitnessesUpTo(e, h), sent |-> e.sent, utxos |-> << >>]
  BY DEF Rewound
<1>8. [Rewound(d, h, 6) EXCEPT !.utxos = << >>] = Ended /\ [Rewound(half, h, 6) EXCEPT !.utxos = << >>] = Ended
  BY <1>0, <1>3, <1>4, <1>5, <1>6, <1>7
<1>9. j >= 3 => [half EXCEPT !.utxos = << >>] = Ended
  <2>1. half = [tables |-> half.tables, accounts |-> half.accounts, blocks |-> half.blocks,
                transactions |-> half.transactions, received |-> half.received,
                witnesses |-> half.witnesses, sent |-> half.sent, utxos |-> half.utxos]
    BY <1>3 DEF Base, Shape
  <2> QED BY <1>4, <2>1
<1> HIDE DEF Ended
<1>10. /\ ~(h < LastScanned(half) - PruningHeight /\ \E x \in Members(GetRewindHeight(half)) : h > x)
       /\ h < LastScanned(half) \/ j >= 3
  <2>1. UnspentHeights(half) \subseteq UnspentHeights(d)
    BY <1>4, <1>5 DEF UnspentHeights
  <2>2. CASE j < 3
    <3>1. LastScanned(half) = LastScanned(d)
      BY <1>4, <2>2 DEF LastScanned
    <3>2. ASSUME h < LastScanned(d) - PruningHeight, NEW x \in Members(GetRewindHeight(half)), h > x
          PROVE  FALSE
      <4>1. UnspentHeights(half) # {} /\ x = Min(UnspentHeights(half))
        BY <1>3, <3>2, LowestIs
      <4>2. UnspentHeights(d) # {} /\ UnspentHeights(d) \subseteq 0 .. ChainBound
        BY <1>0, <2>1, <4>1, LowestIs
      <4>3. x \in UnspentHeights(half)
        BY <1>0, <2>1, <4>1, <4>2, Extremes
      <4> DEFINE low == Min(UnspentHeights(d))
      <4>4. low \in 0 .. ChainBound /\ x \in 0 .. ChainBound /\ low <= x
        BY <1>0, <2>1, <4>2, <4>3, Extremes
      <4>5. ~(h > low)
        BY <1>0, <1>1, <3>2, <4>2, LowestIs
      <4> HIDE DEF low
      <4> QED BY <3>2, <4>4, <4>5
    <3> QED BY <1>1, <3>1, <3>2
  <2>3. CASE j >= 3 /\ half.blocks = {}
    <3>1. Members(GetRewindHeight(half)) = {}
      BY <1>3, <2>3, LowestIs
    <3> QED BY <2>3, <3>1
  <2>4. CASE j >= 3 /\ half.blocks # {}
    <3>1. half.blocks \subseteq 0 .. ChainBound
      BY <1>3, LowestIs
    <3>2. Max(half.blocks) \in half.blocks
      BY <1>0, <2>4, <3>1, Extremes
    <3>3. ~(Max(half.blocks) > h) /\ Max(half.blocks) \in Int
      BY <1>4, <2>4, <3>1, <3>2 DEF BlocksUpTo
    <3>4. LastScanned(half) = Max(half.blocks)
      BY <2>4 DEF LastScanned
    <3> QED BY <1>0, <2>4, <3>3, <3>4
  <2> QED BY <2>2, <2>3, <2>4
<1>11. RewindBody(half, h) = SixParts(h) \/ (j >= 3 /\ RewindBody(half, h) = << >>)
  BY <1>10 DEF RewindBody, SixParts, half
<1>12. whole.ok = TRUE /\ whole.db = Rewound(d, h, 6)
  BY <1>0, <1>1, RewindRuns DEF RewindToHeight
<1>13. CASE RewindBody(half, h) = SixParts(h)
  <2>1. second.ok = TRUE /\ second.db = Rewound(half, h, 6)
    BY <1>3, <1>13, RewindRuns DEF RewindToHeight
  <2> QED BY <1>8, <1>12, <2>1 DEF half
<1>14. CASE j >= 3 /\ RewindBody(half, h) = << >>
  <2>1. second = [ok |-> TRUE, db |-> half, fault |-> 0]
    BY <1>14, NoStatements DEF RewindToHeight
  <2>2. second.ok = TRUE /\ second.db = half
    BY <2>1
  <2> QED BY <1>8, <1>9, <1>12, <1>14, <2>2 DEF half
<1> QED BY <1>11, <1>13, <1>14

\* The rows a scan of the whole cache goes over: the limit never binds.
LEMMA WholeCache ==
  ASSUME CacheInv, NEW from \in Int
  PROVE  WithBlocks(cache, from, ChainBound + 1) = {h \in DOMAIN cache : h > from}
<1> DEFINE above == {h \in DOMAIN cache : h > from}
<1>1. ChainBound \in Nat /\ Birthday \in Nat
  BY BackendAssumption
<1>2. above \subseteq 0 .. ChainBound
  BY <1>1 DEF CacheInv
<1>3. IsFiniteSet(0 .. ChainBound) /\ Cardinality(0 .. ChainBound) = ChainBound + 1
  BY <1>1, FS_Interval
<1> HIDE DEF above
<1>4. ASSUME NEW h
      PROVE  Cardinality({k \in above : k <= h}) <= ChainBound + 1
  BY <1>2, <1>3, FS_Subset
<1>5. WithBlocks(cache, from, ChainBound + 1) = {h \in above : Cardinality({k \in above : k <= h}) <= ChainBound + 1}
  BY DEF WithBlocks, above
<1> QED BY <1>4, <1>5 DEF above

\* A scan of everything that is in the cache.
ScanAll(d) == ScanCachedBlocks(d, cache, ChainBound + 1, 0)

LEMMA ScanAllIs ==
  ASSUME CacheInv, NEW d, Tables(d)
  PROVE  LET rows == {x \in DOMAIN cache : x > LastScanned(d)}
         IN  /\ rows \subseteq 0 .. ChainBound /\ LastScanned(d) \in Nat
             /\ rows = {} => ScanAll(d) = [ok |-> TRUE, db |-> d, fault |-> 0]
             /\ rows # {} =>
                  /\ Max(rows) \in rows /\ \A x \in rows : x <= Max(rows)
                  /\ \E run :
                       /\ run[0] = [ok |-> TRUE, db |-> d, fault |-> 0]
                       /\ \A x \in 1 .. Max(rows) :
                            run[x] = IF x \in rows THEN ScanRow(run[x - 1], x, cache) ELSE run[x - 1]
                       /\ ScanAll(d) = run[Max(rows)]
<1> DEFINE rows == {x \in DOMAIN cache : x > LastScanned(d)}
           last == Max({0} \cup rows)
<1>0. ChainBound \in Nat /\ Birthday \in Nat /\ SaplingActivation \in Nat /\ 0 < SaplingActivation
  BY BackendAssumption
<1>1. LastScanned(d) \in Nat
  <2>1. d.blocks \subseteq 0 .. ChainBound
    BY <1>0 DEF Tables, Base, BlocksInv
  <2>2. d.blocks # {} => Max(d.blocks) \in d.blocks
    BY <1>0, <2>1, Extremes
  <2> QED BY <1>0, <2>1, <2>2 DEF LastScanned
<1>2. rows \subseteq 0 .. ChainBound /\ 0 \notin rows
  BY <1>0, <1>1 DEF CacheInv
<1>3. WithBlocks(cache, LastScanned(d), ChainBound + 1) = rows
  BY <1>1, WholeCache
<1> HIDE DEF rows
<1>4. last \in {0} \cup rows /\ \A x \in {0} \cup rows : x <= last
  <2> DEFINE S == {0} \cup rows
  <2>1. S \subseteq 0 .. ChainBound /\ S # {}
    BY <1>0, <1>2
  <2> HIDE DEF S
  <2>2. Max(S) \in S /\ \A x \in S : x <= Max(S)
    BY <1>0, <2>1, Extremes
  <2> QED BY <2>2 DEF S
<1>5. last \in Nat
  <2> HIDE DEF last
  <2> QED BY <1>0, <1>2, <1>4
<1>6. PICK run : IsScan(run, last, d, cache, ChainBound + 1, 0)
  BY <1>3, <1>5, ScanIs
<1>7. /\ run[0] = [ok |-> TRUE, db |-> d, fault |-> 0]
      /\ \A x \in 1 .. last : run[x] = IF x \in rows THEN ScanRow(run[x - 1], x, cache) ELSE run[x - 1]
      /\ ScanAll(d) = run[last]
  BY <1>3, <1>6 DEF IsScan, ScanAll
<1>8. rows = {} => last = 0
  BY <1>4
<1>9. ASSUME rows # {}
      PROVE  last = Max(rows) /\ Max(rows) \in rows /\ \A x \in rows : x <= Max(rows)
  <2>1. Max(rows) \in rows /\ \A x \in rows : x <= Max(rows)
    BY <1>0, <1>2, <1>9, Extremes
  <2> DEFINE most == Max(rows)
  <2> HIDE DEF last, most
  <2>2. most \in rows /\ most \in Nat /\ most # 0 /\ \A x \in rows : x <= most
    <3>1. most \in rows /\ \A x \in rows : x <= most
      BY <2>1 DEF most
    <3> QED BY <1>0, <1>2, <3>1
  <2>3. last \in rows
    BY <1>4, <1>5, <2>2
  <2>4. most <= last /\ last <= most
    BY <1>4, <2>2, <2>3
  <2> QED BY <1>5, <2>1, <2>2, <2>4 DEF most
<1> HIDE DEF last
<1>10. rows = {} => ScanAll(d) = [ok |-> TRUE, db |-> d, fault |-> 0]
  BY <1>7, <1>8
<1>11. ASSUME rows # {}
       PROVE  \E q : /\ q[0] = [ok |-> TRUE, db |-> d, fault |-> 0]
                     /\ \A x \in 1 .. Max(rows) :
                          q[x] = IF x \in rows THEN ScanRow(q[x - 1], x, cache) ELSE q[x - 1]
                     /\ ScanAll(d) = q[Max(rows)]
  BY <1>7, <1>9, <1>11
<1> QED BY <1>1, <1>2, <1>9, <1>10, <1>11 DEF rows

\* Scanning on after the next block is scanned ends where a scan from the block
\* before it does.
LEMMA ScanOn ==
  ASSUME CacheInv, NEW d, Tables(d), d.accounts = <<ViewingKey>>,
         NEW h \in DOMAIN cache, h = LastScanned(d) + 1, NEW fault,
         Transactionally(d, BlockBody(d, h, cache[h]), fault).ok
  PROVE  ScanAll(Transactionally(d, BlockBody(d, h, cache[h]), fault).db) = ScanAll(d)
<1> DEFINE body == BlockBody(d, h, cache[h])
           t == Transactionally(d, body, fault)
           e == t.db
           start == [ok |-> TRUE, db |-> d, fault |-> 0]
           on == [ok |-> TRUE, db |-> e, fault |-> 0]
           R == {x \in DOMAIN cache : x > LastScanned(d)}
           Q == {x \in DOMAIN cache : x > LastScanned(e)}
<1>0. ChainBound \in Nat /\ Birthday \in Nat
  BY BackendAssumption
<1>1. Tables(e) /\ h \in e.blocks /\ e.blocks \subseteq d.blocks \cup {h}
  BY RowLeaves DEF Leaves
<1>2. LastScanned(d) \in Nat /\ LastScanned(e) \in Nat /\ R \subseteq 0 .. ChainBound
  BY <1>1, ScanAllIs
<1>3. Transactionally(d, body, 0) = on
  <2>1. Len(body) \in Nat
    BY BlockBodyIs DEF Tables, IsList
  <2> DEFINE r == Execute(d, body, fault)
             q == Execute(d, body, 0)
  <2>2. t = IF r.ok THEN r ELSE [r EXCEPT !.db = d]
    BY DEF Transactionally
  <2>3. t.ok
    OBVIOUS
  <2>4. IsResult(r)
    BY <2>1, RunIsResult
  <2> HIDE DEF t, r
  <2>5. r.ok
    <3>1. [r EXCEPT !.db = d].ok = r.ok
      BY <2>4 DEF IsResult
    <3> QED BY <2>2, <2>3, <3>1
  <2>6. q = [ok |-> TRUE, db |-> r.db, fault |-> 0]
    BY <2>1, <2>5, WithoutFault DEF r
  <2>7. Transactionally(d, body, 0) = IF q.ok THEN q ELSE [q EXCEPT !.db = d]
    BY DEF Transactionally
  <2> HIDE DEF q
  <2>8. q.ok /\ t = r
    BY <2>2, <2>5, <2>6
  <2> QED BY <2>6, <2>7, <2>8
<1>4. LastScanned(e) = h
  <2>1. d.blocks \subseteq 0 .. ChainBound /\ e.blocks \subseteq 0 .. ChainBound
    BY <1>0, <1>1 DEF Tables, Base, BlocksInv
  <2>2. \A k \in d.blocks : k < h
    <3>1. d.blocks # {} => \A k \in d.blocks : k <= Max(d.blocks)
      BY <1>0, <2>1, Extremes
    <3> QED BY <1>2, <2>1, <3>1 DEF LastScanned
  <2>3. Max(e.blocks) \in e.blocks /\ \A k \in e.blocks : k <= Max(e.blocks)
    BY <1>0, <1>1, <2>1, Extremes
  <2>4. h <= Max(e.blocks) /\ (Max(e.blocks) = h \/ Max(e.blocks) < h)
    BY <1>1, <2>2, <2>3
  <2>5. Max(e.blocks) \in Int /\ h \in Int
    BY <1>2, <2>1, <2>3
  <2> QED BY <1>1, <2>4, <2>5 DEF LastScanned
<1>5. h \in R /\ h \in 1 .. ChainBound /\ \A x : x \in R <=> x = h \/ x \in Q
  BY <1>2, <1>4, <1>0 DEF CacheInv
<1>6. \A x \in R : x >= h
  BY <1>2
<1>7. Max(R) \in R /\ \A x \in R : x <= Max(R)
  BY <1>5, ScanAllIs
<1>8. PICK run : /\ run[0] = start
                 /\ \A x \in 1 .. Max(R) : run[x] = IF x \in R THEN ScanRow(run[x - 1], x, cache) ELSE run[x - 1]
                 /\ ScanAll(d) = run[Max(R)]
  BY <1>5, ScanAllIs
<1> DEFINE last == Max(R)
<1>9. last \in h .. ChainBound
  BY <1>2, <1>5, <1>6, <1>7
<1>10. Q = {} => ScanAll(e) = on
  BY <1>1, ScanAllIs
<1>11. Q # {} => /\ Max(Q) \in Q /\ \A x \in Q : x <= Max(Q)
                 /\ \E q : /\ q[0] = on
                           /\ \A x \in 1 .. Max(Q) : q[x] = IF x \in Q THEN ScanRow(q[x - 1], x, cache) ELSE q[x - 1]
                           /\ ScanAll(e) = q[Max(Q)]
  BY <1>1, ScanAllIs
<1>12. LastScanned(start.db) + 1 = h /\ start.ok /\ start.db = d /\ start.fault = 0
  OBVIOUS
<1>13. ScanRow(start, h, cache) = on
  BY <1>3, <1>12 DEF ScanRow
<1> HIDE DEF start, on, e, t, body, R, Q, last
<1>14. ASSUME NEW k \in 0 .. h - 1
       PROVE  run[k] = start
  <2> DEFINE Bad == {x \in 0 .. h - 1 : run[x] # start}
  <2>1. Bad = {}
    <3> SUFFICES ASSUME Bad # {} PROVE FALSE
      OBVIOUS
    <3>0. Bad \subseteq Nat
      OBVIOUS
    <3>1. PICK x \in Bad : \A y \in Bad : x <= y
      BY <3>0, LeastNumber
    <3>2. x # 0 /\ x \in 1 .. last /\ x \notin R
      BY <1>5, <1>6, <1>8, <1>9, <3>1
    <3>3. run[x] = run[x - 1]
      BY <1>8, <3>2 DEF last
    <3>4. x - 1 \in 0 .. h - 1 /\ x - 1 \notin Bad
      BY <1>5, <3>1, <3>2
    <3> QED BY <3>1, <3>3, <3>4
  <2> QED BY <2>1
<1>15. run[h] = on
  <2>1. run[h] = ScanRow(run[h - 1], h, cache)
    BY <1>5, <1>8, <1>9 DEF last
  <2>2. run[h - 1] = start
    BY <1>5, <1>14
  <2> QED BY <1>13, <2>1, <2>2
<1>16. CASE Q = {}
  <2>1. last = h
    BY <1>5, <1>7, <1>16 DEF last
  <2> QED BY <1>8, <1>10, <1>15, <1>16, <2>1 DEF last, e, t, body
<1>17. CASE Q # {}
  <2>1. PICK q : /\ q[0] = on
                 /\ \A x \in 1 .. Max(Q) : q[x] = IF x \in Q THEN ScanRow(q[x - 1], x, cache) ELSE q[x - 1]
                 /\ ScanAll(e) = q[Max(Q)]
    BY <1>11, <1>17
  <2>2. Max(Q) = last /\ Max(Q) > h
    <3>1. Max(Q) \in Q /\ Max(Q) \in R /\ \A x \in Q : x <= Max(Q)
      BY <1>5, <1>11, <1>17
    <3>2. \A x \in Q : x \in Int /\ x > h
      <4>1. \A x \in Q : x \in 0 .. ChainBound
        BY <1>2, <1>5
      <4> QED BY <1>4, <4>1 DEF Q
    <3>3. Max(Q) <= last /\ last \in R
      BY <1>7, <3>1 DEF last
    <3>4. last \in Q
      BY <1>5, <3>1, <3>2, <3>3, <1>9
    <3> QED BY <3>1, <3>2, <3>3, <3>4
  <2>3. ASSUME NEW k \in 0 .. last
        PROVE  q[k] = IF k <= h THEN on ELSE run[k]
    <3> DEFINE Is(x) == q[x] = IF x <= h THEN on ELSE run[x]
               Bad == {x \in 0 .. last : ~Is(x)}
    <3>1. Bad = {}
      <4> SUFFICES ASSUME Bad # {} PROVE FALSE
        OBVIOUS
      <4>0. Bad \subseteq Nat
        OBVIOUS
      <4>1. PICK x \in Bad : \A y \in Bad : x <= y
        BY <4>0, LeastNumber
      <4>2. x \in 1 .. last
        BY <1>5, <2>1, <4>1
      <4>3. x - 1 \in 0 .. last /\ x - 1 \notin Bad /\ h \in Int /\ last \in Int
        BY <1>5, <1>9, <4>1, <4>2
      <4>4. q[x - 1] = IF x - 1 <= h THEN on ELSE run[x - 1]
        BY <4>3
      <4>5. q[x] = IF x \in Q THEN ScanRow(q[x - 1], x, cache) ELSE q[x - 1]
        BY <2>1, <2>2, <4>2
      <4>6. CASE x <= h
        <5>1. x \notin Q
          BY <1>2, <1>4, <4>3, <4>6 DEF Q
        <5> QED BY <4>1, <4>3, <4>4, <4>5, <4>6, <5>1
      <4>7. CASE ~(x <= h)
        <5>1. q[x - 1] = run[x - 1]
          BY <1>15, <4>2, <4>3, <4>4, <4>7
        <5>2. run[x] = IF x \in R THEN ScanRow(run[x - 1], x, cache) ELSE run[x - 1]
          BY <1>8, <4>2 DEF last
        <5>3. x \in R <=> x \in Q
          BY <1>5, <4>3, <4>7
        <5> QED BY <4>1, <4>5, <4>7, <5>1, <5>2, <5>3
      <4> QED BY <4>6, <4>7
    <3> QED BY <3>1
  <2>4. q[last] = run[last]
    BY <1>5, <1>9, <2>2, <2>3
  <2> QED BY <1>8, <2>1, <2>2, <2>4 DEF last, e, t, body
<1> QED BY <1>16, <1>17

\* A scan that failed is taken up where it stopped.
LEMMA ScanAgain ==
  ASSUME CacheInv, NEW d, Tables(d), d.accounts = <<ViewingKey>>, NEW limit, NEW fault
  PROVE  ScanAll(ScanCachedBlocks(d, cache, limit, fault).db) = ScanAll(d)
<1> DEFINE rows == WithBlocks(cache, LastScanned(d), limit)
           last == Max({0} \cup rows)
<1>1. rows \subseteq DOMAIN cache
  BY DEF WithBlocks
<1> HIDE DEF rows
<1>2. last \in Nat
  <2>0. ChainBound \in Nat /\ Birthday \in Nat
    BY BackendAssumption
  <2>1. {0} \cup rows \subseteq 0 .. ChainBound
    BY <1>1, <2>0 DEF CacheInv
  <2>2. Max({0} \cup rows) \in {0} \cup rows
    BY <2>0, <2>1, Extremes
  <2> QED BY <2>1, <2>2
<1>3. PICK run : IsScan(run, last, d, cache, limit, fault)
  BY <1>2, ScanIs DEF rows
<1> HIDE DEF last
<1> DEFINE Good(h) == /\ IsResult(run[h]) /\ Tables(run[h].db) /\ run[h].db.accounts = <<ViewingKey>>
                      /\ ScanAll(run[h].db) = ScanAll(d)
           Bad == {h \in 0 .. last : ~Good(h)}
<1>4. Good(0)
  <2>1. run[0] = [ok |-> TRUE, db |-> d, fault |-> fault]
    BY <1>3 DEF IsScan
  <2>2. run[0].db = d /\ IsResult(run[0])
    BY <2>1 DEF IsResult
  <2> QED BY <2>2
<1>5. ASSUME NEW h \in 1 .. last, Good(h - 1)
      PROVE  Good(h)
  <2> DEFINE r == run[h - 1]
  <2>1. run[h] = IF h \in rows THEN ScanRow(r, h, cache) ELSE r
    BY <1>3 DEF IsScan, rows
  <2>2. CASE h \notin rows \/ ~r.ok
    BY <2>1, <2>2, <1>5 DEF ScanRow
  <2>3. CASE h \in rows /\ r.ok /\ h # LastScanned(r.db) + 1
    <3>1. run[h] = [ok |-> FALSE, db |-> r.db, fault |-> r.fault]
      BY <2>1, <2>3, <1>5 DEF ScanRow, IsResult
    <3>2. IsResult(run[h]) /\ run[h].db = r.db
      BY <3>1 DEF IsResult
    <3> QED BY <3>2, <1>5
  <2>4. CASE h \in rows /\ r.ok /\ h = LastScanned(r.db) + 1
    <3> DEFINE t == Transactionally(r.db, BlockBody(r.db, h, cache[h]), r.fault)
    <3>1. run[h] = t
      BY <2>1, <2>4 DEF ScanRow
    <3>2. Tables(r.db) /\ r.db.accounts = <<ViewingKey>> /\ h \in DOMAIN cache
      BY <2>4, <1>1, <1>5
    <3>3. IsResult(t) /\ Tables(t.db) /\ t.db.accounts = <<ViewingKey>> /\ (~t.ok => t.db = r.db)
      BY <3>2, <2>4, RowLeaves DEF Leaves
    <3>4. t.ok => ScanAll(t.db) = ScanAll(r.db)
      BY <3>2, <2>4, ScanOn
    <3> HIDE DEF t
    <3> QED BY <1>5, <3>1, <3>3, <3>4
  <2>5. r.ok \in BOOLEAN
    BY <1>5 DEF IsResult
  <2> QED BY <2>2, <2>3, <2>4, <2>5
<1> HIDE DEF Good
<1>6. Bad = {}
  <2> SUFFICES ASSUME Bad # {} PROVE FALSE
    OBVIOUS
  <2>0. Bad \subseteq Nat
    OBVIOUS
  <2>1. PICK h \in Bad : \A m \in Bad : h <= m
    BY <2>0, LeastNumber
  <2>2. h \in 1 .. last /\ h - 1 \in 0 .. last /\ h - 1 < h
    BY <1>2, <1>4, <2>1
  <2>3. h - 1 \notin Bad
    BY <2>1, <2>2
  <2> QED BY <1>5, <2>1, <2>2, <2>3
<1>7. Good(last)
  BY <1>2, <1>6
<1> QED BY <1>3, <1>7 DEF Good, IsScan

LEMMA InvRepeats == Inv => FailedCallsCanBeRepeated
<1> SUFFICES ASSUME Inv,
                    NEW c \in StartCalls \cup (IF Ready THEN ScanCalls \cup RewindCalls \cup EnhanceCalls ELSE {}),
                    NEW fault \in Faults, NEW half \in {Run(c, db, fault)}
             PROVE  LET again == IF c.name = "scanBlockBatch" THEN [c EXCEPT !.name = "scanBlocks"] ELSE c
                        Kept(d) == IF c.name = "rewindToHeight" THEN [d EXCEPT !.utxos = << >>] ELSE d
                    IN  \/ half.ok \/ half.db = db
                        \/ c.name = "rewindToHeight" /\ LastScanned(half.db) < PruningHeight
                        \/ \A whole \in {Run(again, db, 0)} : \A second \in {Run(again, half.db, 0)} :
                             second.ok = whole.ok /\ Kept(second.db) = Kept(whole.db)
  BY Zenon DEF FailedCallsCanBeRepeated
<1>0. half = Run(c, db, fault)
  OBVIOUS
<1>1. CacheInv /\ Tables(db) /\ (Ready => db.accounts = <<ViewingKey>>)
  BY DEF Inv, Tables, Base, Ready
<1>2. CASE c = Call("initDataDb", 0)
  <2>1. c.name = "initDataDb"
    BY <1>2 DEF Call
  <2>2. \A d, f : Run(c, d, f) = InitDataDb(d, f)
    BY <2>1 DEF Run
  <2> QED BY <1>0, <1>1, <2>1, <2>2, InitDataDbAgain
<1>3. CASE c = Call("initBlocksTable", 0)
  <2>1. half = InitBlocksTable(db, fault)
    BY <1>0, <1>3 DEF Run, Call
  <2>2. half.ok \/ half.db = db
    BY <2>1, OneStatement DEF InitBlocksTable
  <2> QED BY <2>2
<1>4. CASE c = Call("initAccountsTableWithKeys", 0)
  <2>1. half = InitAccountsTableWithKeys(db, fault)
    BY <1>0, <1>4 DEF Run, Call
  <2>2. Len(AccountRows(<<ViewingKey>>)) \in Nat
    <3>1. DOMAIN <<ViewingKey>> = 1 .. 1
      OBVIOUS
    <3> QED BY <3>1 DEF AccountRows
  <2>3. half.ok \/ half.db = db
    BY <2>1, <2>2, AllOrNone DEF InitAccountsTableWithKeys
  <2> QED BY <2>3
<1>5. CASE Ready /\ c \in ScanCalls
  <2>1. PICK limit : \A d, f : Run(c, d, f) = ScanCachedBlocks(d, cache, limit, f)
    <3>1. CASE c = Call("scanBlocks", 0)
      BY <3>1 DEF Call, Run, ScanBlocks
    <3>2. CASE c = Call("scanBlockBatch", 0)
      BY <3>2 DEF Call, Run, ScanBlockBatch
    <3> QED BY <1>5, <3>1, <3>2 DEF ScanCalls
  <2> DEFINE again == IF c.name = "scanBlockBatch" THEN [c EXCEPT !.name = "scanBlocks"] ELSE c
  <2>2. again.name = "scanBlocks" /\ c.name # "rewindToHeight"
    BY <1>5 DEF ScanCalls, Call
  <2>3. \A d : Run(again, d, 0) = ScanAll(d)
    <3> HIDE DEF again
    <3> QED BY <2>2 DEF Run, ScanBlocks, ScanAll
  <2>4. ScanAll(half.db) = ScanAll(db)
    BY <1>0, <1>1, <1>5, <2>1, ScanAgain
  <2> QED BY <2>2, <2>3, <2>4
<1>6. CASE Ready /\ c \in RewindCalls
  <2>1. PICK h \in Int : c = Call("rewindToHeight", h)
    BY <1>1, <1>6, NearestIs DEF RewindCalls, Tables
  <2>2. c.name = "rewindToHeight" /\ c.argument = h
    BY <2>1 DEF Call
  <2>3. \A d, f : Run(c, d, f) = RewindToHeight(d, h, f)
    BY <2>2 DEF Run
  <2> QED BY <1>0, <1>1, <2>2, <2>3, RewindAgain
<1>7. CASE Ready /\ c \in EnhanceCalls
  <2>1. PICK tx \in DOMAIN db.transactions : Mined(db, tx) /\ c = Call("decryptAndStoreTransaction", tx)
    BY <1>7 DEF EnhanceCalls
  <2>2. tx \in DOMAIN Body
    <3>1. TxRow(tx, db.transactions[tx], db.blocks) /\ BlocksInv(db.blocks)
      BY <1>1 DEF Tables, Base
    <3>2. PICK k \in db.blocks : k > Birthday /\ tx \in cache[k]
      BY <2>1, <3>1 DEF TxRow, Mined
    <3>3. k \in DOMAIN cache
      BY <3>1, <3>2 DEF BlocksInv
    <3> QED BY <1>1, <3>2, <3>3 DEF CacheInv
  <2>3. half = DecryptAndStoreTransaction(db, tx, fault)
    BY <1>0, <2>1 DEF Call, Run
  <2>4. Len(DecryptedBody(db, tx)) \in Nat
    BY <1>1, <1>7, <2>2, DecryptedBodyIs DEF IsList
  <2>5. half.ok \/ half.db = db
    BY <2>3, <2>4, AllOrNone DEF DecryptAndStoreTransaction
  <2> QED BY <2>5
<1> QED BY <1>2, <1>3, <1>4, <1>5, <1>6, <1>7 DEF StartCalls

\* A call that failed half way, at any statement, can be made again: the second
\* time ends as the first would have, for every chain, fault and order of calls;
\* what a torn rewind leaves of the transparent outputs, and one that ends below
\* PRUNING_HEIGHT, are named in the property.
THEOREM CallsCanBeRepeated == BackendSpec => []FailedCallsCanBeRepeated
<1>1. BackendSpec => []Inv
  BY InitInv, NextInv, PTL DEF BackendSpec
<1> QED BY <1>1, InvRepeats, PTL
=============================================================================
