---------------------------- MODULE Wallets_proofs ----------------------------
(* Proofs about the wallets of the app, for every number of slots and keys,   *)
(* any number of erasures, and a process that may die between any two writes. *)
EXTENDS Wallets, SequenceTheorems, TLAPS

USE WalletsAssumption DEF WalletsAssumption

----------------------------------------------------------------------------
(* Stores: the state of the key store, and what a write does to it.           *)

SlotEntries == KeyEntries \cup {"alias"}
Value == Wallets \cup {None}

Stores ==
  [live: [KeyEntries -> Value], slot: [Slots -> [SlotEntries -> Value \cup Aliases]],
   hasSeed: BOOLEAN, hasBackup: BOOLEAN, count: Nat, active: Nat]

Current == [live |-> live, slot |-> slot, hasSeed |-> hasSeed,
            hasBackup |-> hasBackup, count |-> count, active |-> active]

\* What signs for a set of keys: the seed first.
KeyOf(keys) == IF keys["seed"] # None THEN keys["seed"] ELSE keys["spending_key"]

\* The alias of a slot that has one.
OwnAlias(i) == IF i = 0 THEN DefaultAlias ELSE AliasOf(i)

\* What holds of the key store between any two writes.
Whole(S) ==
  /\ S \in Stores
  /\ S.count <= MaxSlots
  /\ \A i \in Slots : /\ S.slot[i]["alias"] \in {None, OwnAlias(i)}
                       /\ \A e \in KeyEntries : S.slot[i][e] \in Value
  /\ \A i \in Slots : i < S.count =>
       /\ S.slot[i]["vk"] # None
       /\ KeyOf(S.slot[i]) # None
       /\ S.slot[i]["alias"] = OwnAlias(i)
  /\ S.count = 0 /\ S.live["vk"] # None => KeyOf(S.live) # None

\* What holds when an operation is complete, of the key store and the databases,
\* unless a process died half way through one.
Good(S, db) ==
  /\ S.active = 0 \/ S.active < S.count
  /\ \A i \in Slots : i < S.count => S.slot[i]["vk"] = KeyOf(S.slot[i])
  /\ \A i \in Slots : i >= S.count => \A e \in SlotEntries : S.slot[i][e] = None
  /\ S.count > 0 => \A e \in KeyEntries : S.live[e] = S.slot[S.active][e]
  /\ S.live["vk"] = KeyOf(S.live)
  /\ S.hasSeed \/ S.hasBackup <=> S.live["vk"] # None
  /\ S.count = 0 => db[DefaultAlias] \in {None, KeyOf(S.live)}
  /\ \A i \in Slots :
       IF i < S.count THEN db[OwnAlias(i)] \in {None, KeyOf(S.slot[i])}
                      ELSE i > 0 => db[AliasOf(i)] = None

AnyWrite ==
  [in: {"live"}, entry: KeyEntries, value: Value]
    \cup [in: {"slot"}, at: Slots, entry: SlotEntries, value: Value \cup Aliases]
    \cup [in: {"pref"}, entry: {"HAS_SEED", "HAS_BACKUP"}, value: BOOLEAN]
    \cup [in: {"pref"}, entry: {"WALLET_COUNT", "WALLET_ACTIVE"}, value: Nat]

\* The store after a write: Store(w) as a function.
Put(S, w) ==
  [live |-> IF w.in = "live" THEN [S.live EXCEPT ![w.entry] = w.value] ELSE S.live,
   slot |-> IF w.in = "slot" THEN [S.slot EXCEPT ![w.at][w.entry] = w.value]
                             ELSE S.slot,
   hasSeed |-> IF w.in = "pref" /\ w.entry = "HAS_SEED" THEN w.value ELSE S.hasSeed,
   hasBackup |-> IF w.in = "pref" /\ w.entry = "HAS_BACKUP" THEN w.value
                                                           ELSE S.hasBackup,
   count |-> IF w.in = "pref" /\ w.entry = "WALLET_COUNT" THEN w.value ELSE S.count,
   active |-> IF w.in = "pref" /\ w.entry = "WALLET_ACTIVE" THEN w.value
                                                           ELSE S.active]

\* The writes of q lead from store S to store T, and every store on the way is
\* whole.
Runs(q, S, T) ==
  /\ q \in Seq(AnyWrite)
  /\ \E f \in [0 .. Len(q) -> Stores] :
       /\ f[0] = S /\ f[Len(q)] = T
       /\ \A n \in 1 .. Len(q) : f[n] = Put(f[n - 1], q[n])
       /\ \A n \in 0 .. Len(q) : Whole(f[n])

----------------------------------------------------------------------------
(* Runs composes as the queues of writes do.                                  *)

LEMMA StoreIsPut ==
  ASSUME NEW w, Store(w)
  PROVE  Current' = Put(Current, w)
  BY DEF Store, Put, Current

LEMMA WholeType ==
  ASSUME NEW S, Whole(S)
  PROVE  /\ S.live \in [KeyEntries -> Value]
         /\ S.slot \in [Slots -> [SlotEntries -> Value \cup Aliases]]
         /\ S.hasSeed \in BOOLEAN /\ S.hasBackup \in BOOLEAN
         /\ S.count \in Nat /\ S.active \in Nat
  BY DEF Whole, Stores

LEMMA RunsEnds ==
  ASSUME NEW q, NEW S, NEW T, Runs(q, S, T)
  PROVE  Whole(S) /\ Whole(T) /\ (q = << >> => S = T)
<1>1. PICK f \in [0 .. Len(q) -> Stores] :
        /\ f[0] = S /\ f[Len(q)] = T
        /\ \A n \in 0 .. Len(q) : Whole(f[n])
  BY DEF Runs
<1>2. Len(q) \in Nat
  BY DEF Runs
<1>3. 0 \in 0 .. Len(q) /\ Len(q) \in 0 .. Len(q)
  BY <1>2
<1>4. q = << >> => Len(q) = 0
  OBVIOUS
<1> QED BY <1>1, <1>3, <1>4

LEMMA RunsNothing ==
  ASSUME NEW S, Whole(S)
  PROVE  Runs(<< >>, S, S)
<1> DEFINE f == [n \in 0 .. 0 |-> S]
<1>1. Len(<< >>) = 0 /\ << >> \in Seq(AnyWrite)
  OBVIOUS
<1>2. f \in [0 .. 0 -> Stores] /\ f[0] = S
  BY DEF Whole
<1> HIDE DEF f
<1>3. \A n \in 0 .. 0 : Whole(f[n])
  BY <1>2
<1> QED BY <1>1, <1>2, <1>3 DEF Runs

LEMMA RunsOne ==
  ASSUME NEW S, NEW w \in AnyWrite, Whole(S), Whole(Put(S, w))
  PROVE  Runs(<<w>>, S, Put(S, w))
<1> DEFINE f == [n \in 0 .. 1 |-> IF n = 0 THEN S ELSE Put(S, w)]
<1>1. Len(<<w>>) = 1 /\ <<w>> \in Seq(AnyWrite) /\ <<w>>[1] = w
  OBVIOUS
<1>2. f \in [0 .. 1 -> Stores] /\ f[0] = S /\ f[1] = Put(S, w)
  BY DEF Whole
<1> HIDE DEF f
<1>3. \A n \in 0 .. 1 : Whole(f[n])
  BY <1>2
<1>4. \A n \in 1 .. 1 : f[n] = Put(f[n - 1], <<w>>[n])
  BY <1>1, <1>2
<1> QED BY <1>1, <1>2, <1>3, <1>4 DEF Runs

LEMMA RunsThen ==
  ASSUME NEW p, NEW q, NEW S, NEW T, NEW U, Runs(p, S, T), Runs(q, T, U)
  PROVE  Runs(p \o q, S, U)
<1>1. PICK f \in [0 .. Len(p) -> Stores] :
        /\ f[0] = S /\ f[Len(p)] = T
        /\ \A n \in 1 .. Len(p) : f[n] = Put(f[n - 1], p[n])
        /\ \A n \in 0 .. Len(p) : Whole(f[n])
  BY DEF Runs
<1>2. PICK g \in [0 .. Len(q) -> Stores] :
        /\ g[0] = T /\ g[Len(q)] = U
        /\ \A n \in 1 .. Len(q) : g[n] = Put(g[n - 1], q[n])
        /\ \A n \in 0 .. Len(q) : Whole(g[n])
  BY DEF Runs
<1>3. /\ p \in Seq(AnyWrite) /\ q \in Seq(AnyWrite)
      /\ Len(p) \in Nat /\ Len(q) \in Nat
  BY DEF Runs
<1> DEFINE P == Len(p)
           L == Len(p) + Len(q)
           h == [n \in 0 .. L |-> IF n <= P THEN f[n] ELSE g[n - P]]
<1>4. /\ p \o q \in Seq(AnyWrite) /\ Len(p \o q) = L /\ L \in Nat
      /\ \A n \in 1 .. L : (p \o q)[n] = IF n <= P THEN p[n] ELSE q[n - P]
  BY <1>3
<1>5. \A n \in 0 .. P : n \in 0 .. L /\ h[n] = f[n]
  BY <1>3
<1>6. \A n \in 0 .. Len(q) : P + n \in 0 .. L /\ h[P + n] = g[n]
  BY <1>1, <1>2, <1>3
<1>7. \A n \in 0 .. L : n \in 0 .. P \/ \E m \in 1 .. Len(q) : n = P + m
  <2> SUFFICES ASSUME NEW n \in 0 .. L, n \notin 0 .. P
               PROVE  n - P \in 1 .. Len(q) /\ n = P + (n - P)
    OBVIOUS
  <2> QED BY <1>3
<1>8. h \in [0 .. L -> Stores]
  BY <1>1, <1>2, <1>3
<1> HIDE DEF h
<1>9. h[0] = S /\ h[L] = U
  BY <1>1, <1>2, <1>3, <1>5, <1>6
<1>10. \A n \in 0 .. L : Whole(h[n])
  BY <1>1, <1>2, <1>5, <1>6, <1>7
<1>11. ASSUME NEW n \in 1 .. L
       PROVE  h[n] = Put(h[n - 1], (p \o q)[n])
  <2>1. CASE n <= P
    <3>1. n \in 1 .. P /\ n - 1 \in 0 .. P /\ n \in 0 .. P
      BY <1>3, <2>1
    <3> QED BY <1>1, <1>4, <1>5, <2>1, <3>1
  <2>2. CASE n > P
    <3>1. PICK m \in 1 .. Len(q) : n = P + m
      <4>1. n \in 0 .. L /\ n \notin 0 .. P
        BY <1>3, <2>2
      <4> QED BY <1>7, <4>1
    <3>2. m - 1 \in 0 .. Len(q) /\ m \in 0 .. Len(q) /\ n - 1 = P + (m - 1)
      BY <1>3, <3>1
    <3>3. (p \o q)[n] = q[m]
      BY <1>3, <1>4, <2>2, <3>1
    <3> QED BY <1>2, <1>6, <3>1, <3>2, <3>3
  <2> QED BY <1>3, <2>1, <2>2
<1> QED BY <1>4, <1>8, <1>9, <1>10, <1>11 DEF Runs

LEMMA RunsTail ==
  ASSUME NEW q, NEW S, NEW T, Runs(q, S, T), q # << >>
  PROVE  Runs(Tail(q), Put(S, Head(q)), T)
<1>1. PICK f \in [0 .. Len(q) -> Stores] :
        /\ f[0] = S /\ f[Len(q)] = T
        /\ \A n \in 1 .. Len(q) : f[n] = Put(f[n - 1], q[n])
        /\ \A n \in 0 .. Len(q) : Whole(f[n])
  BY DEF Runs
<1>2. /\ q \in Seq(AnyWrite) /\ Len(q) \in Nat /\ Len(q) >= 1
      /\ Tail(q) \in Seq(AnyWrite) /\ Len(Tail(q)) = Len(q) - 1
      /\ \A n \in 1 .. Len(q) - 1 : Tail(q)[n] = q[n + 1]
      /\ Head(q) = q[1]
  BY DEF Runs
<1> DEFINE L == Len(q) - 1
           g == [n \in 0 .. L |-> f[n + 1]]
<1>3. \A n \in 0 .. L : n + 1 \in 1 .. Len(q) /\ n + 1 \in 0 .. Len(q)
  BY <1>2
<1>4. g \in [0 .. L -> Stores] /\ \A n \in 0 .. L : g[n] = f[n + 1]
  BY <1>1, <1>3
<1> HIDE DEF g
<1>5. g[0] = Put(S, Head(q)) /\ g[L] = T
  BY <1>1, <1>2, <1>4
<1>6. \A n \in 0 .. L : Whole(g[n])
  BY <1>1, <1>3, <1>4
<1>7. ASSUME NEW n \in 1 .. L
      PROVE  g[n] = Put(g[n - 1], Tail(q)[n])
  <2>1. n \in 0 .. L /\ n - 1 \in 0 .. L /\ (n - 1) + 1 = n /\ n + 1 \in 1 .. Len(q)
        /\ (n + 1) - 1 = n
    BY <1>2
  <2>2. f[n + 1] = Put(f[n], q[n + 1])
    BY <1>1, <2>1
  <2> QED BY <1>2, <1>4, <2>1, <2>2
<1> QED BY <1>2, <1>4, <1>5, <1>6, <1>7 DEF Runs

----------------------------------------------------------------------------
(* The single writes.                                                         *)

\* What the writes of one kind leave.
SamePrefs(S, T) ==
  /\ T.hasSeed = S.hasSeed /\ T.hasBackup = S.hasBackup
  /\ T.count = S.count /\ T.active = S.active

(* A live key may be cleared once a wallet is registered; the viewing key is  *)
(* written after the key that signs.                                          *)
LEMMA LiveRuns ==
  ASSUME NEW S, NEW e \in KeyEntries, NEW v \in Value, Whole(S),
         S.count > 0 \/ (v # None /\ (e = "vk" => KeyOf(S.live) # None))
  PROVE  \E T : /\ Runs(<<Live(e, v)>>, S, T)
                /\ T.live = [S.live EXCEPT ![e] = v]
                /\ T.slot = S.slot /\ SamePrefs(S, T)
<1> DEFINE T == Put(S, Live(e, v))
<1>1. /\ T.live = [S.live EXCEPT ![e] = v] /\ T.slot = S.slot
      /\ T.count = S.count /\ T.active = S.active
      /\ T.hasSeed = S.hasSeed /\ T.hasBackup = S.hasBackup
  BY DEF Put, Live
<1>2. T = [live |-> T.live, slot |-> S.slot, hasSeed |-> S.hasSeed,
           hasBackup |-> S.hasBackup, count |-> S.count, active |-> S.active]
  BY DEF Put, Live
<1>3. S \in Stores
  BY DEF Whole
<1>4. Live(e, v) \in AnyWrite
  BY DEF Live, AnyWrite
<1> HIDE DEF T
<1>5. T.live \in [KeyEntries -> Value]
  BY <1>1, <1>3 DEF Stores
<1>6. T \in Stores
  BY <1>2, <1>3, <1>5 DEF Stores
<1>7. S.count = 0 /\ T.live["vk"] # None => KeyOf(T.live) # None
  <2>1. S.live \in [KeyEntries -> Value] /\ S.count \in Nat
    BY <1>3 DEF Stores
  <2> SUFFICES ASSUME v # None, e = "vk" => KeyOf(S.live) # None
               PROVE  KeyOf(T.live) # None
    BY <2>1
  <2> QED BY <1>1, <2>1 DEF KeyOf, KeyEntries
<1>8. Whole(T)
  BY <1>1, <1>6, <1>7 DEF Whole
<1>9. Runs(<<Live(e, v)>>, S, T)
  BY <1>4, <1>8, RunsOne DEF T
<1> QED BY <1>1, <1>9 DEF SamePrefs

(* A slot's entries are never cleared, and its alias is its own.              *)
LEMMA SlotRuns ==
  ASSUME NEW S, NEW i \in Slots, NEW e \in SlotEntries, NEW v, Whole(S),
         IF e = "alias" THEN v = OwnAlias(i) ELSE v \in Wallets
  PROVE  \E T : /\ Runs(<<InSlot(i, e, v)>>, S, T)
                /\ T.slot = [S.slot EXCEPT ![i][e] = v]
                /\ T.live = S.live /\ SamePrefs(S, T)
<1> DEFINE T == Put(S, InSlot(i, e, v))
<1>1. /\ T.slot = [S.slot EXCEPT ![i][e] = v] /\ T.live = S.live
      /\ T.count = S.count /\ T.active = S.active
      /\ T.hasSeed = S.hasSeed /\ T.hasBackup = S.hasBackup
  BY DEF Put, InSlot
<1>2. T = [live |-> S.live, slot |-> T.slot, hasSeed |-> S.hasSeed,
           hasBackup |-> S.hasBackup, count |-> S.count, active |-> S.active]
  BY DEF Put, InSlot
<1>3. S \in Stores
  BY DEF Whole
<1>4. OwnAlias(i) \in Aliases /\ OwnAlias(i) # None /\ None \notin Wallets
  BY DEF OwnAlias, Aliases, AliasOf, DefaultAlias, Slots, Wallets
<1>5. v \in Value \cup Aliases /\ v # None
  BY <1>4 DEF Value
<1>6. InSlot(i, e, v) \in AnyWrite
  BY <1>5 DEF InSlot, AnyWrite
<1> HIDE DEF T
<1>7. S.slot \in [Slots -> [SlotEntries -> Value \cup Aliases]]
  BY <1>3 DEF Stores
<1>8. T.slot \in [Slots -> [SlotEntries -> Value \cup Aliases]]
  BY <1>1, <1>5, <1>7
<1>9. T \in Stores
  BY <1>2, <1>3, <1>8 DEF Stores
<1>10. \A j \in Slots : \A d \in SlotEntries :
         T.slot[j][d] = IF j = i /\ d = e THEN v ELSE S.slot[j][d]
  BY <1>1, <1>7
<1>11. {"seed", "spending_key", "vk", "alias"} = SlotEntries
  BY DEF SlotEntries, KeyEntries
<1>12. ASSUME NEW j \in Slots
       PROVE  /\ T.slot[j]["alias"] \in {None, OwnAlias(j)}
              /\ \A d \in KeyEntries : T.slot[j][d] \in Value
              /\ S.slot[j]["alias"] = OwnAlias(j) => T.slot[j]["alias"] = OwnAlias(j)
              /\ S.slot[j]["vk"] # None => T.slot[j]["vk"] # None
              /\ KeyOf(S.slot[j]) # None => KeyOf(T.slot[j]) # None
  <2>1. v \in Wallets \/ e = "alias"
    OBVIOUS
  <2>2. \A d \in KeyEntries : d # "alias" /\ d \in SlotEntries
    BY DEF KeyEntries, SlotEntries
  <2>3. \A d \in KeyEntries : T.slot[j][d] \in Value
    BY <1>10, <2>1, <2>2 DEF Whole, Value
  <2> QED BY <1>5, <1>10, <1>11, <2>3 DEF Whole, KeyOf
<1>13. Whole(T)
  BY <1>1, <1>9, <1>12 DEF Whole
<1>14. Runs(<<InSlot(i, e, v)>>, S, T)
  BY <1>6, <1>13, RunsOne DEF T
<1> QED BY <1>1, <1>14 DEF SamePrefs

(* The flags and the active slot may take any value, ...                      *)
LEMMA SeedFlagRuns ==
  ASSUME NEW S, NEW b, b \in BOOLEAN, Whole(S)
  PROVE  \E T : /\ Runs(<<Pref("HAS_SEED", b)>>, S, T)
                /\ T.live = S.live /\ T.slot = S.slot
                /\ T.count = S.count /\ T.active = S.active
                /\ T.hasSeed = b /\ T.hasBackup = S.hasBackup
<1>1. S \in Stores
  BY DEF Whole
<1>2. Pref("HAS_SEED", b) \in AnyWrite
  BY DEF Pref, AnyWrite
<1>3. Put(S, Pref("HAS_SEED", b)) =
        [live |-> S.live, slot |-> S.slot, hasSeed |-> b, hasBackup |-> S.hasBackup,
         count |-> S.count, active |-> S.active]
  BY DEF Put, Pref
<1>4. Whole(Put(S, Pref("HAS_SEED", b)))
  BY <1>1, <1>3 DEF Whole, Stores
<1>5. Runs(<<Pref("HAS_SEED", b)>>, S, Put(S, Pref("HAS_SEED", b)))
  BY <1>2, <1>4, RunsOne
<1> QED BY <1>3, <1>5

LEMMA BackupFlagRuns ==
  ASSUME NEW S, NEW b, b \in BOOLEAN, Whole(S)
  PROVE  \E T : /\ Runs(<<Pref("HAS_BACKUP", b)>>, S, T)
                /\ T.live = S.live /\ T.slot = S.slot
                /\ T.count = S.count /\ T.active = S.active
                /\ T.hasSeed = S.hasSeed /\ T.hasBackup = b
<1>1. S \in Stores
  BY DEF Whole
<1>2. Pref("HAS_BACKUP", b) \in AnyWrite
  BY DEF Pref, AnyWrite
<1>3. Put(S, Pref("HAS_BACKUP", b)) =
        [live |-> S.live, slot |-> S.slot, hasSeed |-> S.hasSeed, hasBackup |-> b,
         count |-> S.count, active |-> S.active]
  BY DEF Put, Pref
<1>4. Whole(Put(S, Pref("HAS_BACKUP", b)))
  BY <1>1, <1>3 DEF Whole, Stores
<1>5. Runs(<<Pref("HAS_BACKUP", b)>>, S, Put(S, Pref("HAS_BACKUP", b)))
  BY <1>2, <1>4, RunsOne
<1> QED BY <1>3, <1>5

LEMMA ActiveRuns ==
  ASSUME NEW S, NEW i \in Nat, Whole(S)
  PROVE  \E T : /\ Runs(<<Pref("WALLET_ACTIVE", i)>>, S, T)
                /\ T.live = S.live /\ T.slot = S.slot
                /\ T.count = S.count /\ T.active = i
                /\ T.hasSeed = S.hasSeed /\ T.hasBackup = S.hasBackup
<1>1. S \in Stores
  BY DEF Whole
<1>2. Pref("WALLET_ACTIVE", i) \in AnyWrite
  BY DEF Pref, AnyWrite
<1>3. Put(S, Pref("WALLET_ACTIVE", i)) =
        [live |-> S.live, slot |-> S.slot, hasSeed |-> S.hasSeed,
         hasBackup |-> S.hasBackup, count |-> S.count, active |-> i]
  BY DEF Put, Pref
<1>4. Whole(Put(S, Pref("WALLET_ACTIVE", i)))
  BY <1>1, <1>3 DEF Whole, Stores
<1>5. Runs(<<Pref("WALLET_ACTIVE", i)>>, S, Put(S, Pref("WALLET_ACTIVE", i)))
  BY <1>2, <1>4, RunsOne
<1> QED BY <1>3, <1>5

(* ... but a wallet is counted only when its slot is filled.                  *)
Countable(S, c) ==
  /\ c \in 1 .. MaxSlots /\ c <= S.count + 1
  /\ \A i \in Slots : i = c - 1 =>
       /\ S.slot[i]["vk"] # None
       /\ KeyOf(S.slot[i]) # None
       /\ S.slot[i]["alias"] = OwnAlias(i)

LEMMA CountRuns ==
  ASSUME NEW S, NEW c, Whole(S), Countable(S, c)
  PROVE  \E T : /\ Runs(<<Pref("WALLET_COUNT", c)>>, S, T)
                /\ T.live = S.live /\ T.slot = S.slot
                /\ T.count = c /\ T.active = S.active
                /\ T.hasSeed = S.hasSeed /\ T.hasBackup = S.hasBackup
<1>1. S \in Stores
  BY DEF Whole
<1>2. Pref("WALLET_COUNT", c) \in AnyWrite
  BY DEF Pref, AnyWrite, Countable
<1> DEFINE T == Put(S, Pref("WALLET_COUNT", c))
<1>3. T = [live |-> S.live, slot |-> S.slot, hasSeed |-> S.hasSeed,
           hasBackup |-> S.hasBackup, count |-> c, active |-> S.active]
  BY DEF Put, Pref
<1> HIDE DEF T
<1>4. T \in Stores
  BY <1>1, <1>3 DEF Stores, Countable
<1>5. \A i \in Slots : i < c => i < S.count \/ i = c - 1
  BY <1>1 DEF Stores, Slots, Countable
<1>6. Whole(T)
  BY <1>3, <1>4, <1>5 DEF Whole, Countable
<1>7. Runs(<<Pref("WALLET_COUNT", c)>>, S, T)
  BY <1>2, <1>6, RunsOne DEF T
<1> QED BY <1>3, <1>7

(* A write that is left out when there is nothing to write.                   *)
LEMMA PresentRuns ==
  ASSUME NEW v, NEW w, NEW S, NEW T, Whole(S),
         IF v = None THEN T = S ELSE Runs(<<w>>, S, T)
  PROVE  Runs(IfPresent(v, w), S, T)
  BY RunsNothing DEF IfPresent

LEMMA LivePresentRuns ==
  ASSUME NEW S, NEW e \in KeyEntries, NEW v \in Value, Whole(S), S.count > 0
  PROVE  \E T : /\ Runs(IfPresent(v, Live(e, v)), S, T)
                /\ T.live = IF v = None THEN S.live ELSE [S.live EXCEPT ![e] = v]
                /\ T.slot = S.slot /\ SamePrefs(S, T)
<1>1. CASE v = None
  <2>1. Runs(IfPresent(v, Live(e, v)), S, S)
    BY <1>1, PresentRuns
  <2> QED BY <1>1, <2>1 DEF SamePrefs
<1>2. CASE v # None
  <2>1. PICK T : /\ Runs(<<Live(e, v)>>, S, T)
                 /\ T.live = [S.live EXCEPT ![e] = v]
                 /\ T.slot = S.slot /\ SamePrefs(S, T)
    BY LiveRuns
  <2>2. Runs(IfPresent(v, Live(e, v)), S, T)
    BY <1>2, <2>1, PresentRuns
  <2> QED BY <1>2, <2>1, <2>2
<1> QED BY <1>1, <1>2

LEMMA SlotPresentRuns ==
  ASSUME NEW S, NEW i \in Slots, NEW e \in KeyEntries, NEW v \in Value, Whole(S)
  PROVE  \E T : /\ Runs(IfPresent(v, InSlot(i, e, v)), S, T)
                /\ T.slot = IF v = None THEN S.slot ELSE [S.slot EXCEPT ![i][e] = v]
                /\ T.live = S.live /\ SamePrefs(S, T)
<1>1. CASE v = None
  <2>1. Runs(IfPresent(v, InSlot(i, e, v)), S, S)
    BY <1>1, PresentRuns
  <2> QED BY <1>1, <2>1 DEF SamePrefs
<1>2. CASE v # None
  <2>1. e # "alias" /\ e \in SlotEntries /\ v \in Wallets
    BY <1>2 DEF KeyEntries, SlotEntries, Value
  <2>2. PICK T : /\ Runs(<<InSlot(i, e, v)>>, S, T)
                 /\ T.slot = [S.slot EXCEPT ![i][e] = v]
                 /\ T.live = S.live /\ SamePrefs(S, T)
    BY <2>1, SlotRuns
  <2>3. Runs(IfPresent(v, InSlot(i, e, v)), S, T)
    BY <1>2, <2>2, PresentRuns
  <2> QED BY <1>2, <2>2, <2>3
<1> QED BY <1>1, <1>2

----------------------------------------------------------------------------
(* The queues of the operations.                                              *)

\* What a queue that fills slot i with these keys leaves of the slots.
Filled(S, T, i, keys) ==
  \A j \in Slots :
    /\ T.slot[j]["alias"] = IF j = i THEN OwnAlias(i) ELSE S.slot[j]["alias"]
    /\ \A e \in KeyEntries :
         T.slot[j][e] = IF j = i /\ keys[e] # None THEN keys[e] ELSE S.slot[j][e]

(* The three keys of a slot, those that are missing left out.                 *)
LEMMA FillRuns ==
  ASSUME NEW S, NEW i \in Slots, NEW keys \in [KeyEntries -> Value], Whole(S)
  PROVE  \E T : /\ Runs(IfPresent(keys["seed"], InSlot(i, "seed", keys["seed"]))
                          \o IfPresent(keys["spending_key"],
                                       InSlot(i, "spending_key", keys["spending_key"]))
                          \o IfPresent(keys["vk"], InSlot(i, "vk", keys["vk"]))
                          \o <<InSlot(i, "alias", OwnAlias(i))>>, S, T)
                /\ Filled(S, T, i, keys)
                /\ T.live = S.live /\ SamePrefs(S, T)
<1>0. /\ {"seed", "spending_key", "vk"} = KeyEntries
      /\ SlotEntries = {"seed", "spending_key", "vk", "alias"}
      /\ keys["seed"] \in Value /\ keys["spending_key"] \in Value
      /\ keys["vk"] \in Value
      /\ S.slot \in [Slots -> [SlotEntries -> Value \cup Aliases]]
  BY DEF KeyEntries, SlotEntries, Whole, Stores
<1>1. PICK A : /\ Runs(IfPresent(keys["seed"], InSlot(i, "seed", keys["seed"])), S, A)
               /\ A.slot = IF keys["seed"] = None THEN S.slot
                           ELSE [S.slot EXCEPT ![i]["seed"] = keys["seed"]]
               /\ A.live = S.live /\ SamePrefs(S, A)
  BY <1>0, SlotPresentRuns
<1>2. PICK B : /\ Runs(IfPresent(keys["spending_key"],
                         InSlot(i, "spending_key", keys["spending_key"])), A, B)
               /\ B.slot = IF keys["spending_key"] = None THEN A.slot
                  ELSE [A.slot EXCEPT ![i]["spending_key"] = keys["spending_key"]]
               /\ B.live = A.live /\ SamePrefs(A, B)
  BY <1>0, <1>1, RunsEnds, SlotPresentRuns
<1>3. PICK C : /\ Runs(IfPresent(keys["vk"], InSlot(i, "vk", keys["vk"])), B, C)
               /\ C.slot = IF keys["vk"] = None THEN B.slot
                           ELSE [B.slot EXCEPT ![i]["vk"] = keys["vk"]]
               /\ C.live = B.live /\ SamePrefs(B, C)
  BY <1>0, <1>2, RunsEnds, SlotPresentRuns
<1>4. PICK T : /\ Runs(<<InSlot(i, "alias", OwnAlias(i))>>, C, T)
               /\ T.slot = [C.slot EXCEPT ![i]["alias"] = OwnAlias(i)]
               /\ T.live = C.live /\ SamePrefs(C, T)
  <2>1. "alias" \in SlotEntries /\ Whole(C)
    BY <1>3, RunsEnds DEF SlotEntries
  <2> QED BY <2>1, SlotRuns
<1>5. Runs(IfPresent(keys["seed"], InSlot(i, "seed", keys["seed"]))
             \o IfPresent(keys["spending_key"],
                          InSlot(i, "spending_key", keys["spending_key"]))
             \o IfPresent(keys["vk"], InSlot(i, "vk", keys["vk"]))
             \o <<InSlot(i, "alias", OwnAlias(i))>>, S, T)
  BY <1>1, <1>2, <1>3, <1>4, RunsThen
<1>6. /\ A.slot \in [Slots -> [SlotEntries -> Value \cup Aliases]]
      /\ B.slot \in [Slots -> [SlotEntries -> Value \cup Aliases]]
      /\ C.slot \in [Slots -> [SlotEntries -> Value \cup Aliases]]
  BY <1>1, <1>2, <1>3, RunsEnds, WholeType
<1>7. \A j \in Slots :
        /\ A.slot[j]["seed"] = IF j = i /\ keys["seed"] # None THEN keys["seed"]
                               ELSE S.slot[j]["seed"]
        /\ A.slot[j]["spending_key"] = S.slot[j]["spending_key"]
        /\ A.slot[j]["vk"] = S.slot[j]["vk"]
        /\ A.slot[j]["alias"] = S.slot[j]["alias"]
  BY <1>0, <1>1
<1>8. \A j \in Slots :
        /\ B.slot[j]["spending_key"] =
             IF j = i /\ keys["spending_key"] # None THEN keys["spending_key"]
             ELSE A.slot[j]["spending_key"]
        /\ B.slot[j]["seed"] = A.slot[j]["seed"]
        /\ B.slot[j]["vk"] = A.slot[j]["vk"]
        /\ B.slot[j]["alias"] = A.slot[j]["alias"]
  BY <1>0, <1>2, <1>6
<1>9. \A j \in Slots :
        /\ C.slot[j]["vk"] = IF j = i /\ keys["vk"] # None THEN keys["vk"]
                             ELSE B.slot[j]["vk"]
        /\ C.slot[j]["seed"] = B.slot[j]["seed"]
        /\ C.slot[j]["spending_key"] = B.slot[j]["spending_key"]
        /\ C.slot[j]["alias"] = B.slot[j]["alias"]
  BY <1>0, <1>3, <1>6
<1>10. \A j \in Slots :
        /\ T.slot[j]["alias"] = IF j = i THEN OwnAlias(i) ELSE C.slot[j]["alias"]
        /\ T.slot[j]["seed"] = C.slot[j]["seed"]
        /\ T.slot[j]["spending_key"] = C.slot[j]["spending_key"]
        /\ T.slot[j]["vk"] = C.slot[j]["vk"]
  BY <1>0, <1>4, <1>6
<1>11. Filled(S, T, i, keys)
  BY <1>0, <1>7, <1>8, <1>9, <1>10 DEF Filled
<1>12. T.live = S.live /\ SamePrefs(S, T)
  BY <1>1, <1>2, <1>3, <1>4 DEF SamePrefs
<1> QED BY <1>5, <1>11, <1>12

(* Several writes in one tuple.                                               *)
LEMMA PairIsConcat ==
  ASSUME NEW W, NEW x \in W, NEW y \in W
  PROVE  <<x, y>> = <<x>> \o <<y>>
<1>1. <<x>> \in Seq(W) /\ <<y>> \in Seq(W) /\ <<x, y>> \in Seq(W)
  OBVIOUS
<1>2. <<x>> \o <<y>> \in Seq(W) /\ Len(<<x>> \o <<y>>) = Len(<<x, y>>)
  BY <1>1, ConcatProperties
<1>3. \A i \in 1 .. Len(<<x, y>>) : <<x, y>>[i] = (<<x>> \o <<y>>)[i]
  BY <1>1, ConcatProperties
<1> QED BY <1>1, <1>2, <1>3, SeqEqual

LEMMA TripleIsConcat ==
  ASSUME NEW W, NEW x \in W, NEW y \in W, NEW z \in W
  PROVE  <<x, y, z>> = <<x>> \o <<y>> \o <<z>>
<1>1. <<x, y>> \in Seq(W) /\ <<z>> \in Seq(W) /\ <<x, y, z>> \in Seq(W)
  OBVIOUS
<1>2. <<x, y>> \o <<z>> \in Seq(W) /\ Len(<<x, y>> \o <<z>>) = Len(<<x, y, z>>)
  BY <1>1, ConcatProperties
<1>3. \A i \in 1 .. Len(<<x, y, z>>) : <<x, y, z>>[i] = (<<x, y>> \o <<z>>)[i]
  BY <1>1, ConcatProperties
<1>4. <<x, y, z>> = <<x, y>> \o <<z>>
  BY <1>1, <1>2, <1>3, SeqEqual
<1> QED BY <1>4, PairIsConcat

LEMMA QuadIsConcat ==
  ASSUME NEW W, NEW x \in W, NEW y \in W, NEW z \in W, NEW u \in W
  PROVE  <<x, y, z, u>> = <<x, y, z>> \o <<u>>
<1>1. <<x, y, z>> \in Seq(W) /\ <<u>> \in Seq(W) /\ <<x, y, z, u>> \in Seq(W)
  OBVIOUS
<1>2. /\ <<x, y, z>> \o <<u>> \in Seq(W)
      /\ Len(<<x, y, z>> \o <<u>>) = Len(<<x, y, z, u>>)
  BY <1>1, ConcatProperties
<1>3. \A i \in 1 .. Len(<<x, y, z, u>>) :
        <<x, y, z, u>>[i] = (<<x, y, z>> \o <<u>>)[i]
  BY <1>1, ConcatProperties
<1> QED BY <1>1, <1>2, <1>3, SeqEqual

LEMMA ConcatTriple ==
  ASSUME NEW p \in Seq(AnyWrite),
         NEW x \in AnyWrite, NEW y \in AnyWrite, NEW z \in AnyWrite
  PROVE  p \o <<x, y, z>> = p \o <<x>> \o <<y>> \o <<z>>
<1>1. <<x>> \in Seq(AnyWrite) /\ <<y>> \in Seq(AnyWrite) /\ <<z>> \in Seq(AnyWrite)
  OBVIOUS
<1>2. <<x>> \o <<y>> \in Seq(AnyWrite)
  BY <1>1, ConcatProperties
<1>3. p \o ((<<x>> \o <<y>>) \o <<z>>) = (p \o (<<x>> \o <<y>>)) \o <<z>>
  BY <1>1, <1>2, ConcatAssociative
<1>4. p \o (<<x>> \o <<y>>) = (p \o <<x>>) \o <<y>>
  BY <1>1, ConcatAssociative
<1>5. <<x, y, z>> = (<<x>> \o <<y>>) \o <<z>>
  BY TripleIsConcat
<1> QED BY <1>3, <1>4, <1>5

LEMMA ConcatPairTriple ==
  ASSUME NEW p \in Seq(AnyWrite), NEW q \in Seq(AnyWrite),
         NEW x \in AnyWrite, NEW y \in AnyWrite, NEW z \in AnyWrite
  PROVE  p \o q \o <<x, y, z>> = p \o q \o <<x>> \o <<y>> \o <<z>>
<1>1. p \o q \in Seq(AnyWrite)
  BY ConcatProperties
<1> QED BY <1>1, ConcatTriple

LEMMA RunsTuple ==
  ASSUME NEW x, NEW y, NEW S, NEW A, NEW B, Runs(<<x>>, S, A), Runs(<<y>>, A, B)
  PROVE  /\ Runs(<<x, y>>, S, B)
         /\ \A z, T : Runs(<<z>>, B, T) => Runs(<<x, y, z>>, S, T)
         /\ \A z, T, p, R : Runs(<<z>>, B, T) /\ Runs(p, R, S) =>
              Runs(p \o <<x, y, z>>, R, T)
<1>1. ASSUME NEW w, NEW C, NEW D, Runs(<<w>>, C, D)
      PROVE  w \in AnyWrite
  BY <1>1 DEF Runs
<1>2. x \in AnyWrite /\ y \in AnyWrite
  BY <1>1
<1>3. <<x, y>> = <<x>> \o <<y>>
  BY <1>2, PairIsConcat
<1>4. ASSUME NEW z, NEW T, Runs(<<z>>, B, T)
      PROVE  /\ Runs(<<x, y, z>>, S, T)
             /\ \A p, R : Runs(p, R, S) => Runs(p \o <<x, y, z>>, R, T)
  <2>1. z \in AnyWrite
    BY <1>1, <1>4
  <2>2. <<x, y, z>> = <<x>> \o <<y>> \o <<z>>
    BY <1>2, <2>1, TripleIsConcat
  <2>3. Runs(<<x, y, z>>, S, T)
    BY <1>4, <2>2, RunsThen
  <2> QED BY <2>3, RunsThen
<1> QED BY <1>3, <1>4, RunsThen

(* migrateIfNeeded in an open wallet: slot 0 mirrors the live keys.           *)
LEMMA MigrateRuns ==
  ASSUME Whole(Current), live["vk"] # None
  PROVE  \E T : /\ Runs(MigrateIfNeeded, Current, T)
                /\ T.count = CountMigrated /\ T.count > 0
                /\ T.live = live /\ T.hasSeed = hasSeed /\ T.hasBackup = hasBackup
                /\ IF count > 0 THEN T = Current
                   ELSE /\ T.count = 1 /\ T.active = 0
                        /\ Filled(Current, T, 0, live)
<1>0. /\ live \in [KeyEntries -> Value] /\ count \in Nat
      /\ Current.live = live /\ Current.count = count
      /\ Current.hasSeed = hasSeed /\ Current.hasBackup = hasBackup
      /\ 0 \in Slots
  BY WholeType DEF Current, Slots
<1>1. CASE count > 0
  <2>1. MigrateIfNeeded = << >>
    BY <1>1 DEF MigrateIfNeeded
  <2>2. CountMigrated = count
    BY <2>1 DEF CountMigrated
  <2> QED BY <1>0, <1>1, <2>1, <2>2, RunsNothing
<1>2. CASE count = 0
  <2>1. MigrateIfNeeded =
          SaveActiveInto(0) \o <<Pref("WALLET_COUNT", 1), Pref("WALLET_ACTIVE", 0)>>
    BY <1>2 DEF MigrateIfNeeded
  <2>2. PICK A : /\ Runs(SaveActiveInto(0), Current, A)
                 /\ Filled(Current, A, 0, live)
                 /\ A.live = live /\ SamePrefs(Current, A)
    <3>1. SaveActiveInto(0) =
            IfPresent(live["seed"], InSlot(0, "seed", live["seed"]))
              \o IfPresent(live["spending_key"],
                           InSlot(0, "spending_key", live["spending_key"]))
              \o IfPresent(live["vk"], InSlot(0, "vk", live["vk"]))
              \o <<InSlot(0, "alias", OwnAlias(0))>>
      BY DEF SaveActiveInto, OwnAlias
    <3> QED BY <1>0, <3>1, FillRuns
  <2>3. KeyOf(live) # None
    BY <1>0, <1>2 DEF Whole
  <2>4. /\ A.slot[0]["vk"] # None /\ KeyOf(A.slot[0]) # None
        /\ A.slot[0]["alias"] = OwnAlias(0)
    <3>1. {"seed", "spending_key", "vk"} = KeyEntries
      BY DEF KeyEntries
    <3>2. \A e \in KeyEntries : live[e] # None => A.slot[0][e] = live[e]
      BY <1>0, <2>2 DEF Filled
    <3>3. A.slot[0]["alias"] = OwnAlias(0)
      BY <1>0, <2>2 DEF Filled
    <3> QED BY <2>3, <3>1, <3>2, <3>3 DEF KeyOf
  <2>5. Whole(A) /\ A.count = 0 /\ 1 \in 1 .. MaxSlots
    BY <1>0, <1>2, <2>2, RunsEnds DEF SamePrefs
  <2>6. PICK B : /\ Runs(<<Pref("WALLET_COUNT", 1)>>, A, B)
                 /\ B.live = A.live /\ B.slot = A.slot /\ B.count = 1
                 /\ B.hasSeed = A.hasSeed /\ B.hasBackup = A.hasBackup
    <3>1. Countable(A, 1)
      BY <2>4, <2>5 DEF Countable, Slots
    <3> QED BY <2>5, <3>1, CountRuns
  <2>7. PICK T : /\ Runs(<<Pref("WALLET_ACTIVE", 0)>>, B, T)
                 /\ T.live = B.live /\ T.slot = B.slot
                 /\ T.count = B.count /\ T.active = 0
                 /\ T.hasSeed = B.hasSeed /\ T.hasBackup = B.hasBackup
    BY <2>6, RunsEnds, ActiveRuns
  <2>8. Runs(MigrateIfNeeded, Current, T)
    BY <2>1, <2>2, <2>6, <2>7, RunsTuple, RunsThen
  <2>9. T.count = CountMigrated
    <3>1. MigrateIfNeeded # << >>
      BY <1>0, <1>2, <2>6, <2>7, <2>8, RunsEnds
    <3> QED BY <2>6, <2>7, <3>1 DEF CountMigrated
  <2>10. Filled(Current, T, 0, live)
    BY <2>2, <2>6, <2>7 DEF Filled
  <2> QED BY <1>0, <1>2, <2>2, <2>6, <2>7, <2>8, <2>9, <2>10 DEF SamePrefs
<1> QED BY <1>0, <1>1, <1>2

\* Every entry is a key or missing.
KeySet(keys) == \A e \in KeyEntries : keys[e] \in Value

(* switchTo, with these keys.                                                 *)
LEMMA SwitchRuns ==
  ASSUME NEW S, NEW i \in Slots, NEW keys, Whole(S), S.count > 0, KeySet(keys)
  PROVE  \E T : /\ Runs(SwitchWrites(i, keys), S, T)
                /\ T.slot = S.slot /\ T.count = S.count /\ T.active = i
                /\ T.hasBackup
                /\ \A e \in KeyEntries : T.live[e] = keys[e]
<1>0. /\ {"seed", "spending_key", "vk"} = KeyEntries
      /\ None \in Value
      /\ keys["seed"] \in Value /\ keys["spending_key"] \in Value
      /\ keys["vk"] \in Value
  BY DEF KeyEntries, Value, KeySet
<1>b. PICK b \in BOOLEAN : b = (keys["seed"] # None)
  OBVIOUS
<1>c. b \in BOOLEAN
  BY <1>b
<1> DEFINE clear == <<Live("seed", None), Live("spending_key", None), Live("vk", None)>>
<1>1. PICK C : /\ Runs(clear, S, C)
               /\ C.live = [[[S.live EXCEPT !["seed"] = None]
                               EXCEPT !["spending_key"] = None] EXCEPT !["vk"] = None]
               /\ C.slot = S.slot /\ SamePrefs(S, C)
  <2>1. PICK A : /\ Runs(<<Live("seed", None)>>, S, A)
                 /\ A.live = [S.live EXCEPT !["seed"] = None]
                 /\ A.slot = S.slot /\ SamePrefs(S, A)
    BY <1>0, LiveRuns
  <2>2. PICK B : /\ Runs(<<Live("spending_key", None)>>, A, B)
                 /\ B.live = [A.live EXCEPT !["spending_key"] = None]
                 /\ B.slot = A.slot /\ SamePrefs(A, B)
    BY <1>0, <2>1, RunsEnds, LiveRuns DEF SamePrefs
  <2>3. PICK C : /\ Runs(<<Live("vk", None)>>, B, C)
                 /\ C.live = [B.live EXCEPT !["vk"] = None]
                 /\ C.slot = B.slot /\ SamePrefs(B, C)
    <3>1. Whole(B) /\ B.count > 0
      BY <2>1, <2>2, RunsEnds DEF SamePrefs
    <3> QED BY <1>0, <3>1, LiveRuns
  <2>4. Runs(clear, S, C)
    BY <2>1, <2>2, <2>3, RunsTuple
  <2> QED BY <2>1, <2>2, <2>3, <2>4 DEF SamePrefs
<1> HIDE DEF clear
<1>2. PICK A : /\ Runs(IfPresent(keys["seed"], Live("seed", keys["seed"])), C, A)
               /\ A.live = IF keys["seed"] = None THEN C.live
                           ELSE [C.live EXCEPT !["seed"] = keys["seed"]]
               /\ A.slot = C.slot /\ SamePrefs(C, A)
  <2>1. Whole(C) /\ C.count > 0
    BY <1>1, RunsEnds DEF SamePrefs
  <2> QED BY <1>0, <2>1, LivePresentRuns
<1>3. PICK B : /\ Runs(IfPresent(keys["spending_key"],
                                 Live("spending_key", keys["spending_key"])), A, B)
               /\ B.live = IF keys["spending_key"] = None THEN A.live
                           ELSE [A.live EXCEPT !["spending_key"] = keys["spending_key"]]
               /\ B.slot = A.slot /\ SamePrefs(A, B)
  <2>1. Whole(A) /\ A.count > 0
    BY <1>1, <1>2, RunsEnds DEF SamePrefs
  <2> QED BY <1>0, <2>1, LivePresentRuns
<1>4. PICK D : /\ Runs(IfPresent(keys["vk"], Live("vk", keys["vk"])), B, D)
               /\ D.live = IF keys["vk"] = None THEN B.live
                           ELSE [B.live EXCEPT !["vk"] = keys["vk"]]
               /\ D.slot = B.slot /\ SamePrefs(B, D)
  <2>1. Whole(B) /\ B.count > 0
    BY <1>1, <1>2, <1>3, RunsEnds DEF SamePrefs
  <2> QED BY <1>0, <2>1, LivePresentRuns
<1>5. PICK E : /\ Runs(<<Pref("HAS_SEED", b)>>, D, E)
               /\ E.live = D.live /\ E.slot = D.slot
               /\ E.count = D.count /\ E.hasSeed = b
  BY <1>c, <1>4, RunsEnds, SeedFlagRuns
<1>6. PICK F : /\ Runs(<<Pref("HAS_BACKUP", TRUE)>>, E, F)
               /\ F.live = E.live /\ F.slot = E.slot
               /\ F.count = E.count /\ F.hasSeed = E.hasSeed /\ F.hasBackup
  BY <1>0, <1>5, RunsEnds, BackupFlagRuns
<1>7. PICK T : /\ Runs(<<Pref("WALLET_ACTIVE", i)>>, F, T)
               /\ T.live = F.live /\ T.slot = F.slot
               /\ T.count = F.count /\ T.active = i
               /\ T.hasSeed = F.hasSeed /\ T.hasBackup = F.hasBackup
  <2>1. i \in Nat /\ Whole(F)
    BY <1>6, RunsEnds DEF Slots
  <2> QED BY <2>1, ActiveRuns
<1>8. Runs(LoadIntoActive(i, keys), S, F)
  <2>1. Runs(<<Pref("HAS_SEED", b), Pref("HAS_BACKUP", TRUE)>>, D, F)
    BY <1>5, <1>6, RunsTuple
  <2>2. LoadIntoActive(i, keys) =
          clear
            \o IfPresent(keys["seed"], Live("seed", keys["seed"]))
            \o IfPresent(keys["spending_key"], Live("spending_key", keys["spending_key"]))
            \o IfPresent(keys["vk"], Live("vk", keys["vk"]))
            \o <<Pref("HAS_SEED", b), Pref("HAS_BACKUP", TRUE)>>
    BY <1>b DEF LoadIntoActive, clear
  <2>3. Runs(clear \o IfPresent(keys["seed"], Live("seed", keys["seed"])), S, A)
    BY <1>1, <1>2, RunsThen
  <2>4. Runs(clear \o IfPresent(keys["seed"], Live("seed", keys["seed"]))
               \o IfPresent(keys["spending_key"],
                            Live("spending_key", keys["spending_key"])), S, B)
    BY <1>3, <2>3, RunsThen
  <2>5. Runs(clear \o IfPresent(keys["seed"], Live("seed", keys["seed"]))
               \o IfPresent(keys["spending_key"],
                            Live("spending_key", keys["spending_key"]))
               \o IfPresent(keys["vk"], Live("vk", keys["vk"])), S, D)
    BY <1>4, <2>4, RunsThen
  <2> QED BY <2>1, <2>2, <2>5, RunsThen
<1>9. Runs(SwitchWrites(i, keys), S, T)
  BY <1>7, <1>8, RunsThen DEF SwitchWrites
<1>10. \A e \in KeyEntries : T.live[e] = keys[e]
  <2>1. S.live \in [KeyEntries -> Value] /\ C.live \in [KeyEntries -> Value]
        /\ A.live \in [KeyEntries -> Value] /\ B.live \in [KeyEntries -> Value]
    BY <1>1, <1>2, <1>3, RunsEnds, WholeType
  <2>2. C.live["seed"] = None /\ C.live["spending_key"] = None /\ C.live["vk"] = None
    BY <1>0, <1>1, <2>1
  <2>3. A.live["seed"] = keys["seed"] /\ A.live["spending_key"] = None
        /\ A.live["vk"] = None
    BY <1>0, <1>2, <2>1, <2>2
  <2>4. B.live["seed"] = keys["seed"] /\ B.live["spending_key"] = keys["spending_key"]
        /\ B.live["vk"] = None
    BY <1>0, <1>3, <2>1, <2>3
  <2>5. D.live["seed"] = keys["seed"] /\ D.live["spending_key"] = keys["spending_key"]
        /\ D.live["vk"] = keys["vk"]
    BY <1>0, <1>4, <2>1, <2>4
  <2> QED BY <1>0, <1>5, <1>6, <1>7, <2>5
<1>11. /\ T.slot = S.slot /\ T.count = S.count /\ T.active = i
       /\ T.hasBackup
  BY <1>1, <1>2, <1>3, <1>4, <1>5, <1>6, <1>7 DEF SamePrefs
<1> QED BY <1>9, <1>10, <1>11

(* addWallet: the slot is filled, counted, and then switched to.              *)
LEMMA AddRuns ==
  ASSUME NEW S, NEW i \in Slots, NEW keys \in [KeyEntries -> Value], Whole(S),
         i > 0, i = S.count, keys["vk"] # None, KeyOf(keys) # None,
         NEW R, R = Registered(i, keys), KeySet(R)
  PROVE  \E T : /\ Runs(AddWallet(i, keys), S, T)
                /\ Filled(S, T, i, keys) /\ T.count = i + 1 /\ T.active = i
                /\ T.hasBackup
                /\ \A e \in KeyEntries : T.live[e] = R[e]
<1> DEFINE a == IfPresent(keys["seed"], InSlot(i, "seed", keys["seed"]))
           b == IfPresent(keys["spending_key"],
                          InSlot(i, "spending_key", keys["spending_key"]))
           x == InSlot(i, "vk", keys["vk"])
           y == InSlot(i, "alias", AliasOf(i))
           z == Pref("WALLET_COUNT", i + 1)
<1>0. /\ {"seed", "spending_key", "vk"} = KeyEntries
      /\ {"seed", "spending_key", "vk", "alias"} = SlotEntries
      /\ i \in Nat /\ i + 1 \in 1 .. MaxSlots
      /\ OwnAlias(i) = AliasOf(i) /\ AliasOf(i) \in Aliases
  BY DEF KeyEntries, SlotEntries, Slots, OwnAlias, Aliases
<1>1. PICK A : /\ Runs(a \o b \o IfPresent(keys["vk"], x)
                         \o <<InSlot(i, "alias", OwnAlias(i))>>, S, A)
               /\ Filled(S, A, i, keys)
               /\ A.live = S.live /\ SamePrefs(S, A)
  BY FillRuns
<1>2. PICK B : /\ Runs(<<z>>, A, B)
               /\ B.live = A.live /\ B.slot = A.slot /\ B.count = i + 1
  <2>1. /\ A.slot[i]["vk"] # None /\ KeyOf(A.slot[i]) # None
        /\ A.slot[i]["alias"] = OwnAlias(i)
    BY <1>0, <1>1 DEF Filled, KeyOf
  <2>2. \A j \in Slots : j = (i + 1) - 1 => j = i
    BY <1>0
  <2>3. Countable(A, i + 1)
    BY <1>0, <1>1, <2>1, <2>2 DEF Countable, SamePrefs
  <2> QED BY <1>1, <2>3, RunsEnds, CountRuns
<1>3. PICK T : /\ Runs(SwitchWrites(i, R), B, T)
               /\ T.slot = B.slot /\ T.count = B.count /\ T.active = i
               /\ T.hasBackup
               /\ \A e \in KeyEntries : T.live[e] = R[e]
  <2>1. Whole(B) /\ B.count > 0
    BY <1>0, <1>2, RunsEnds
  <2> QED BY <2>1, SwitchRuns
<1>4. a \o b \o <<x, y, z>> = a \o b \o <<x>> \o <<y>> \o <<z>>
  <2>1. /\ keys["seed"] # None => InSlot(i, "seed", keys["seed"]) \in AnyWrite
        /\ keys["spending_key"] # None =>
             InSlot(i, "spending_key", keys["spending_key"]) \in AnyWrite
        /\ x \in AnyWrite /\ y \in AnyWrite /\ z \in AnyWrite
    BY <1>0 DEF InSlot, Pref, AnyWrite
  <2>2. a \in Seq(AnyWrite) /\ b \in Seq(AnyWrite)
    BY <2>1 DEF IfPresent
  <2>3. x \in AnyWrite /\ y \in AnyWrite /\ z \in AnyWrite
    BY <2>1
  <2> HIDE DEF a, b, x, y, z
  <2> QED BY <2>2, <2>3, ConcatPairTriple, SMTT(40)
<1>5. AddWallet(i, keys) = a \o b \o <<x, y, z>> \o SwitchWrites(i, R)
  BY DEF AddWallet
<1>6. IfPresent(keys["vk"], x) = <<x>>
  BY DEF IfPresent
<1> HIDE DEF a, b, x, z
<1>7. Runs(AddWallet(i, keys), S, T)
  <2>1. Runs(a \o b \o <<x>> \o <<y>>, S, A)
    BY <1>0, <1>1, <1>6
  <2>2. Runs(a \o b \o <<x>> \o <<y>> \o <<z>>, S, B)
    BY <1>2, <2>1, RunsThen
  <2> QED BY <1>3, <1>4, <1>5, <2>2, RunsThen
<1>8. Filled(S, T, i, keys)
  BY <1>1, <1>2, <1>3 DEF Filled
<1> QED BY <1>2, <1>3, <1>7, <1>8

(* newWallet and importWallet.                                                *)
LEMMA StoreRuns ==
  ASSUME NEW S, NEW w \in Wallets, Whole(S)
  PROVE  \E T : /\ Runs(<<Live("seed", w), Pref("HAS_SEED", TRUE), Live("vk", w)>>, S, T)
                /\ T.live = [[S.live EXCEPT !["seed"] = w] EXCEPT !["vk"] = w]
                /\ T.slot = S.slot /\ T.count = S.count /\ T.active = S.active
                /\ T.hasSeed
<1>0. /\ {"seed", "spending_key", "vk"} = KeyEntries
      /\ w \in Value /\ w # None
  BY DEF KeyEntries, Value, Wallets
<1>1. PICK A : /\ Runs(<<Live("seed", w)>>, S, A)
               /\ A.live = [S.live EXCEPT !["seed"] = w]
               /\ A.slot = S.slot /\ SamePrefs(S, A)
  BY <1>0, LiveRuns
<1>2. PICK B : /\ Runs(<<Pref("HAS_SEED", TRUE)>>, A, B)
               /\ B.live = A.live /\ B.slot = A.slot
               /\ B.count = A.count /\ B.active = A.active /\ B.hasSeed
  BY <1>1, RunsEnds, SeedFlagRuns
<1>3. KeyOf(B.live) # None
  BY <1>0, <1>1, <1>2, WholeType DEF KeyOf
<1>4. PICK T : /\ Runs(<<Live("vk", w)>>, B, T)
               /\ T.live = [B.live EXCEPT !["vk"] = w]
               /\ T.slot = B.slot /\ SamePrefs(B, T)
  BY <1>0, <1>2, <1>3, RunsEnds, LiveRuns
<1>5. Runs(<<Live("seed", w), Pref("HAS_SEED", TRUE), Live("vk", w)>>, S, T)
  BY <1>1, <1>2, <1>4, RunsTuple
<1>6. T.hasSeed
  BY <1>2, <1>4, Zenon DEF SamePrefs
<1>7. /\ T.live = [[S.live EXCEPT !["seed"] = w] EXCEPT !["vk"] = w]
      /\ T.slot = S.slot /\ T.count = S.count /\ T.active = S.active
  BY <1>1, <1>2, <1>4 DEF SamePrefs
<1> QED BY <1>5, <1>6, <1>7, Zenon

(* importWalletFromSpendingKey.                                               *)
LEMMA ImportRuns ==
  ASSUME NEW S, NEW w \in Wallets, Whole(S)
  PROVE  \E T : /\ Runs(<<Live("spending_key", w), Live("vk", w),
                          Pref("HAS_SEED", FALSE), Pref("HAS_BACKUP", TRUE)>>, S, T)
                /\ T.live = [[S.live EXCEPT !["spending_key"] = w] EXCEPT !["vk"] = w]
                /\ T.slot = S.slot /\ T.count = S.count /\ T.active = S.active
                /\ ~T.hasSeed /\ T.hasBackup
<1>0. /\ {"seed", "spending_key", "vk"} = KeyEntries
      /\ w \in Value /\ w # None
  BY DEF KeyEntries, Value, Wallets
<1>1. PICK A : /\ Runs(<<Live("spending_key", w)>>, S, A)
               /\ A.live = [S.live EXCEPT !["spending_key"] = w]
               /\ A.slot = S.slot /\ SamePrefs(S, A)
  BY <1>0, LiveRuns
<1>2. KeyOf(A.live) # None
  BY <1>0, <1>1, WholeType DEF KeyOf
<1>3. PICK B : /\ Runs(<<Live("vk", w)>>, A, B)
               /\ B.live = [A.live EXCEPT !["vk"] = w]
               /\ B.slot = A.slot /\ SamePrefs(A, B)
  BY <1>0, <1>1, <1>2, RunsEnds, LiveRuns
<1>4. PICK C : /\ Runs(<<Pref("HAS_SEED", FALSE)>>, B, C)
               /\ C.live = B.live /\ C.slot = B.slot
               /\ C.count = B.count /\ C.active = B.active /\ ~C.hasSeed
  BY <1>3, RunsEnds, SeedFlagRuns
<1>5. PICK T : /\ Runs(<<Pref("HAS_BACKUP", TRUE)>>, C, T)
               /\ T.live = C.live /\ T.slot = C.slot
               /\ T.count = C.count /\ T.active = C.active
               /\ T.hasSeed = C.hasSeed /\ T.hasBackup
  BY <1>4, RunsEnds, BackupFlagRuns
<1>6. Runs(<<Live("spending_key", w), Live("vk", w), Pref("HAS_SEED", FALSE),
             Pref("HAS_BACKUP", TRUE)>>, S, T)
  <2> DEFINE x == Live("spending_key", w)
             y == Live("vk", w)
             z == Pref("HAS_SEED", FALSE)
             u == Pref("HAS_BACKUP", TRUE)
  <2>1. Runs(<<x, y, z>>, S, C) /\ Runs(<<u>>, C, T)
    BY <1>1, <1>3, <1>4, <1>5, RunsTuple
  <2>2. x \in AnyWrite /\ y \in AnyWrite /\ z \in AnyWrite /\ u \in AnyWrite
    BY <1>0 DEF Live, Pref, AnyWrite
  <2> HIDE DEF x, y, z, u
  <2>3. <<x, y, z, u>> = <<x, y, z>> \o <<u>>
    BY <2>2, QuadIsConcat
  <2> QED BY <2>1, <2>3, RunsThen DEF x, y, z, u
<1> QED BY <1>1, <1>3, <1>4, <1>5, <1>6 DEF SamePrefs

----------------------------------------------------------------------------
(* What the complete operations make of a good store.                         *)

(* Two slots have two aliases.                                                *)
LEMMA AliasesDiffer ==
  ASSUME NEW i \in Slots, NEW j \in Slots, i # j
  PROVE  OwnAlias(i) # OwnAlias(j)
<1>1. \A k \in Nat : AliasOf(k)[2] = k /\ Len(AliasOf(k)) = 2
  BY DEF AliasOf
<1>2. Len(DefaultAlias) = 1
  BY DEF DefaultAlias
<1>3. i \in Nat /\ j \in Nat
  BY DEF Slots
<1>4. CASE i = 0 \/ j = 0
  BY <1>1, <1>2, <1>3, <1>4 DEF OwnAlias
<1>5. CASE i # 0 /\ j # 0
  BY <1>1, <1>3, <1>5 DEF OwnAlias
<1> QED BY <1>4, <1>5

(* The install without slots becomes a store with one wallet.                 *)
LEMMA GoodMigrated ==
  ASSUME NEW S, NEW T, NEW db, Whole(S), Whole(T), Good(S, db), S.count = 0,
         S.live["vk"] # None, T.count = 1, T.active = 0, Filled(S, T, 0, S.live),
         T.live = S.live, T.hasSeed = S.hasSeed, T.hasBackup = S.hasBackup
  PROVE  Good(T, db)
<1>0. /\ {"seed", "spending_key", "vk"} = KeyEntries
      /\ SlotEntries = KeyEntries \cup {"alias"}
      /\ 0 \in Slots /\ \A i \in Slots : i \in Nat
  BY DEF KeyEntries, SlotEntries, Slots
<1>1. \A i \in Slots : \A e \in SlotEntries : S.slot[i][e] = None
  BY <1>0 DEF Good
<1>2. \A e \in KeyEntries : T.slot[0][e] = S.live[e]
  BY <1>0, <1>1 DEF Filled
<1>3. \A i \in Slots : i # 0 => \A e \in SlotEntries : T.slot[i][e] = None
  BY <1>0, <1>1 DEF Filled
<1>4. KeyOf(T.slot[0]) = KeyOf(S.live) /\ S.live["vk"] = KeyOf(S.live)
  BY <1>0, <1>2 DEF KeyOf, Good
<1>5. T.slot[0]["vk"] = KeyOf(T.slot[0])
  BY <1>0, <1>2, <1>4
<1>6. T.hasSeed \/ T.hasBackup <=> T.live["vk"] # None
  BY Zenon DEF Good
<1>7. \A i \in Slots : i < 1 <=> i = 0
  BY <1>0
<1>8. \A i \in Slots : IF i < 1 THEN db[OwnAlias(i)] \in {None, KeyOf(T.slot[i])}
                                ELSE i > 0 => db[AliasOf(i)] = None
  BY <1>0, <1>4, <1>7 DEF Good, OwnAlias
<1> QED BY <1>0, <1>2, <1>3, <1>4, <1>5, <1>6, <1>7, <1>8 DEF Good

(* A new wallet in the first free slot, and active.                           *)
LEMMA GoodAdded ==
  ASSUME NEW S, NEW T, NEW db, NEW i \in Slots, NEW keys, Whole(S), Good(S, db),
         S.count > 0, i = S.count, keys["vk"] # None, keys["vk"] = KeyOf(keys),
         Filled(S, T, i, keys), T.count = i + 1, T.active = i, T.hasBackup,
         \A e \in KeyEntries : T.live[e] = keys[e]
  PROVE  Good(T, db)
<1>0. /\ {"seed", "spending_key", "vk"} = KeyEntries
      /\ SlotEntries = KeyEntries \cup {"alias"}
      /\ i \in Nat /\ \A j \in Slots : j \in Nat
  BY DEF KeyEntries, SlotEntries, Slots
<1>1. \A e \in KeyEntries : T.slot[i][e] = keys[e]
  BY <1>0 DEF Filled, Good
<1>2. \A j \in Slots : j # i => \A e \in SlotEntries : T.slot[j][e] = S.slot[j][e]
  BY <1>0 DEF Filled
<1>3. /\ KeyOf(T.slot[i]) = KeyOf(keys) /\ T.slot[i]["vk"] = KeyOf(T.slot[i])
      /\ T.live["vk"] = KeyOf(T.live) /\ T.live["vk"] # None
  BY <1>0, <1>1 DEF KeyOf
<1>4. \A j \in Slots : j # i => KeyOf(T.slot[j]) = KeyOf(S.slot[j])
                              /\ T.slot[j]["vk"] = S.slot[j]["vk"]
  BY <1>0, <1>2 DEF KeyOf
<1>5. \A j \in Slots : (j < i + 1 <=> j < i \/ j = i) /\ (j >= i + 1 => j >= i /\ j # i)
  BY <1>0
<1>6. T.hasSeed \/ T.hasBackup <=> T.live["vk"] # None
  BY <1>3, Zenon
<1>7. \A j \in Slots : j < i + 1 => T.slot[j]["vk"] = KeyOf(T.slot[j])
  BY <1>3, <1>4, <1>5 DEF Good
<1>8. \A j \in Slots : j >= i + 1 => \A e \in SlotEntries : T.slot[j][e] = None
  BY <1>2, <1>5 DEF Good
<1>9. \A j \in Slots : IF j < i + 1 THEN db[OwnAlias(j)] \in {None, KeyOf(T.slot[j])}
                                    ELSE j > 0 => db[AliasOf(j)] = None
  <2>1. ~(i < S.count) /\ i > 0 /\ OwnAlias(i) = AliasOf(i)
    BY <1>0 DEF OwnAlias
  <2>2. db[OwnAlias(i)] = None
    BY <2>1 DEF Good
  <2> SUFFICES ASSUME NEW j \in Slots, j # i
               PROVE  IF j < i + 1 THEN db[OwnAlias(j)] \in {None, KeyOf(T.slot[j])}
                                   ELSE j > 0 => db[AliasOf(j)] = None
    BY <1>0, <2>2
  <2>3. j < i + 1 <=> j < S.count
    BY <1>0
  <2> QED BY <1>4, <2>3 DEF Good
<1>10. T.active < T.count /\ T.count # 0
  BY <1>0
<1>11. \A e \in KeyEntries : T.live[e] = T.slot[T.active][e]
  BY <1>1
<1> QED BY <1>3, <1>6, <1>7, <1>8, <1>9, <1>10, <1>11 DEF Good

(* Another registered wallet is active.                                       *)
LEMMA GoodSwitched ==
  ASSUME NEW S, NEW T, NEW db, NEW i \in Slots, Whole(S), Good(S, db), i < S.count,
         T.slot = S.slot, T.count = S.count, T.active = i, T.hasBackup,
         \A e \in KeyEntries : T.live[e] = S.slot[i][e]
  PROVE  Good(T, db)
<1>0. /\ {"seed", "spending_key", "vk"} = KeyEntries
      /\ i \in Nat /\ S.count \in Nat
  BY WholeType DEF KeyEntries, Slots
<1>1. /\ KeyOf(T.live) = KeyOf(S.slot[i]) /\ T.live["vk"] = S.slot[i]["vk"]
      /\ S.slot[i]["vk"] # None /\ S.slot[i]["vk"] = KeyOf(S.slot[i])
  BY <1>0 DEF KeyOf, Whole, Good
<1>2. T.hasSeed \/ T.hasBackup <=> T.live["vk"] # None
  BY <1>1, Zenon
<1>3. T.count # 0
  BY <1>0
<1> QED BY <1>1, <1>2, <1>3 DEF Good

(* The first wallet of an install.                                            *)
LEMMA GoodFirst ==
  ASSUME NEW S, NEW T, NEW db, Whole(S), Good(S, db), S.live["vk"] = None,
         T.slot = S.slot, T.count = S.count, T.active = S.active,
         T.hasSeed \/ T.hasBackup, T.live["vk"] # None, T.live["vk"] = KeyOf(T.live)
  PROVE  Good(T, db)
<1>1. S.count \in Nat /\ S.active \in Nat /\ S.count <= MaxSlots /\ "vk" \in KeyEntries
  BY WholeType DEF Whole, KeyEntries
<1>2. S.count = 0
  <2> SUFFICES ASSUME S.count > 0 PROVE FALSE
    BY <1>1
  <2>1. S.active \in Slots /\ S.active < S.count
    BY <1>1 DEF Good, Slots
  <2>2. S.slot[S.active]["vk"] # None
    BY <2>1 DEF Whole
  <2> QED BY <1>1, <2>2 DEF Good
<1>3. KeyOf(S.live) = None /\ db[DefaultAlias] = None
  BY <1>2 DEF Good
<1>4. T.hasSeed \/ T.hasBackup <=> T.live["vk"] # None
  BY Zenon
<1> QED BY <1>2, <1>3, <1>4 DEF Good

----------------------------------------------------------------------------
(* The invariant: what is left of the operation under way leads, through      *)
(* whole stores only, to a store that is good for the databases.              *)

Underway == \E T : Runs(todo, Current, T) /\ (~torn => Good(T, dbOf))

AtRest ==
  /\ app # "busy" => todo = << >>
  /\ app = "setup" => ~hasSeed /\ ~hasBackup
  /\ app = "open" => live["vk"] # None
  /\ app = "open" /\ ~torn => dbOf[ActiveAlias] # None

Inv == dbOf \in [Aliases -> Value] /\ Underway /\ AtRest

LEMMA AlwaysWhole ==
  ASSUME Inv
  PROVE  Whole(Current)
  BY RunsEnds DEF Inv, Underway

LEMMA RestIsGood ==
  ASSUME Inv, app # "busy"
  PROVE  todo = << >> /\ (~torn => Good(Current, dbOf))
  BY RunsEnds DEF Inv, Underway, AtRest

(* The fields of the store.                                                   *)
LEMMA CurrentFields ==
  /\ Current.live = live /\ Current.slot = slot
  /\ Current.hasSeed = hasSeed /\ Current.hasBackup = hasBackup
  /\ Current.count = count /\ Current.active = active
  BY DEF Current

LEMMA CurrentType ==
  ASSUME Whole(Current)
  PROVE  /\ live \in [KeyEntries -> Value] /\ count \in Nat /\ active \in Nat
         /\ slot \in [Slots -> [SlotEntries -> Value \cup Aliases]]
         /\ count <= MaxSlots /\ "seed" \in KeyEntries /\ "vk" \in KeyEntries
         /\ "spending_key" \in KeyEntries /\ "alias" \in SlotEntries
  BY CurrentFields, WholeType DEF Whole, KeyEntries, SlotEntries

(* The alias of a good store's active wallet.                                 *)
LEMMA ActiveAliasIs ==
  ASSUME Whole(Current), Good(Current, dbOf)
  PROVE  /\ active \in Slots
         /\ ActiveAlias = IF count = 0 THEN DefaultAlias ELSE OwnAlias(active)
         /\ ActiveAlias \in Aliases
<1>0. /\ count \in Nat /\ active \in Nat /\ count <= MaxSlots
      /\ active = 0 \/ active < count
      /\ "alias" \in SlotEntries
  BY CurrentType, CurrentFields DEF Good
<1>1. active \in Slots
  BY <1>0 DEF Slots
<1>2. ActiveAlias = IF count = 0 THEN DefaultAlias ELSE OwnAlias(active)
  <2>1. CASE count = 0
    <3>1. slot[active]["alias"] = None
      BY <1>0, <1>1, <2>1, CurrentFields DEF Good
    <3> QED BY <2>1, <3>1 DEF ActiveAlias, SlotAlias
  <2>2. CASE count > 0
    <3>1. active < count
      BY <1>0, <2>2
    <3>2. slot[active]["alias"] = OwnAlias(active)
      BY <1>1, <3>1, CurrentFields DEF Whole
    <3>3. OwnAlias(active) # None
      BY <1>1 DEF OwnAlias, AliasOf, DefaultAlias, Slots
    <3> QED BY <2>2, <3>2, <3>3 DEF ActiveAlias, SlotAlias
  <2> QED BY <1>0, <2>1, <2>2
<1>3. DefaultAlias \in Aliases /\ OwnAlias(active) \in Aliases
  BY <1>1 DEF Aliases, OwnAlias
<1> QED BY <1>1, <1>2, <1>3

----------------------------------------------------------------------------
(* The steps.                                                                 *)

LEMMA InitInv ==
  ASSUME Init
  PROVE  Inv
<1>0. /\ {"seed", "spending_key", "vk"} = KeyEntries
      /\ SlotEntries = KeyEntries \cup {"alias"}
      /\ None \in Value /\ count \in Nat
      /\ \A i \in Slots : i \in Nat /\ i >= 0
      /\ \A i \in Slots : AliasOf(i) \in Aliases
      /\ DefaultAlias \in Aliases
  BY DEF Init, KeyEntries, SlotEntries, Value, Slots, Aliases
<1>1. \A e \in KeyEntries : live[e] = None
  BY DEF Init, NoKeys
<1>2. \A i \in Slots : \A e \in SlotEntries : slot[i][e] = None
  BY <1>0 DEF Init, EmptySlot
<1>3. \A a \in Aliases : dbOf[a] = None
  BY DEF Init
<1>4. Current \in Stores
  <2>1. live \in [KeyEntries -> Value]
    BY <1>0 DEF Init, NoKeys
  <2>2. EmptySlot \in [SlotEntries -> Value \cup Aliases]
    BY <1>0 DEF EmptySlot
  <2>3. slot \in [Slots -> [SlotEntries -> Value \cup Aliases]]
    BY <2>2 DEF Init
  <2>4. hasSeed \in BOOLEAN /\ hasBackup \in BOOLEAN /\ count \in Nat /\ active \in Nat
    BY DEF Init
  <2> QED BY <2>1, <2>3, <2>4 DEF Current, Stores
<1>5. KeyOf(live) = None
  BY <1>0, <1>1 DEF KeyOf
<1>6. Whole(Current)
  <2>1. /\ "alias" \in SlotEntries /\ count = 0 /\ live["vk"] = None
        /\ \A e \in KeyEntries : e \in SlotEntries
    BY <1>0, <1>1 DEF Init
  <2>2. \A i \in Slots : ~(i < count)
    BY <1>0, <2>1
  <2> QED BY <1>0, <1>2, <1>4, <2>1, <2>2, CurrentFields DEF Whole
<1>7. Good(Current, dbOf)
  <2>1. /\ count = 0 /\ active = 0 /\ live["vk"] = None
        /\ dbOf[DefaultAlias] = None
    BY <1>0, <1>1, <1>3 DEF Init
  <2>2. ~(hasSeed \/ hasBackup)
    BY DEF Init
  <2>3. \A i \in Slots : ~(i < count)
    BY <1>0, <2>1
  <2>4. hasSeed \/ hasBackup <=> live["vk"] # None
    BY <2>1, <2>2, Zenon
  <2> QED BY <1>0, <1>2, <1>3, <1>5, <2>1, <2>3, <2>4, CurrentFields DEF Good
<1>8. Underway
  BY <1>6, <1>7, RunsNothing DEF Underway, Init
<1>9. dbOf \in [Aliases -> Value]
  BY <1>0 DEF Init
<1> QED BY <1>8, <1>9 DEF Inv, AtRest, Init

(* An operation starts.                                                       *)
LEMMA PerformInv ==
  ASSUME Inv, NEW q, Perform(q), NEW T, Runs(q, Current, T), ~torn => Good(T, dbOf)
  PROVE  Inv'
<1>1. /\ Current' = Current /\ todo' = q /\ app' = "busy"
      /\ dbOf' = dbOf /\ torn' = torn
  BY DEF Perform, Current, keyStore
<1>2. Underway'
  BY <1>1 DEF Underway
<1> QED BY <1>1, <1>2 DEF Inv, AtRest

(* A good store stays good for a database that takes the active wallet's key, *)
(* or none.                                                                   *)
LEMMA GoodDatabase ==
  ASSUME Whole(Current), Good(Current, dbOf), dbOf \in [Aliases -> Value],
         NEW v, v \in {None, live["vk"]}, NEW db,
         db = [dbOf EXCEPT ![ActiveAlias] = v]
  PROVE  Good(Current, db)
<1>0. /\ active \in Slots /\ ActiveAlias \in Aliases
      /\ ActiveAlias = IF count = 0 THEN DefaultAlias ELSE OwnAlias(active)
  BY ActiveAliasIs
<1>1. /\ count \in Nat /\ count <= MaxSlots /\ active \in Nat
      /\ active = 0 \/ active < count
      /\ live["vk"] = KeyOf(live)
      /\ \A i \in Slots : i \in Nat
  BY CurrentFields, CurrentType DEF Good, Slots
<1>2. \A a \in Aliases : db[a] = IF a = ActiveAlias THEN v ELSE dbOf[a]
  OBVIOUS
<1>3. /\ DefaultAlias \in Aliases
      /\ \A i \in Slots : OwnAlias(i) \in Aliases /\ (i > 0 => AliasOf(i) = OwnAlias(i))
      /\ OwnAlias(0) = DefaultAlias /\ 0 \in Slots
  BY <1>1 DEF Aliases, OwnAlias, Slots
<1>4. count = 0 => db[DefaultAlias] \in {None, KeyOf(live)}
  BY <1>0, <1>1, <1>2, <1>3
<1>5. count > 0 => live["vk"] = KeyOf(slot[active])
  <2> SUFFICES ASSUME count > 0 PROVE live["vk"] = KeyOf(slot[active])
    OBVIOUS
  <2>1. active < count
    BY <1>1
  <2>2. slot[active]["vk"] = KeyOf(slot[active])
    BY <1>0, <2>1, CurrentFields DEF Good
  <2>3. live["vk"] = slot[active]["vk"]
    BY CurrentFields DEF Good, KeyEntries
  <2> QED BY <2>2, <2>3
<1>6. ASSUME NEW i \in Slots
      PROVE  IF i < count THEN db[OwnAlias(i)] \in {None, KeyOf(slot[i])}
                          ELSE i > 0 => db[AliasOf(i)] = None
  <2>1. IF i < count THEN dbOf[OwnAlias(i)] \in {None, KeyOf(slot[i])}
                     ELSE i > 0 => dbOf[AliasOf(i)] = None
    BY CurrentFields DEF Good
  <2>2. CASE count > 0 /\ i = active
    BY <1>0, <1>1, <1>2, <1>3, <1>5, <2>1, <2>2
  <2>3. CASE count > 0 /\ i # active
    <3>1. OwnAlias(i) # ActiveAlias
      <4>1. ActiveAlias = OwnAlias(active) /\ i # active /\ active \in Slots
        BY <1>0, <1>1, <2>3
      <4> QED BY <4>1, AliasesDiffer
    <3> QED BY <1>2, <1>3, <2>1, <3>1
  <2>4. CASE count = 0 /\ i > 0
    <3>1. OwnAlias(i) # DefaultAlias
      BY <1>1, <1>3, <2>4, AliasesDiffer
    <3> QED BY <1>0, <1>1, <1>2, <1>3, <2>1, <2>4, <3>1
  <2>5. CASE count = 0 /\ ~(i > 0)
    BY <1>1, <2>5
  <2> QED BY <1>1, <2>2, <2>3, <2>4, <2>5
<1> QED BY <1>4, <1>6, CurrentFields DEF Good

LEMMA StartInv ==
  ASSUME Inv, Start
  PROVE  Inv'
<1> DEFINE vk == IF live["vk"] # None THEN live["vk"] ELSE live["seed"]
<1>0. /\ Whole(Current) /\ todo = << >> /\ app = "starting"
      /\ ~torn => Good(Current, dbOf)
      /\ dbOf \in [Aliases -> Value]
      /\ todo' = todo /\ torn' = torn
      /\ slot' = slot /\ hasSeed' = hasSeed /\ hasBackup' = hasBackup
      /\ count' = count /\ active' = active
  BY AlwaysWhole, RestIsGood DEF Start, Inv
<1>1. /\ live \in [KeyEntries -> Value] /\ "vk" \in KeyEntries /\ "seed" \in KeyEntries
  BY <1>0, CurrentType
<1>2. CASE live' = live /\ dbOf' = dbOf /\ app' # "open"
                        /\ (app' = "setup" => ~hasBackup /\ ~hasSeed)
  <2>1. Current' = Current
    BY <1>0, <1>2 DEF Current
  <2>2. Underway'
    BY <1>0, <1>2, <2>1, RunsNothing DEF Underway
  <2> QED BY <1>0, <1>2, <2>2 DEF Inv, AtRest
<1>3. CASE /\ hasBackup \/ hasSeed
           /\ vk # None /\ app' = "open"
           /\ live' = [live EXCEPT !["vk"] = vk]
           /\ dbOf' = IF dbOf[ActiveAlias] = None
                      THEN [dbOf EXCEPT ![ActiveAlias] = vk] ELSE dbOf
  <2>1. vk \in Value /\ live' \in [KeyEntries -> Value] /\ live'["vk"] = vk
    BY <1>1, <1>3
  <2>2. dbOf' \in [Aliases -> Value]
    BY <1>0, <1>3, <2>1
  <2>3. Current' = [Current EXCEPT !.live = live']
    BY <1>0 DEF Current
  <2>4. Whole(Current')
    <3>1. Current' \in Stores
      BY <1>0, <2>1, <2>3 DEF Whole, Stores
    <3>2. count = 0 => KeyOf(live') # None
      <4>1. CASE live["vk"] # None
        <5>1. live' = live
          BY <1>1, <1>3, <4>1
        <5> QED BY <1>0, <4>1, <5>1, CurrentFields DEF Whole, KeyOf
      <4>2. CASE live["vk"] = None
        <5>1. live'["seed"] = live["seed"] /\ live["seed"] # None
          BY <1>1, <1>3, <4>2
        <5> QED BY <5>1 DEF KeyOf
      <4> QED BY <4>1, <4>2
    <3> QED BY <1>0, <2>3, <3>1, <3>2, CurrentFields DEF Whole
  <2>5. ~torn => Good(Current', dbOf') /\ dbOf'[ActiveAlias'] # None
    <3> SUFFICES ASSUME ~torn
                 PROVE  Good(Current', dbOf') /\ dbOf'[ActiveAlias'] # None
      OBVIOUS
    <3>1. Good(Current, dbOf)
      BY <1>0
    <3>2. live["vk"] # None
      BY <1>3, <3>1, CurrentFields DEF Good
    <3>3. live' = live /\ vk = live["vk"]
      BY <1>1, <1>3, <3>2
    <3>4. Current' = Current /\ ActiveAlias' = ActiveAlias
      BY <1>0, <3>3 DEF Current, ActiveAlias, SlotAlias
    <3>5. ActiveAlias \in Aliases
      BY <1>0, <3>1, ActiveAliasIs
    <3>6. CASE dbOf[ActiveAlias] = None
      <4>1. dbOf' = [dbOf EXCEPT ![ActiveAlias] = vk] /\ vk \in {None, live["vk"]}
        BY <1>3, <3>3, <3>6
      <4>2. Good(Current, dbOf')
        BY <1>0, <3>1, <4>1, GoodDatabase
      <4> QED BY <1>0, <1>3, <3>4, <3>5, <4>1, <4>2
    <3>7. CASE dbOf[ActiveAlias] # None
      <4>1. dbOf' = dbOf
        BY <1>3, <3>7
      <4> QED BY <3>1, <3>4, <3>7, <4>1
    <3> QED BY <3>6, <3>7
  <2>6. Underway'
    <3>1. Runs(todo', Current', Current')
      BY <1>0, <2>4, RunsNothing
    <3> QED BY <1>0, <2>5, <3>1 DEF Underway
  <2>7. AtRest'
    BY <1>0, <1>3, <2>1, <2>5 DEF AtRest
  <2> QED BY <2>2, <2>6, <2>7 DEF Inv
<1> QED BY <1>2, <1>3 DEF Start

LEMMA WriteInv ==
  ASSUME Inv, Write
  PROVE  Inv'
<1>1. PICK T : Runs(todo, Current, T) /\ (~torn => Good(T, dbOf))
  BY DEF Inv, Underway
<1>2. Current' = Put(Current, Head(todo))
  BY StoreIsPut DEF Write
<1>3. Runs(todo', Current', T)
  BY <1>1, <1>2, RunsTail DEF Write
<1>4. Underway'
  BY <1>1, <1>3 DEF Underway, Write
<1> QED BY <1>4 DEF Inv, AtRest, Write

LEMMA RestartInv ==
  ASSUME Inv, RestartApp
  PROVE  Inv'
<1>1. Current' = Current
  BY DEF RestartApp, Current, keyStore
<1>2. Underway'
  BY <1>1 DEF Inv, Underway, RestartApp
<1> QED BY <1>2 DEF Inv, AtRest, RestartApp

(* What a dead process leaves is whole.                                       *)
LEMMA DieInv ==
  ASSUME Inv, Die
  PROVE  Inv'
<1>1. Current' = Current /\ todo' = << >> /\ torn' /\ app' = "starting" /\ dbOf' = dbOf
  BY DEF Die, Current, keyStore
<1>2. Runs(todo', Current', Current')
  BY <1>1, AlwaysWhole, RunsNothing
<1>3. Underway'
  BY <1>1, <1>2 DEF Underway
<1> QED BY <1>1, <1>3 DEF Inv, AtRest

LEMMA SendInv ==
  ASSUME Inv, Send
  PROVE  Inv'
<1>1. /\ Current' = Current /\ ActiveAlias' = ActiveAlias
      /\ live' = live /\ hasSeed' = hasSeed /\ hasBackup' = hasBackup
      /\ dbOf' = dbOf /\ app' = app /\ todo' = todo /\ torn' = torn
  BY DEF Send, Current, keyStore, ActiveAlias, SlotAlias
<1>2. Underway'
  BY <1>1 DEF Inv, Underway
<1> QED BY <1>1, <1>2 DEF Inv, AtRest

LEMMA EraseInv ==
  ASSUME Inv, Erase
  PROVE  Inv'
<1>1. /\ Current' = Current /\ torn' = torn /\ todo' = todo /\ app' = "starting"
      /\ dbOf' = [dbOf EXCEPT ![ActiveAlias] = None]
      /\ dbOf \in [Aliases -> Value]
      /\ Whole(Current) /\ todo = << >> /\ (~torn => Good(Current, dbOf))
  BY AlwaysWhole, RestIsGood DEF Erase, Current, keyStore, Inv
<1>2. dbOf' \in [Aliases -> Value]
  BY <1>1 DEF Value
<1>3. ~torn => Good(Current, dbOf')
  BY <1>1, GoodDatabase
<1>4. Runs(todo', Current', Current')
  BY <1>1, RunsNothing
<1>5. Underway'
  BY <1>1, <1>3, <1>4 DEF Underway
<1> QED BY <1>1, <1>2, <1>5 DEF Inv, AtRest

LEMMA FirstWalletInv ==
  ASSUME Inv, NEW w \in Wallets, StoreWallet(w) \/ ImportSpendingKey(w)
  PROVE  Inv'
<1>0. /\ Whole(Current) /\ app = "setup" /\ (~torn => Good(Current, dbOf))
      /\ w # None /\ "vk" \in KeyEntries /\ live \in [KeyEntries -> Value]
      /\ "seed" \in KeyEntries /\ "spending_key" \in KeyEntries
  BY AlwaysWhole, RestIsGood, CurrentType
     DEF StoreWallet, ImportSpendingKey, Wallets
<1>1. ~torn => /\ live["vk"] = None
               /\ live["seed"] = None
  <2> SUFFICES ASSUME ~torn
               PROVE  live["vk"] = None /\ live["seed"] = None
    OBVIOUS
  <2>1. ~hasSeed /\ ~hasBackup
    BY <1>0 DEF Inv, AtRest
  <2>2. live["vk"] = None
    BY <1>0, <2>1, CurrentFields, Zenon DEF Good
  <2>3. live["vk"] = KeyOf(live)
    BY <1>0, CurrentFields DEF Good
  <2> QED BY <2>2, <2>3 DEF KeyOf
<1>2. CASE StoreWallet(w)
  <2> DEFINE q == <<Live("seed", w), Pref("HAS_SEED", TRUE), Live("vk", w)>>
  <2>1. PICK T : /\ Runs(q, Current, T)
                 /\ T.live = [[live EXCEPT !["seed"] = w] EXCEPT !["vk"] = w]
                 /\ T.slot = slot /\ T.count = count /\ T.active = active
                 /\ T.hasSeed
    BY <1>0, StoreRuns, CurrentFields
  <2>2. T.live["vk"] = w /\ KeyOf(T.live) = w
    BY <1>0, <2>1 DEF KeyOf
  <2>3. ~torn => Good(T, dbOf)
    BY <1>0, <1>1, <2>1, <2>2, GoodFirst, CurrentFields
  <2> QED BY <1>2, <2>1, <2>3, PerformInv DEF StoreWallet
<1>3. CASE ImportSpendingKey(w)
  <2> DEFINE q == <<Live("spending_key", w), Live("vk", w),
                    Pref("HAS_SEED", FALSE), Pref("HAS_BACKUP", TRUE)>>
  <2>1. PICK T : /\ Runs(q, Current, T)
                 /\ T.live = [[live EXCEPT !["spending_key"] = w] EXCEPT !["vk"] = w]
                 /\ T.slot = slot /\ T.count = count /\ T.active = active
                 /\ T.hasBackup
    BY <1>0, ImportRuns, CurrentFields
  <2>2. ~torn => T.live["vk"] = w /\ KeyOf(T.live) = w
    BY <1>0, <1>1, <2>1 DEF KeyOf
  <2>3. ~torn => Good(T, dbOf)
    BY <1>0, <1>1, <2>1, <2>2, GoodFirst, CurrentFields
  <2> QED BY <1>3, <2>1, <2>3, PerformInv DEF ImportSpendingKey
<1> QED BY <1>2, <1>3

(* What migrateIfNeeded makes of an open wallet.                              *)
LEMMA Migrated ==
  ASSUME Inv, app = "open"
  PROVE  \E T : /\ Runs(MigrateIfNeeded, Current, T)
                /\ T.count = CountMigrated /\ T.count > 0
                /\ ~torn => Good(T, dbOf)
<1>0. /\ Whole(Current) /\ live["vk"] # None /\ (~torn => Good(Current, dbOf))
      /\ count \in Nat
  BY AlwaysWhole, RestIsGood, CurrentType DEF Inv, AtRest
<1>1. PICK T : /\ Runs(MigrateIfNeeded, Current, T)
               /\ T.count = CountMigrated /\ T.count > 0
               /\ T.live = live /\ T.hasSeed = hasSeed /\ T.hasBackup = hasBackup
               /\ IF count > 0 THEN T = Current
                  ELSE /\ T.count = 1 /\ T.active = 0
                       /\ Filled(Current, T, 0, live)
  BY <1>0, MigrateRuns
<1>2. ASSUME ~torn PROVE Good(T, dbOf)
  <2>1. CASE count > 0
    BY <1>0, <1>1, <1>2, <2>1
  <2>2. CASE count = 0
    <3>1. Whole(T)
      BY <1>1, RunsEnds
    <3> QED BY <1>0, <1>1, <1>2, <2>2, <3>1, GoodMigrated, CurrentFields
  <2> QED BY <1>0, <2>1, <2>2
<1> QED BY <1>1, <1>2

LEMMA OpenListInv ==
  ASSUME Inv, OpenWalletList
  PROVE  Inv'
<1>1. PICK T : Runs(MigrateIfNeeded, Current, T) /\ (~torn => Good(T, dbOf))
  BY Migrated DEF OpenWalletList
<1> QED BY <1>1, PerformInv DEF OpenWalletList

(* A slot's keys.                                                             *)
LEMMA SlotKeys ==
  ASSUME Whole(Current), NEW i \in Slots
  PROVE  KeySet(slot[i])
  BY CurrentFields DEF Whole, KeySet

LEMMA SwitchInv ==
  ASSUME Inv, NEW i \in Slots, SwitchTo(i)
  PROVE  Inv'
<1>0. /\ Whole(Current) /\ (~torn => Good(Current, dbOf))
      /\ i < count /\ count \in Nat /\ i \in Nat
  BY AlwaysWhole, RestIsGood, CurrentType DEF SwitchTo, Slots
<1>1. count > 0 /\ KeySet(slot[i])
  BY <1>0, SlotKeys
<1>2. PICK T : /\ Runs(SwitchWrites(i, slot[i]), Current, T)
               /\ T.slot = slot /\ T.count = count /\ T.active = i
               /\ T.hasBackup
               /\ \A e \in KeyEntries : T.live[e] = slot[i][e]
  BY <1>0, <1>1, SwitchRuns, CurrentFields
<1>3. ~torn => Good(T, dbOf)
  BY <1>0, <1>2, GoodSwitched, CurrentFields
<1> QED BY <1>2, <1>3, PerformInv DEF SwitchTo

(* A wallet is added, from a seed or from a spending key.                     *)
LEMMA AddInv ==
  ASSUME Inv, app = "open", NEW keys \in [KeyEntries -> Value],
         keys["vk"] # None, keys["vk"] = KeyOf(keys), CountMigrated < MaxSlots,
         Perform(MigrateIfNeeded \o AddWallet(CountMigrated, keys))
  PROVE  Inv'
<1>0. /\ Whole(Current) /\ (~torn => Good(Current, dbOf))
      /\ count \in Nat
  BY AlwaysWhole, RestIsGood, CurrentType
<1>1. PICK M : /\ Runs(MigrateIfNeeded, Current, M)
               /\ M.count = CountMigrated /\ M.count > 0
               /\ ~torn => Good(M, dbOf)
  BY Migrated
<1>2. PICK i \in Slots : i = CountMigrated
  <2>1. M.count \in Nat
    BY <1>1, RunsEnds, WholeType
  <2> QED BY <1>1, <2>1 DEF Slots
<1>3. PICK R : R = Registered(i, keys)
  OBVIOUS
<1>4. KeySet(R)
  <2>1. KeySet(slot[i])
    BY <1>0, SlotKeys
  <2> QED BY <1>3, <2>1 DEF KeySet, Registered
<1>5. PICK T : /\ Runs(AddWallet(i, keys), M, T)
               /\ Filled(M, T, i, keys) /\ T.count = i + 1 /\ T.active = i
               /\ T.hasBackup
               /\ \A e \in KeyEntries : T.live[e] = R[e]
  <2>1. Whole(M) /\ i > 0 /\ i = M.count /\ KeyOf(keys) # None
    BY <1>1, <1>2, RunsEnds
  <2> QED BY <1>3, <1>4, <2>1, AddRuns
<1>6. Runs(MigrateIfNeeded \o AddWallet(i, keys), Current, T)
  BY <1>1, <1>5, RunsThen
<1>7. ASSUME ~torn PROVE Good(T, dbOf)
  <2>1. i >= count
    <3>1. CASE count = 0
      BY <1>1, <1>2, <3>1 DEF Slots
    <3>2. CASE count > 0
      BY <1>0, <1>2, <3>2 DEF CountMigrated, MigrateIfNeeded
    <3> QED BY <1>0, <3>1, <3>2
  <2>2. \A e \in KeyEntries : slot[i][e] = None
    BY <1>0, <1>7, <2>1, CurrentFields DEF Good, SlotEntries
  <2>3. \A e \in KeyEntries : T.live[e] = keys[e]
    BY <1>3, <1>5, <2>2 DEF Registered
  <2>4. Whole(M) /\ Good(M, dbOf) /\ M.count > 0 /\ i = M.count
    BY <1>1, <1>2, <1>7, RunsEnds
  <2> QED BY <1>5, <2>3, <2>4, GoodAdded
<1> QED BY <1>2, <1>6, <1>7, PerformInv

LEMMA AddSeedInv ==
  ASSUME Inv, NEW w \in Seeds, AddFromSeed(w)
  PROVE  Inv'
<1> DEFINE keys == SeedKeys(w)
<1>1. /\ keys \in [KeyEntries -> Value]
      /\ keys["vk"] = w /\ keys["seed"] = w /\ w # None
  BY DEF SeedKeys, KeyEntries, Value, Wallets
<1>2. keys["vk"] = KeyOf(keys)
  BY <1>1 DEF KeyOf
<1> HIDE DEF keys
<1>3. app = "open" /\ CountMigrated < MaxSlots
      /\ Perform(MigrateIfNeeded \o AddWallet(CountMigrated, keys))
  BY DEF AddFromSeed, keys
<1> QED BY <1>1, <1>2, <1>3, AddInv

LEMMA RestoreInv ==
  ASSUME Inv, NEW w \in PrivateKeys, RestoreFromSpendingKey(w)
  PROVE  Inv'
<1> DEFINE keys == PrivateKeyKeys(w)
<1>1. /\ keys \in [KeyEntries -> Value]
      /\ keys["vk"] = w /\ keys["seed"] = None /\ keys["spending_key"] = w /\ w # None
  BY DEF PrivateKeyKeys, KeyEntries, Value, Wallets
<1>2. keys["vk"] = KeyOf(keys)
  BY <1>1 DEF KeyOf
<1> HIDE DEF keys
<1>3. app = "open" /\ CountMigrated < MaxSlots
      /\ Perform(MigrateIfNeeded \o AddWallet(CountMigrated, keys))
  BY DEF RestoreFromSpendingKey, keys
<1> QED BY <1>1, <1>2, <1>3, AddInv

LEMMA NextInv ==
  ASSUME Inv, [Next]_vars
  PROVE  Inv'
<1>1. CASE UNCHANGED vars
  <2>1. Current' = Current /\ ActiveAlias' = ActiveAlias
    BY <1>1 DEF vars, Current, ActiveAlias, SlotAlias
  <2>2. Underway'
    BY <1>1, <2>1 DEF Inv, Underway, vars
  <2> QED BY <1>1, <2>1, <2>2 DEF Inv, AtRest, vars
<1>2. CASE Start
  BY <1>2, StartInv
<1>3. CASE Write
  BY <1>3, WriteInv
<1>4. CASE RestartApp
  BY <1>4, RestartInv
<1>5. CASE Die
  BY <1>5, DieInv
<1>6. ASSUME NEW w \in Seeds, StoreWallet(w) \/ AddFromSeed(w)
      PROVE  Inv'
  <2>1. w \in Wallets
    BY DEF Wallets
  <2> QED BY <1>6, <2>1, FirstWalletInv, AddSeedInv
<1>7. ASSUME NEW w \in PrivateKeys, ImportSpendingKey(w) \/ RestoreFromSpendingKey(w)
      PROVE  Inv'
  <2>1. w \in Wallets
    BY DEF Wallets
  <2> QED BY <1>7, <2>1, FirstWalletInv, RestoreInv
<1>8. CASE OpenWalletList
  BY <1>8, OpenListInv
<1>9. ASSUME NEW i \in Slots, SwitchTo(i)
      PROVE  Inv'
  BY <1>9, SwitchInv
<1>10. CASE Send
  BY <1>10, SendInv
<1>11. CASE Erase
  BY <1>11, EraseInv
<1> QED BY <1>1, <1>2, <1>3, <1>4, <1>5, <1>6, <1>7, <1>8, <1>9, <1>10, <1>11 DEF Next

----------------------------------------------------------------------------
(* The theorems.                                                              *)

(* The invariant holds of every reachable state.                              *)
THEOREM InvHolds == Spec => []Inv
  BY InitInv, NextInv, PTL DEF Spec

LEMMA WholeIsRegistered ==
  ASSUME Inv
  PROVE  RegisteredWalletsAreWhole
<1>0. Whole(Current) /\ count \in Nat /\ count <= MaxSlots
  BY AlwaysWhole, CurrentType
<1>1. \A i \in 0 .. count - 1 : i \in Slots /\ i < count
  BY <1>0 DEF Slots
<1>2. \A i \in 0 .. count - 1 :
        /\ slot[i]["vk"] # None /\ KeyOf(slot[i]) # None
        /\ slot[i]["alias"] = OwnAlias(i)
  BY <1>0, <1>1, CurrentFields DEF Whole
<1>3. \A i \in 0 .. count - 1 : SlotAlias(i) = OwnAlias(i)
  BY <1>1, <1>2 DEF SlotAlias, OwnAlias, AliasOf, DefaultAlias, Slots
<1>4. \A i, j \in 0 .. count - 1 : i # j => SlotAlias(i) # SlotAlias(j)
  BY <1>1, <1>3, AliasesDiffer
<1> QED BY <1>2, <1>4 DEF RegisteredWalletsAreWhole, KeyOf

LEMMA OpenSigns ==
  ASSUME Inv
  PROVE  SignsForItsDatabaseUnlessTorn
<1> SUFFICES ASSUME app = "open", ~torn
             PROVE  ActiveSpendingKey = dbOf[ActiveAlias]
  BY DEF SignsForItsDatabaseUnlessTorn
<1>0. /\ Whole(Current) /\ Good(Current, dbOf) /\ count \in Nat
      /\ dbOf[ActiveAlias] # None /\ live["vk"] # None
  BY AlwaysWhole, RestIsGood, CurrentType DEF Inv, AtRest
<1>1. /\ active \in Slots
      /\ ActiveAlias = IF count = 0 THEN DefaultAlias ELSE OwnAlias(active)
  BY <1>0, ActiveAliasIs
<1>2. ActiveSpendingKey = KeyOf(live)
  BY DEF ActiveSpendingKey, KeyOf
<1>3. CASE count = 0
  <2>1. dbOf[DefaultAlias] \in {None, KeyOf(live)}
    BY <1>0, <1>3, CurrentFields DEF Good
  <2> QED BY <1>0, <1>1, <1>2, <1>3, <2>1
<1>4. CASE count > 0
  <2>1. active < count
    BY <1>0, <1>1, <1>4, CurrentFields DEF Good
  <2>2. dbOf[OwnAlias(active)] \in {None, KeyOf(slot[active])}
    BY <1>0, <1>1, <2>1, CurrentFields DEF Good
  <2>3. /\ live["seed"] = slot[active]["seed"]
        /\ live["spending_key"] = slot[active]["spending_key"]
    BY <1>0, <1>4, CurrentFields DEF Good, KeyEntries
  <2>4. KeyOf(slot[active]) = KeyOf(live)
    BY <2>3 DEF KeyOf
  <2> QED BY <1>0, <1>1, <1>2, <1>4, <2>2, <2>4
<1> QED BY <1>0, <1>3, <1>4

(* Whatever order the wallets were made, switched and erased in, and wherever *)
(* the process died: every wallet the app lists can be switched to, signs,    *)
(* and has databases of its own (WalletManager.addWallet counts a slot after  *)
(* it is filled).                                                             *)
THEOREM RegisteredWhole == Spec => []RegisteredWalletsAreWhole
  BY InvHolds, WholeIsRegistered, PTL

(* As long as no process died between two writes, the wallet that is open     *)
(* signs with the keys of the wallet whose notes its database holds.          *)
THEOREM SignsRight == Spec => []SignsForItsDatabaseUnlessTorn
  BY InvHolds, OpenSigns, PTL
=============================================================================
