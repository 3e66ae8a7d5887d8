---------------------------- MODULE NoteSelection ----------------------------
(***************************************************************************)
(* Which notes the wallet counts, spends and consolidates: the queries of  *)
(* zcash_client_sqlite over the notes, and the builders of                 *)
(* zcash_client_backend/src/data_api/wallet.rs on top of them.             *)
(*                                                                         *)
(* A note is held by its age, the blocks since the one it was mined in: it *)
(* is old enough for the anchor from Maturity on (ANCHOR_OFFSET - 1).      *)
(***************************************************************************)
EXTENDS Integers, FiniteSets, FiniteSetsExt

CONSTANTS
  Maturity,     \* ANCHOR_OFFSET - 1
  Fee,          \* DEFAULT_FEE
  MaxTxSpends   \* MAX_TX_SPENDS

VARIABLE notes  \* by id: [value, age, spent, witnessed]

None == 0       \* spent IS NULL

Total(S) == MapThenSumSet(LAMBDA n : notes[n].value, S)

Unspent == {n \in DOMAIN notes : notes[n].spent = None}

\* get_balance, and get_balance_at the target: every mined note.
Balance == Total(Unspent)

\* The notes old enough for the anchor; get_balance_at(anchor) sums them.
AtAnchor == {n \in Unspent : notes[n].age >= Maturity}

\* get_unspent_sapling_notes: those whose witness row at the anchor exists.
UnspentSaplingNotes == {n \in AtAnchor : notes[n].witnessed}

\* getVerifiedBalance sums them since the app shows what it can move.
VerifiedBalance == Total(UnspentSaplingNotes)

\* Mutant: the smallest first.
BeforeAscending(m, n) ==
  \/ notes[m].value < notes[n].value
  \/ notes[m].value = notes[n].value /\ m < n
\* ORDER BY value DESC, id_note.
Before(m, n) ==
  \/ notes[m].value > notes[n].value
  \/ notes[m].value = notes[n].value /\ m < n

\* The window: each note with those before it.
UpTo(n) == {m \in AtAnchor : m = n \/ Before(m, n)}

\* select_unspent_sapling_notes: of the first MaxTxSpends, those whose running
\* sum stays below the target and the first that reaches it; the witnesses are
\* joined only then.
SelectUnspentSaplingNotes(target) ==
  LET capped == {n \in AtAnchor : Cardinality(UpTo(n)) <= MaxTxSpends}
      below == {n \in capped : Total(UpTo(n)) < target}
      reaches == {n \in capped \ below : \A m \in capped \ below : n = m \/ Before(n, m)}
  IN  {n \in below \cup reaches : notes[n].witnessed}

\* spend: the selected notes, or none for InsufficientBalance.
Spend(amount) ==
  LET selected == SelectUnspentSaplingNotes(amount + Fee)
  IN  IF Total(selected) < amount + Fee THEN {} ELSE selected

\* consolidate_notes: up to maxInputs of the smallest notes, when there are two
\* of them and they are worth more than the fee.
ConsolidateNotes(maxInputs) ==
  LET cap == IF maxInputs > 2 THEN maxInputs ELSE 2
      smaller(n) == {m \in UnspentSaplingNotes :
                       \/ notes[m].value < notes[n].value
                       \/ notes[m].value = notes[n].value /\ m <= n}
      smallest == {n \in UnspentSaplingNotes : Cardinality(smaller(n)) <= cap}
  IN  IF Cardinality(UnspentSaplingNotes) < 2 \/ Total(smallest) <= Fee
      THEN {} ELSE smallest

\* consolidateToAddress, when there is nothing to consolidate: -3 when money is
\* not spendable at the anchor, else -2.
NeedsRescan == Balance > VerifiedBalance

-----------------------------------------------------------------------------
\* Whatever was spent and merged before: a payment the balance on the screen
\* covers is built, from notes that are unspent, deep enough and witnessed, if
\* and only if six notes at most can pay it (transact.rs:95-101), unless one of
\* the largest lost its witness; and it never selects a note it does not need.
\* A batch of the sweep has two notes at least and its cap at most, none of them
\* worth more than one it leaves.
SpendsUpToSixNotes ==
  /\ \A cap \in 2 .. MaxTxSpends + 1 :
       LET batch == ConsolidateNotes(cap)
           left == UnspentSaplingNotes \ batch
       IN batch # {} =>
            /\ Cardinality(batch) \in 2 .. cap
            /\ left # {} => Cardinality(batch) = cap
            /\ \A n \in batch, m \in left : notes[n].value <= notes[m].value
  /\ \A amount \in 1 .. VerifiedBalance :
       LET selected == Spend(amount)
           six == {S \in SUBSET AtAnchor : Cardinality(S) <= MaxTxSpends}
           payable == \E S \in six : Total(S) >= amount + Fee
           largest == {n \in AtAnchor : Cardinality(UpTo(n)) <= MaxTxSpends}
       IN  IF selected = {}
           THEN payable => \E n \in largest : ~notes[n].witnessed
           ELSE /\ payable
                /\ selected \in six /\ selected \subseteq UnspentSaplingNotes
                /\ \A n \in selected : Total(selected \ {n}) < amount + Fee
=============================================================================
