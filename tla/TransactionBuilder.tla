------------------------ MODULE TransactionBuilder ------------------------
(***************************************************************************)
(* The transaction builder (zcash_primitives/transaction/builder.rs) with  *)
(* the Sapling prover it builds with and the verifier of zcash_proofs.     *)
(*                                                                         *)
(* A note is [owner, value, position, anchor]: the anchor is the root of   *)
(* the Merkle path the caller hands over with it.  A value commitment is   *)
(* v * ValueGenerator + rcv: the two generators of the code are            *)
(* independent, so is this sum while |rcv| sums stay below ValueGenerator. *)
(* Signatures and proofs are what they attest.                             *)
(***************************************************************************)
EXTENDS TxFormat, FiniteSets

CONSTANTS
    Keys,             \* spending keys, each the owner of its addresses
    Notes,            \* notes the caller may try to spend
    TransparentCoins, \* [owner, value, n]
    Values,           \* values of outputs
    Fee,              \* DEFAULT_FEE
    Branch,           \* the consensus branch id handed to build
    Height,           \* the target height
    Versions,         \* of new (Sapling) and new_zfuture (ZFuture)
    ValueGenerator,   \* see above
    Randomness,       \* sequences of the rcv the prover draws, in order
    MaxCalls          \* bound on the calls before build

VARIABLES builder, outcome, built

\* What surrounds the builder guarantees: amounts are numbers, those of notes
\* are not negative, and the prover draws randomness, below the generator, for
\* every description.
ASSUME BuilderAssumption ==
    /\ Keys \subseteq Int /\ Values \subseteq Int /\ Fee \in Int
    /\ \A note \in Notes : note.value \in Nat
    /\ \A coin \in TransparentCoins : coin.value \in Int
    /\ ValueGenerator \in Nat \ {0} /\ MaxCalls \in Nat
    /\ \A rcv \in Randomness : rcv \in Seq(0..(ValueGenerator - 1)) /\ Len(rcv) >= MaxCalls + 2

builderVars == <<builder, outcome, built>>

NoAnchor == -1
BadAddress == 0
\* A P2SH address: not one a key can sign for.
ScriptAddress == -1

DEFAULT_TX_EXPIRY_DELTA == 20
MIN_SHIELDED_OUTPUTS == 2

\* Sums of sequences, from the left, and what is summed.
Total(s) ==
    LET sum[i \in 0..Len(s)] == IF i = 0 THEN 0 ELSE sum[i-1] + s[i]
    IN  sum[Len(s)]
ValuesOf(s) == [i \in DOMAIN s |-> s[i].value]
CoinValues(coins) == [i \in DOMAIN coins |-> coins[i].coin.value]

-----------------------------------------------------------------------------
(* Amounts: an operation whose result leaves the range panics.             *)

InRange(x) == x \in -TxMaxMoney..TxMaxMoney

\* The prefix sums of `first` and the terms of a sequence.
SumsStayInRange(first, s) ==
    \A i \in 0..Len(s) : InRange(first + Total(SubSeq(s, 1, i)))

-----------------------------------------------------------------------------
(* The calls before build.  A refused call returns an error and leaves the *)
(* builder to its caller; a panic ends it.                                 *)

TakesCalls == builder.calls < MaxCalls /\ outcome # "panic" /\ built = None

Answer(o, b) ==
    /\ outcome' = o
    /\ builder' = [b EXCEPT !.calls = @ + 1]
    /\ UNCHANGED built

BuilderInit ==
    /\ \E v \in Versions :
         builder = [calls |-> 0, tx |-> [EmptyTx(v) EXCEPT
                                           !.expiryHeight = Height + DEFAULT_TX_EXPIRY_DELTA],
                    anchor |-> NoAnchor, spends |-> << >>, outputs |-> << >>,
                    coins |-> << >>, tze |-> << >>, change |-> None]
    /\ outcome = "ok"
    /\ built = None

\* The anchor is remembered before the value of the note is looked at.
AddSaplingSpend(key, note) ==
    LET b == [builder EXCEPT !.anchor = IF @ = NoAnchor THEN note.anchor ELSE @]
        balance == builder.tx.valueBalance + note.value
    IN  /\ TakesCalls
        /\ IF builder.anchor \notin {NoAnchor, note.anchor} THEN Answer("AnchorMismatch", builder)
           ELSE IF note.value > TxMaxMoney THEN Answer("InvalidAmount", b)
           ELSE IF ~InRange(balance) THEN Answer("panic", b)
           ELSE Answer("ok", [b EXCEPT !.tx.valueBalance = balance,
                                       !.spends = Append(@, [key |-> key, note |-> note])])

\* SaplingOutput::new_internal, and the output it makes.
OutputError(to, value) ==
    IF to = BadAddress THEN "InvalidAddress"
    ELSE IF value < 0 THEN "InvalidAmount" ELSE "ok"

AddSaplingOutput(to, value) ==
    /\ TakesCalls
    /\ IF OutputError(to, value) # "ok" THEN Answer(OutputError(to, value), builder)
       ELSE IF ~InRange(builder.tx.valueBalance - value) THEN Answer("panic", builder)
       ELSE Answer("ok", [builder EXCEPT !.tx.valueBalance = @ - value,
                            !.outputs = Append(@, [to |-> to, value |-> value])])

AddTransparentInput(key, coin) ==
    /\ TakesCalls
    /\ IF coin.value < 0 THEN Answer("InvalidAmount", builder)
       ELSE IF coin.owner # key THEN Answer("InvalidAddress", builder)
       ELSE Answer("ok", [builder EXCEPT
              !.coins = Append(@, [key |-> key, coin |-> coin]),
              !.tx.vin = Append(@, [hash |-> 0, n |-> coin.n, scriptSig |-> << >>,
                                    sequence |-> 9999])])

AddTransparentOutput(to, value) ==
    /\ TakesCalls
    /\ IF value < 0 THEN Answer("InvalidAmount", builder)
       ELSE Answer("ok", [builder EXCEPT
              !.tx.vout = Append(@, [value |-> value, scriptPubkey |-> <<to>>])])

SendChangeTo(to) == TakesCalls /\ Answer("ok", [builder EXCEPT !.change = <<to>>])

\* The mode the witness builder will return need not be the input's.
AddTzeInput(value, mode, witnessMode) ==
    /\ TakesCalls
    /\ Answer("ok", [builder EXCEPT
         !.tze = Append(@, [value |-> value, mode |-> witnessMode]),
         !.tx.tzeInputs = Append(@, [hash |-> 0, n |-> Len(builder.tze), extensionId |-> 0,
                                     mode |-> mode, payload |-> << >>])])

AddTzeOutput(value, mode) ==
    /\ TakesCalls
    /\ IF value < 0 THEN Answer("InvalidAmount", builder)
       ELSE Answer("ok", [builder EXCEPT
              !.tx.tzeOutputs = Append(@, [value |-> value, extensionId |-> 0,
                                           mode |-> mode, payload |-> <<7>>])])

-----------------------------------------------------------------------------
(* The prover: every proof adds to bsk what the verifier will sum up.      *)

ValueCommitmentOf(value, rcv) == value * ValueGenerator + rcv
NullifierOf(key, note) == 100 * key + note.position
SigningKey(key) == [ask |-> key]

\* spend_proof: the circuit holds for the note of the key's own address.
SpendProves(spend, anchor) ==
    spend.note.owner = spend.key /\ spend.note.anchor = anchor
SpendOf(spend, anchor, rcv) ==
    [cv |-> ValueCommitmentOf(spend.note.value, rcv), anchor |-> anchor,
     nullifier |-> NullifierOf(spend.key, spend.note), rk |-> 300 + spend.key,
     zkproof |-> <<"spend", ValueCommitmentOf(spend.note.value, rcv), anchor, spend.note>>,
     spendAuthSig |-> None]

\* A dummy output carries zero to an address nobody holds.
Dummy == [to |-> -9, value |-> 0]
OutputOf(output, rcv) ==
    LET cmu == 1000 + 10 * output.value + output.to
    IN  [cv |-> ValueCommitmentOf(output.value, rcv), cmu |-> cmu, ephemeralKey |-> 500,
         encNote |-> output.to, encMemo |-> 0, encTag |-> 0, outCiphertext |-> 0,
         zkproof |-> <<"output", ValueCommitmentOf(output.value, rcv), cmu>>]

-----------------------------------------------------------------------------
(* build.                                                                  *)

ChangeTermsWithoutOutputs(b) ==
    <<-Fee, Total(CoinValues(b.coins)), Total(ValuesOf(b.tze))>>
ChangeTerms(b) ==
    <<-Fee, Total(CoinValues(b.coins)), -Total(ValuesOf(b.tx.vout)),
      Total(ValuesOf(b.tze)), -Total(ValuesOf(b.tx.tzeOutputs))>>

Change(b) == b.tx.valueBalance + Total(ChangeTerms(b))

ChangePanics(b) ==
    \/ ~SumsStayInRange(b.tx.valueBalance, ChangeTerms(b))
    \/ ~SumsStayInRange(0, CoinValues(b.coins))
    \/ ~SumsStayInRange(0, ValuesOf(b.tx.vout))

\* Where change goes: the address that was set, or the first spend's.
ChangeAddress(b) ==
    IF b.change # None THEN b.change
    ELSE IF b.spends # << >> THEN <<b.spends[1].note.owner>> ELSE None

WithChange(b) ==
    IF Change(b) = 0 THEN b
    ELSE [b EXCEPT !.tx.valueBalance = @ - Change(b),
                   !.outputs = Append(@, [to |-> ChangeAddress(b)[1], value |-> Change(b)])]

Padded(b) ==
    IF b.spends = << >> \/ Len(b.outputs) >= MIN_SHIELDED_OUTPUTS THEN b.outputs
    ELSE b.outputs \o [i \in 1..(MIN_SHIELDED_OUTPUTS - Len(b.outputs)) |-> Dummy]

Orders(n) == {p \in [1..n -> 1..n] : Cardinality({p[i] : i \in 1..n}) = n}
IndexOf(order, i) == CHOOSE j \in DOMAIN order : order[j] = i

\* The descriptions in the order of the shuffle, and the keys that sum up:
\* spends add to bsk, outputs subtract.
Proved(b, spendOrder, outputOrder, rcv) ==
    LET outputs == Padded(b)
        spends == Len(b.spends)
    IN  [tx |-> [b.tx EXCEPT
           !.spends = [i \in 1..spends |-> SpendOf(b.spends[spendOrder[i]], b.anchor, rcv[i])],
           !.outputs = [i \in 1..Len(outputs) |->
                          OutputOf(outputs[outputOrder[i]], rcv[spends + i])]],
         bsk |-> Total([i \in 1..spends |-> rcv[i]])
                 - Total([i \in 1..Len(outputs) |-> rcv[spends + i]])]

\* The sum a verifier makes of the commitments.
Cvs(s) == [i \in DOMAIN s |-> s[i].cv]
CvSum(tx) == Total(Cvs(tx.spends)) - Total(Cvs(tx.outputs))
Bvk(tx) == CvSum(tx) - ValueCommitmentOf(tx.valueBalance, 0)

\* Every signature but the transparent ones is over the shielded hash.
SignedInCallOrder(b, p, spendOrder) ==
    LET hash == SignatureHash(p.tx, Branch, SighashAll, ShieldedInput)
    IN  [p.tx EXCEPT
           !.spends = [i \in DOMAIN @ |-> [@[i] EXCEPT
              !.spendAuthSig = <<[key |-> 300 + b.spends[i].key, hash |-> hash]>>]],
           !.bindingSig = IF Shielded(p.tx) THEN <<[key |-> p.bsk, hash |-> hash]>> ELSE None]
Signed(b, p, spendOrder) ==
    LET hash == SignatureHash(p.tx, Branch, SighashAll, ShieldedInput)
    IN  [p.tx EXCEPT
           !.spends = [i \in DOMAIN @ |-> [@[i] EXCEPT
              !.spendAuthSig = <<[key |-> 300 + b.spends[spendOrder[i]].key, hash |-> hash]>>]],
           !.bindingSig = IF Shielded(p.tx) THEN <<[key |-> p.bsk, hash |-> hash]>> ELSE None]

WithTransparentSignatures(b, tx) ==
    [tx EXCEPT !.vin = [i \in DOMAIN @ |-> [@[i] EXCEPT
       !.scriptSig = <<[key |-> b.coins[i].key,
                        hash |-> SignatureHash(tx, Branch, SighashAll,
                                   TransparentInput(i, b.coins[i].coin.owner,
                                                    b.coins[i].coin.value))]>>]]]

Metadata(b, spendOrder, outputOrder) ==
    [spendIndices |-> [i \in 1..Len(b.spends) |-> IndexOf(spendOrder, i)],
     outputIndices |-> [i \in 1..Len(b.outputs) |-> IndexOf(outputOrder, i)]]

\* The ways build can fail, in the order it meets them.
BuildError(b, c) ==
    CASE ChangePanics(b) -> "panic"
      [] Change(b) < 0 -> "ChangeIsNegative"
      [] Change(b) > 0 /\ ChangeAddress(b) = None -> "NoChangeAddress"
      [] Change(b) > 0 /\ OutputError(ChangeAddress(b)[1], Change(b)) # "ok" ->
           OutputError(ChangeAddress(b)[1], Change(b))
      [] ~InRange(c.tx.valueBalance) -> "panic"
      [] \E i \in DOMAIN b.spends : ~SpendProves(b.spends[i], b.anchor) -> "SpendProof"
      [] OTHER -> "ok"

BuildTransaction ==
    /\ outcome # "panic" /\ built = None
    /\ LET b == builder
           c == WithChange(b)
           Refuse(o) == outcome' = o /\ built' = <<[error |-> o]>> /\ UNCHANGED builder
       IN  IF BuildError(b, c) # "ok" THEN Refuse(BuildError(b, c))
           ELSE \E spendOrder \in Orders(Len(c.spends)), outputOrder \in Orders(Len(Padded(c))),
                   rcv \in Randomness :
                  LET p == Proved(c, spendOrder, outputOrder, rcv)
                      signed == Signed(c, p, spendOrder)
                      witnessed == [signed EXCEPT !.tzeInputs = [i \in DOMAIN @ |->
                                      [@[i] EXCEPT !.payload = <<7>>]]]
                      final == WithTransparentSignatures(c, witnessed)
                  IN  IF p.bsk # Bvk(p.tx) /\ Shielded(p.tx) THEN Refuse("BindingSig")
                      ELSE IF \E i \in DOMAIN b.tze : b.tze[i].mode # b.tx.tzeInputs[i].mode
                      THEN Refuse("TzeWitnessModeMismatch")
                      ELSE IF CannotFreeze(final) THEN Refuse("panic")
                      ELSE /\ outcome' = "built"
                           /\ built' = <<[tx |-> final, paid |-> c,
                                          metadata |-> Metadata(c, spendOrder, outputOrder)]>>
                           /\ UNCHANGED builder

BuilderNext ==
    \/ \E key \in Keys, note \in Notes : AddSaplingSpend(key, note)
    \/ \E to \in Keys \cup {BadAddress}, value \in Values : AddSaplingOutput(to, value)
    \/ \E key \in Keys, coin \in TransparentCoins : AddTransparentInput(key, coin)
    \/ \E value \in Values : AddTransparentOutput(1, value)
    \/ \E to \in Keys \cup {BadAddress} : SendChangeTo(to)
    \/ builder.tx.version = ZFuture
       /\ \E value \in Values, mode \in {0, 1} : AddTzeInput(value, 0, mode)
    \/ builder.tx.version = ZFuture /\ \E value \in Values : AddTzeOutput(value, 0)
    \/ BuildTransaction

BuilderSpec == BuilderInit /\ [][BuilderNext]_builderVars

-----------------------------------------------------------------------------
(* SaplingVerificationContext, and the signatures of the inputs.           *)

SpendAccepted(s, hash) ==
    /\ s.spendAuthSig[1] = [key |-> s.rk, hash |-> hash]
    /\ s.zkproof[2] = s.cv /\ s.zkproof[3] = s.anchor /\ s.zkproof[4].anchor = s.anchor
    /\ s.nullifier = NullifierOf(s.rk - 300, s.zkproof[4])
OutputAccepted(o) == o.zkproof[2] = o.cv /\ o.zkproof[3] = o.cmu
BindingAccepted(tx, hash) == tx.bindingSig[1] = [key |-> Bvk(tx), hash |-> hash]

-----------------------------------------------------------------------------
(* Properties.                                                             *)

Done == built # None /\ outcome = "built"
Paid == built[1].paid
Tx == built[1].tx

\* What a built transaction spends, by its notes and coins, is what it pays,
\* by the notes and outputs it makes, and the fee: no zatoshi is lost between
\* the change, the value balance and the descriptions.
Committed(s) == [i \in DOMAIN s |-> s[i].cv \div ValueGenerator]
ValueIsConserved ==
    Done => Total(Committed(Tx.spends)) + Total(CoinValues(Paid.coins))
            = Total(Committed(Tx.outputs)) + Total(ValuesOf(Tx.vout)) + Fee

\* A verifier accepts every built transaction: each proof is about the
\* description it stands in, each signature is over the hash of the final
\* transaction, and the binding key is what the commitments leave.
VerifierAccepts ==
    Done => LET hash == SignatureHash(Tx, Branch, SighashAll, ShieldedInput)
            IN  /\ \A i \in DOMAIN Tx.spends : SpendAccepted(Tx.spends[i], hash)
                /\ \A i \in DOMAIN Tx.outputs : OutputAccepted(Tx.outputs[i])
                /\ Shielded(Tx) => BindingAccepted(Tx, hash)
                /\ \A i \in DOMAIN Tx.vin :
                     LET coin == Paid.coins[i].coin
                     IN  Tx.vin[i].scriptSig =
                           <<[key |-> coin.owner,
                              hash |-> SignatureHash(Tx, Branch, SighashAll,
                                         TransparentInput(i, coin.owner, coin.value))]>>

\* After the shuffle the metadata still leads from the n-th call to its
\* description, and a spend is hidden among at least two outputs.
MetadataPointsHome ==
    Done => LET m == built[1].metadata
            IN  /\ \A n \in DOMAIN Paid.spends :
                     Tx.spends[m.spendIndices[n]].nullifier
                       = NullifierOf(Paid.spends[n].key, Paid.spends[n].note)
                /\ \A n \in DOMAIN Paid.outputs :
                     LET o == Tx.outputs[m.outputIndices[n]]
                     IN  o.encNote = Paid.outputs[n].to
                         /\ o.cv \div ValueGenerator = Paid.outputs[n].value
                /\ Tx.spends # << >> => Len(Tx.outputs) >= 2

\* The prover never refuses to sign: the randomness of the descriptions, and
\* the value balance after change, leave the key it summed up.
BindingKeyMatches == outcome # "BindingSig"

\* All three, as they are run together.
BuiltTransactionsVerify == VerifierAccepts /\ MetadataPointsHome /\ BindingKeyMatches

\* A built transaction comes back from its own encoding.
BuiltSurvivesTheWire ==
    Done => Read(Write(Tx)) = Ok([data |-> Tx, txid |-> FrozenTxId(Tx)], << >>)
=============================================================================
