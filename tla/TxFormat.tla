------------------------------ MODULE TxFormat ------------------------------
(***************************************************************************)
(* The transaction formats of zcash_primitives: the v1 to v4 encoding,     *)
(* the v5 encoding (which is only read), the signature hash and the v5     *)
(* transaction id.                                                         *)
(*                                                                         *)
(* A stream is a sequence of tokens (module Serialize).  A component is a  *)
(* record, and its layout the sequence of its fields as they are read and  *)
(* written; a field is one token but for scripts and payloads, which are   *)
(* vectors.  A hash is the data it covers, so it has no collisions.        *)
(***************************************************************************)
EXTENDS Serialize

CONSTANTS TxMaxMoney,    \* MAX_MONEY
          BranchIds    \* the branch ids the library knows


-----------------------------------------------------------------------------
(* Fields.                                                                 *)

\* The token of a point or a scalar that is not canonically encoded.
NotCanonical == 255

\* What a read accepts: canonical points and scalars, amounts in range.
Valid(f, t) ==
    CASE f \in {"cv", "rk", "ephemeralKey", "anchor", "cmu"} -> t # NotCanonical
      [] f \in {"value", "vpubOld", "vpubNew"} -> t \in 0..TxMaxMoney
      [] f = "valueBalance" -> t \in -TxMaxMoney..TxMaxMoney
      [] OTHER -> TRUE

Vectors == {"scriptSig", "scriptPubkey", "payload", "proofBytes"}
Optionals == {"spendAuthSig", "joinsplitPubkey", "joinsplitSig", "bindingSig"}
Compacts == {"extensionId", "mode"}

Byte(t) == <<t>>
WriteField(f, v) ==
    CASE f \in Vectors  -> WriteVector(v, Byte)
      [] f \in Compacts -> WriteCompact(v)
      [] f \in Optionals -> v
      [] OTHER -> <<v>>

ReadField(f, s) ==
    CASE f \in Vectors  -> ReadVector(s, ReadToken)
      [] f \in Compacts -> ReadCompact(s)
      [] OTHER -> Then(ReadToken(s), LAMBDA t, rest :
                    IF ~Valid(f, t) THEN Fail
                    ELSE Ok(IF f \in Optionals THEN <<t>> ELSE t, rest))

With(e, f, v) == [g \in DOMAIN e \cup {f} |-> IF g = f THEN v ELSE e[g]]

NoFields == [g \in {} |-> 0]
ReadStruct(s, layout) ==
    LET read[i \in 0..Len(layout)] ==
          IF i = 0 THEN Ok(NoFields, s)
          ELSE Then(read[i-1], LAMBDA e, rest :
                 Then(ReadField(layout[i], rest), LAMBDA v, r :
                   Ok(With(e, layout[i], v), r)))
    IN  read[Len(layout)]

WriteStruct(e, layout) == WriteArray(layout, LAMBDA f : WriteField(f, e[f]))

-----------------------------------------------------------------------------
(* Components.                                                             *)

TxIn == <<"hash", "n", "scriptSig", "sequence">>
TxOut == <<"value", "scriptPubkey">>
TzeInPrefix == <<"hash", "n", "extensionId", "mode">>
TzeIn == TzeInPrefix \o <<"payload">>
TzeOut == <<"value", "extensionId", "mode", "payload">>
SpendDescription == <<"cv", "anchor", "nullifier", "rk", "zkproof", "spendAuthSig">>
\* enc_ciphertext in the three parts the transaction id tells apart.
Ciphertexts == <<"encNote", "encMemo", "encTag", "outCiphertext">>
OutputDescription == <<"cv", "cmu", "ephemeralKey">> \o Ciphertexts \o <<"zkproof">>
\* A PHGR proof (296 bytes) is longer than a Groth16 proof (192).
JsDescription(groth) ==
    <<"vpubOld", "vpubNew", "jsAnchor", "nullifier1", "nullifier2", "commitment1",
      "commitment2", "jsEphemeralKey", "randomSeed", "mac1", "mac2">>
    \o (IF groth THEN <<"groth">> ELSE <<"phgrA", "phgrB">>)
    \o <<"ciphertext1", "ciphertext2">>
WriteJs(js) == WriteStruct(js, JsDescription("groth" \in DOMAIN js))

SpendDescriptionV5 == <<"cv", "nullifier", "rk">>
OutputDescriptionV5 == <<"cv", "cmu", "ephemeralKey">> \o Ciphertexts
OrchardAction == <<"cvNet", "nullifier", "rkBytes", "cmx", "epkBytes">> \o Ciphertexts

-----------------------------------------------------------------------------
(* Versions.                                                               *)

\* The top bit of the header.
Overwintered == 1000000
ZFutureVersion == 65535
Version(overwintered, number) == [overwintered |-> overwintered, number |-> number]
Sprout(v) == Version(FALSE, v)
Overwinter == Version(TRUE, 3)
Sapling == Version(TRUE, 4)
Zip225 == Version(TRUE, 5)
ZFuture == Version(TRUE, ZFutureVersion)

Header(v) == v.number + (IF v.overwintered THEN Overwintered ELSE 0)
\* Each format has its own version group id; the model's is number * 10.
VersionGroupId(v) == IF v.overwintered THEN v.number * 10 ELSE 0
WriteVersion(v) == <<Header(v)>> \o (IF v.overwintered THEN <<VersionGroupId(v)>> ELSE << >>)

ReadVersionOfAnyGroup(s) ==
    Then(ReadToken(s), LAMBDA header, rest :
      LET v == Version(header >= Overwintered, header % Overwintered)
      IN  IF v.overwintered
          THEN Then(ReadToken(rest), LAMBDA group, r :
                 IF v \in {Overwinter, Sapling, Zip225, ZFuture} THEN Ok(v, r) ELSE Fail)
          ELSE IF v.number >= 1 THEN Ok(v, rest) ELSE Fail)
ReadVersion(s) ==
    Then(ReadToken(s), LAMBDA header, rest :
      LET v == Version(header >= Overwintered, header % Overwintered)
      IN  IF v.overwintered
          THEN Then(ReadToken(rest), LAMBDA group, r :
                 IF v \in {Overwinter, Sapling, Zip225, ZFuture} /\ group = VersionGroupId(v)
                 THEN Ok(v, r) ELSE Fail)
          ELSE IF v.number >= 1 THEN Ok(v, rest) ELSE Fail)

HasSprout(v) == IF v.overwintered THEN v # Zip225 ELSE v.number >= 2
HasSapling(v) == v \in {Sapling, Zip225, ZFuture}
HasTze(v) == v = ZFuture

-----------------------------------------------------------------------------
(* Transactions.                                                           *)

EmptyTx(v) ==
    [version |-> v, vin |-> << >>, vout |-> << >>, tzeInputs |-> << >>, tzeOutputs |-> << >>,
     lockTime |-> 0, expiryHeight |-> 0, valueBalance |-> 0, spends |-> << >>,
     outputs |-> << >>, joinsplits |-> << >>, joinsplitPubkey |-> None,
     joinsplitSig |-> None, bindingSig |-> None]

Shielded(tx) == tx.spends # << >> \/ tx.outputs # << >>

Layout(part, v) ==
    CASE part = "vin" -> TxIn            [] part = "vout" -> TxOut
      [] part = "tzeInputs" -> TzeIn     [] part = "tzeOutputs" -> TzeOut
      [] part = "spends" -> SpendDescription
      [] part = "outputs" -> OutputDescription
      [] part = "joinsplits" -> JsDescription(HasSapling(v))

Lists == {"vin", "vout", "tzeInputs", "tzeOutputs", "spends", "outputs", "joinsplits"}

ReadPart(part, v, s) ==
    IF part \in Lists THEN ReadVector(s, LAMBDA r : ReadStruct(r, Layout(part, v)))
    ELSE ReadField(part, s)

ReadParts(tx, s, parts) ==
    LET read[i \in 0..Len(parts)] ==
          IF i = 0 THEN Ok(tx, s)
          ELSE Then(read[i-1], LAMBDA t, rest :
                 Then(ReadPart(parts[i], tx.version, rest), LAMBDA v, r :
                   Ok([t EXCEPT ![parts[i]] = v], r)))
    IN  read[Len(parts)]

ReadV4(v, s) ==
    LET sapling == v \in {Sapling, ZFuture}
        parts == <<"vin", "vout">>
                 \o (IF HasTze(v) THEN <<"tzeInputs", "tzeOutputs">> ELSE << >>)
                 \o <<"lockTime">>
                 \o (IF v = Overwinter \/ sapling THEN <<"expiryHeight">> ELSE << >>)
                 \o (IF sapling THEN <<"valueBalance", "spends", "outputs">> ELSE << >>)
                 \o (IF HasSprout(v) THEN <<"joinsplits">> ELSE << >>)
        JsAuth(tx) == IF tx.joinsplits # << >> THEN <<"joinsplitPubkey", "joinsplitSig">> ELSE << >>
        Binding(tx) == IF sapling /\ Shielded(tx) THEN <<"bindingSig">> ELSE << >>
    IN  Then(ReadParts(EmptyTx(v), s, parts), LAMBDA tx, rest :
          ReadParts(tx, rest, JsAuth(tx) \o Binding(tx)))

WriteList(part, tx) ==
    IF part = "joinsplits" THEN WriteVector(tx.joinsplits, WriteJs)
    ELSE WriteVector(tx[part], LAMBDA e : WriteStruct(e, Layout(part, tx.version)))

\* The bytes Transaction::write produces when it returns Ok.
Write(tx) ==
    LET v == tx.version
        sapling == v \in {Sapling, ZFuture}
    IN  WriteVersion(v) \o WriteList("vin", tx) \o WriteList("vout", tx)
        \o (IF HasTze(v) THEN WriteList("tzeInputs", tx) \o WriteList("tzeOutputs", tx) ELSE << >>)
        \o <<tx.lockTime>>
        \o (IF v = Overwinter \/ sapling THEN <<tx.expiryHeight>> ELSE << >>)
        \o (IF sapling
            THEN <<tx.valueBalance>> \o WriteList("spends", tx) \o WriteList("outputs", tx)
            ELSE << >>)
        \o (IF HasSprout(v)
            THEN WriteList("joinsplits", tx)
                 \o (IF tx.joinsplits # << >> THEN tx.joinsplitPubkey \o tx.joinsplitSig ELSE << >>)
            ELSE << >>)
        \o (IF sapling /\ Shielded(tx) THEN tx.bindingSig ELSE << >>)

\* The transactions Transaction::write refuses.
Unwritable(tx) ==
    LET sapling == tx.version \in {Sapling, ZFuture}
        joins == HasSprout(tx.version) /\ tx.joinsplits # << >>
    IN  \/ joins # (tx.joinsplitPubkey # None)
        \/ joins # (tx.joinsplitSig # None)
        \/ (sapling /\ Shielded(tx)) # (tx.bindingSig # None)
        \/ sapling /\ \E i \in DOMAIN tx.spends : tx.spends[i].spendAuthSig = None

\* freeze: only v1 to v4 transactions can be made from their data.
CannotFreeze(tx) == tx.version \in {Zip225, ZFuture} \/ Unwritable(tx)

-----------------------------------------------------------------------------
(* The v5 encoding.  A v5 transaction is read with the branch id of its    *)
(* header and its Orchard bundle, which only its id keeps.                 *)

\* The two flag bits; a byte with any other bit set is refused.
FlagBytes == 0..3

ReadOrchard(s) ==
    Then(ReadVector(s, LAMBDA r : ReadStruct(r, OrchardAction)), LAMBDA actions, rest :
      IF actions = << >> THEN Ok(None, rest)
      ELSE Then(ReadStruct(rest, <<"flags", "valueBalance", "anchorBytes", "proofBytes">>),
             LAMBDA b, r :
               IF b.flags \notin FlagBytes \/ Len(r) < Len(actions) + 1 THEN Fail
               ELSE Ok(<<[actions |-> actions, flags |-> b.flags, anchor |-> b.anchorBytes,
                          valueBalance |-> b.valueBalance]>>,
                       SubSeq(r, Len(actions) + 2, Len(r)))))

\* Proofs and signatures follow the descriptions, one array after another.
ReadSaplingV5(tx, s) ==
    LET Spend(spends, anchors, proofs, sigs) ==
            [i \in DOMAIN spends |->
               With(With(With(spends[i], "anchor", anchors[1]), "zkproof", proofs[i]),
                    "spendAuthSig", sigs[i])]
        Output(outputs, proofs) ==
            [i \in DOMAIN outputs |-> With(outputs[i], "zkproof", proofs[i])]
    IN  Then(ReadVector(s, LAMBDA r : ReadStruct(r, SpendDescriptionV5)), LAMBDA sds, r1 :
        Then(ReadVector(r1, LAMBDA r : ReadStruct(r, OutputDescriptionV5)), LAMBDA ods, r2 :
          LET spends == Len(sds)
              some == IF spends + Len(ods) > 0 THEN 1 ELSE 0
              anchored == IF spends > 0 THEN 1 ELSE 0
          IN  Then(ReadArray(r2, some, LAMBDA r : ReadField("valueBalance", r)), LAMBDA vb, r3 :
              Then(ReadArray(r3, anchored, LAMBDA r : ReadField("anchor", r)), LAMBDA an, r4 :
              Then(ReadArray(r4, spends, ReadToken), LAMBDA proofs, r5 :
              Then(ReadArray(r5, spends, LAMBDA r : ReadField("spendAuthSig", r)), LAMBDA sigs, r6 :
              Then(ReadArray(r6, Len(ods), ReadToken), LAMBDA oproofs, r7 :
              Then(ReadArray(r7, some, ReadToken), LAMBDA binding, r8 :
                Ok([tx EXCEPT !.valueBalance = IF some = 1 THEN vb[1] ELSE 0,
                              !.spends = Spend(sds, an, proofs, sigs),
                              !.outputs = Output(ods, oproofs),
                              !.bindingSig = binding], r8)))))))))

-----------------------------------------------------------------------------
(* Digests: <<personalization, data>>, the data of a list element by       *)
(* element.  An all-zero hash is Zero.                                     *)

Zero == <<"zero", << >> >>
Digest(personal, es, fields) ==
    <<personal, [i \in DOMAIN es |-> WriteStruct(es[i], fields)]>>
DigestIf(cond, d) == IF cond THEN d ELSE Zero

SpendEffectsWithoutAnchor == <<"cv", "nullifier", "rk", "zkproof">>
SpendEffects == <<"cv", "anchor", "nullifier", "rk", "zkproof">>

JoinsplitsHash(tx) ==
    <<"joinsplits", <<WriteArray(tx.joinsplits, WriteJs), tx.joinsplitPubkey>> >>
ShieldedOutputsHash(tx) == Digest("soutputs", tx.outputs, OutputDescription)
TzeInputsHash(tx) == Digest("tzeInputs", tx.tzeInputs, TzeInPrefix)
TzeOutputsHash(tx) == Digest("tzeOutputs", tx.tzeOutputs, TzeOut)

SighashAll == 1
SighashNone == 2
SighashSingle == 3
AnyoneCanPay(hashType) == (hashType \div 128) % 2 = 1
BaseType(hashType) == hashType % 32

\* What is signed: the shielded parts, or an input with the script and the
\* value of the output it spends.
ShieldedInput == [kind |-> "shielded"]
TransparentInput(i, script, value) ==
    [kind |-> "transparent", index |-> i, script |-> script, value |-> value]
TzeInput(i, precondition, value) ==
    [kind |-> "tze", index |-> i, precondition |-> precondition, value |-> value]

CannotSign(tx, input) ==
    \/ ~tx.version.overwintered
    \/ tx.joinsplits # << >> /\ tx.joinsplitPubkey = None
    \/ input.kind = "tze" /\ ~HasTze(tx.version)

SignatureHash(tx, branchId, hashType, input) ==
    LET v == tx.version
        base == BaseType(hashType)
        all == base \notin {SighashSingle, SighashNone}
        outputsDigest ==
            IF all THEN Digest("outputs", tx.vout, TxOut)
            ELSE IF base = SighashSingle /\ input.kind = "transparent"
                    /\ input.index \in DOMAIN tx.vout
            THEN Digest("outputs", <<tx.vout[input.index]>>, TxOut)
            ELSE Zero
        signed ==
            CASE input.kind = "transparent" ->
                   LET in == tx.vin[input.index]
                   IN  <<HasTze(v), in.hash, in.n, input.script, input.value, in.sequence>>
              [] input.kind = "tze" ->
                   LET in == tx.tzeInputs[input.index]
                   IN  <<in.hash, in.n, input.precondition, input.value>>
              [] OTHER -> << >>
    IN  [branchId   |-> branchId,
         header     |-> WriteVersion(v),
         prevouts   |-> DigestIf(~AnyoneCanPay(hashType), Digest("prevouts", tx.vin, <<"hash", "n">>)),
         sequences  |-> DigestIf(~AnyoneCanPay(hashType) /\ all,
                                 Digest("sequence", tx.vin, <<"sequence">>)),
         vout       |-> outputsDigest,
         tzeInputs  |-> DigestIf(HasTze(v) /\ tx.tzeInputs # << >>, TzeInputsHash(tx)),
         tzeOutputs |-> DigestIf(HasTze(v) /\ tx.tzeOutputs # << >>, TzeOutputsHash(tx)),
         joinsplits |-> DigestIf(tx.joinsplits # << >>, JoinsplitsHash(tx)),
         spends     |-> DigestIf(v # Overwinter /\ tx.spends # << >>,
                                 Digest("spends", tx.spends, SpendEffects)),
         outputs    |-> DigestIf(v # Overwinter /\ tx.outputs # << >>, ShieldedOutputsHash(tx)),
         times      |-> <<tx.lockTime, tx.expiryHeight>>,
         balance    |-> IF v # Overwinter THEN <<tx.valueBalance>> ELSE << >>,
         hashType   |-> hashType,
         signed     |-> signed]

-----------------------------------------------------------------------------
(* The id of a v5 transaction: a tree of digests without its proofs and    *)
(* signatures.  An absent part is the digest of nothing.                   *)

HeaderTxId(tx, branchId) ==
    WriteVersion(tx.version) \o <<branchId, tx.lockTime, tx.expiryHeight>>

TransparentTxId(tx) ==
    IF tx.vin = << >> /\ tx.vout = << >> THEN << >>
    ELSE <<Digest("prevout", tx.vin, <<"hash", "n">>),
           Digest("sequence", tx.vin, <<"sequence">>), Digest("outputs", tx.vout, TxOut)>>

SaplingTxId(tx) ==
    LET spends ==
            IF tx.spends = << >> THEN << >>
            ELSE <<Digest("compact", tx.spends, <<"nullifier">>),
                   Digest("noncompact", tx.spends, <<"cv", "anchor", "rk">>)>>
        outputs ==
            IF tx.outputs = << >> THEN << >>
            ELSE <<Digest("compact", tx.outputs, <<"cmu", "ephemeralKey", "encNote">>),
                   Digest("memos", tx.outputs, <<"encMemo">>),
                   Digest("noncompact", tx.outputs, <<"cv", "encTag", "outCiphertext">>)>>
    IN  IF Shielded(tx) THEN <<spends, outputs, tx.valueBalance>> ELSE << >>

OrchardTxId(bundle) ==
    IF bundle = None THEN << >>
    ELSE LET b == bundle[1]
         IN  <<Digest("compact", b.actions, <<"nullifier", "cmx", "epkBytes", "encNote">>),
               Digest("memos", b.actions, <<"encMemo">>),
               Digest("noncompact", b.actions, <<"cvNet", "rkBytes", "encTag", "outCiphertext">>),
               b.flags, b.valueBalance, b.anchor>>

TzeTxId(tx) ==
    IF tx.tzeInputs = << >> /\ tx.tzeOutputs = << >> THEN << >>
    ELSE <<Digest("tzeInputs", tx.tzeInputs, TzeInPrefix),
           Digest("tzeOutputs", tx.tzeOutputs, TzeOut)>>

TxIdOf(tx, bundle, branchId) ==
    [branchId    |-> branchId,
     header      |-> HeaderTxId(tx, branchId),
     transparent |-> TransparentTxId(tx),
     sapling     |-> SaplingTxId(tx),
     orchard     |-> OrchardTxId(bundle),
     tze         |-> IF HasTze(tx.version) THEN TzeTxId(tx) ELSE << >>]

-----------------------------------------------------------------------------
(* Reading.                                                                *)

ReadV5(v, s) ==
    LET tze == IF HasTze(v) THEN <<"tzeInputs", "tzeOutputs">> ELSE << >>
    IN  Then(ReadStruct(s, <<"branchId", "lockTime", "expiryHeight">>), LAMBDA h, r1 :
          IF h.branchId \notin BranchIds THEN Fail
          ELSE Then(ReadParts([EmptyTx(v) EXCEPT !.lockTime = h.lockTime,
                                                 !.expiryHeight = h.expiryHeight],
                              r1, <<"vin", "vout">>), LAMBDA t1, r2 :
               Then(ReadSaplingV5(t1, r2), LAMBDA t2, r3 :
               Then(ReadOrchard(r3), LAMBDA bundle, r4 :
               Then(ReadParts(t2, r4, tze), LAMBDA t3, r5 :
                 Ok([data |-> t3, txid |-> TxIdOf(t3, bundle, h.branchId)], r5))))))

\* The id of a v1 to v4 transaction is the hash of its bytes: those it was
\* read from, or those from_data writes.
ConsumedBy(s, rest) == SubSeq(s, 1, Len(s) - Len(rest))
FrozenTxId(tx) == Write(tx)

Read(s) ==
    Then(ReadVersion(s), LAMBDA v, rest :
      IF v \in {Zip225, ZFuture} THEN ReadV5(v, rest)
      ELSE Then(ReadV4(v, rest), LAMBDA tx, r : Ok([data |-> tx, txid |-> ConsumedBy(s, r)], r)))
=============================================================================
