------------------------------- MODULE TxWire -------------------------------
(***************************************************************************)
(* A transaction on its way: written by one party, perhaps altered, and    *)
(* read by the wallet.  Versions 1 to 4 are written by Transaction::write; *)
(* a v5 transaction comes from a node, in the encoding of ZIP 225.         *)
(***************************************************************************)
EXTENDS TxFormat

CONSTANTS Samples    \* one transaction of each version, every part in use

VARIABLES data, wire, altered, got

vars == <<data, wire, altered, got>>

IsV5(tx) == tx.version \in {Zip225, ZFuture}

-----------------------------------------------------------------------------
(* The encoding a node uses for v5: the reference ReadV5 is held against.  *)

WriteAll(es, f) == WriteArray(es, LAMBDA e : WriteField(f, e[f]))
OrchardV5(bundle) ==
    IF bundle = None THEN <<0>>
    ELSE LET b == bundle[1]
         IN  WriteVector(b.actions, LAMBDA a : WriteStruct(a, OrchardAction))
             \o <<b.flags, b.valueBalance, b.anchor>>
\* The proof, a signature for each action and the binding signature.
OrchardAuthV5(bundle) ==
    IF bundle = None THEN << >>
    ELSE <<1, 70>> \o [i \in 1..(Len(bundle[1].actions) + 1) |-> 71]
BeforeOrchard(tx, branchId) ==
    WriteVersion(tx.version) \o <<branchId, tx.lockTime, tx.expiryHeight>>
    \o WriteList("vin", tx) \o WriteList("vout", tx)
    \o WriteVector(tx.spends, LAMBDA e : WriteStruct(e, SpendDescriptionV5))
    \o WriteVector(tx.outputs, LAMBDA e : WriteStruct(e, OutputDescriptionV5))
    \o (IF Shielded(tx) THEN <<tx.valueBalance>> ELSE << >>)
    \o (IF tx.spends # << >> THEN <<tx.spends[1].anchor>> ELSE << >>)
    \o WriteAll(tx.spends, "zkproof") \o WriteAll(tx.spends, "spendAuthSig")
    \o WriteAll(tx.outputs, "zkproof") \o tx.bindingSig
AfterOrchard(tx) ==
    IF HasTze(tx.version) THEN WriteList("tzeInputs", tx) \o WriteList("tzeOutputs", tx)
    ELSE << >>
NodeWrite(tx, bundle, branchId) ==
    BeforeOrchard(tx, branchId) \o OrchardV5(bundle) \o OrchardAuthV5(bundle)
    \o AfterOrchard(tx)

Encoded(d) ==
    IF IsV5(d.data) THEN NodeWrite(d.data, d.bundle, d.branchId) ELSE Write(d.data)

-----------------------------------------------------------------------------
(* Variations of a sample: one field of one part changed, a list emptied   *)
(* or an element doubled.                                                  *)

VaryElement(e) == {[e EXCEPT ![f] = IF f \in Vectors \cup Optionals THEN <<99>> ELSE @ + 1] :
                     f \in DOMAIN e}
VaryList(es) ==
    IF es = << >> THEN {}
    ELSE {Tail(es), <<es[1]>> \o es} \cup {<<e>> \o Tail(es) : e \in VaryElement(es[1])}
VaryPart(tx, part) ==
    IF part \in Lists THEN {[tx EXCEPT ![part] = es] : es \in VaryList(tx[part])}
    ELSE IF part \in Optionals
    THEN IF tx[part] = None THEN {} ELSE {[tx EXCEPT ![part] = <<99>>]}
    ELSE {[tx EXCEPT ![part] = @ + 1]}

\* v1 to v3 carry no shielded parts, v1 and v2 no expiry.
Carried(v) ==
    {"vin", "vout", "lockTime", "joinsplits", "joinsplitPubkey", "joinsplitSig"}
    \cup (IF v.overwintered THEN {"expiryHeight"} ELSE {})
    \cup (IF HasSapling(v) THEN {"valueBalance", "spends", "outputs", "bindingSig"} ELSE {})
    \cup (IF HasTze(v) THEN {"tzeInputs", "tzeOutputs"} ELSE {})

\* A v5 transaction has one anchor for all its spends.
OneAnchor(tx) == \A i, j \in DOMAIN tx.spends : tx.spends[i].anchor = tx.spends[j].anchor
Reanchored(tx) == [tx EXCEPT !.spends = [i \in DOMAIN @ |-> [@[i] EXCEPT !.anchor = 99]]]

Variations(d) ==
    {[d EXCEPT !.data = tx] :
        tx \in {t \in {d.data, Reanchored(d.data)}
                      \cup UNION {VaryPart(d.data, part) : part \in Carried(d.data.version)} :
                 IsV5(t) => OneAnchor(t)}}
    \cup (IF ~IsV5(d.data) THEN {}
          ELSE {[d EXCEPT !.branchId = b] : b \in BranchIds}
               \cup {[d EXCEPT !.bundle = None]}
               \cup {[d EXCEPT !.bundle = <<b>>] : b \in
                       {[d.bundle[1] EXCEPT !.flags = @ + 1],
                        [d.bundle[1] EXCEPT !.valueBalance = @ + 1],
                        [d.bundle[1] EXCEPT !.anchor = @ + 1]}
                       \cup {[d.bundle[1] EXCEPT !.actions = as] : as \in VaryList(d.bundle[1].actions)}})

-----------------------------------------------------------------------------
Init ==
    /\ \E d \in Samples : data \in Variations(d)
    /\ wire = None /\ altered = FALSE /\ got = None

Send ==
    /\ wire = None
    /\ IsV5(data.data) \/ ~Unwritable(data.data)
    /\ wire' = <<Encoded(data)>>
    /\ UNCHANGED <<data, altered, got>>

\* One token replaced, or the stream cut short.
Alter ==
    /\ wire # None /\ ~altered /\ got = None /\ data \in Samples
    /\ altered' = TRUE
    /\ \E i \in DOMAIN wire[1] :
         \/ \E t \in {0, 1, 2, 253, NotCanonical} : wire' = <<[wire[1] EXCEPT ![i] = t]>>
         \/ wire' = <<SubSeq(wire[1], 1, i - 1)>>
    /\ UNCHANGED <<data, got>>

Receive ==
    /\ wire # None /\ got = None
    /\ got' = <<Read(wire[1])>>
    /\ UNCHANGED <<data, wire, altered>>

Next == Send \/ Alter \/ Receive
Spec == Init /\ [][Next]_vars

-----------------------------------------------------------------------------
(* Properties.                                                             *)

\* What the reader returns for d.
Value(d) ==
    [data |-> d.data,
     txid |-> IF IsV5(d.data) THEN TxIdOf(d.data, d.bundle, d.branchId) ELSE FrozenTxId(d.data)]

StartsWith(s, prefix) == Len(prefix) <= Len(s) /\ SubSeq(s, 1, Len(prefix)) = prefix
EndsWith(s, suffix) ==
    Len(suffix) <= Len(s) /\ SubSeq(s, Len(s) - Len(suffix) + 1, Len(s)) = suffix

\* What was written is read back, field by field, to the last byte.  Whatever
\* else the reader accepts up to v4 is the one encoding of what it returns, so
\* no altered byte goes unnoticed.  Of v5 this holds before and behind the
\* Orchard part; in it the bytes of the proof and of the signatures may be
\* altered unnoticed, for the reader drops them, but no byte of what the id
\* covers.
RoundTrip ==
    got # None =>
      /\ ~altered => got[1] = Ok(Value(data), << >>)
      /\ got[1].ok =>
           LET val == got[1].val
               tx == val.data
           IN  IF ~IsV5(tx) THEN wire[1] = Write(tx) \o got[1].rest
               ELSE /\ StartsWith(wire[1],
                         BeforeOrchard(tx, val.txid.branchId)
                         \o (IF val = Value(data) THEN OrchardV5(data.bundle) ELSE << >>))
                    /\ EndsWith(wire[1], AfterOrchard(tx) \o got[1].rest)

\* The effects a signature of a hash type commits to: signatures and
\* witnesses never; with NONE and SINGLE not the other outputs and
\* sequences, with ANYONECANPAY not the other inputs.
Signable(tx, hashType, input) ==
    LET base == BaseType(hashType)
        all == base \notin {SighashNone, SighashSingle}
        own == IF input.kind = "transparent" THEN input.index ELSE 0
        in(j) == [tx.vin[j] EXCEPT !.scriptSig = << >>,
                                   !.sequence = IF all \/ j = own THEN @ ELSE 0]
    IN  [tx EXCEPT
          !.vin = IF AnyoneCanPay(hashType)
                  THEN (IF own = 0 THEN << >> ELSE <<in(own)>>)
                  ELSE [j \in DOMAIN @ |-> in(j)],
          !.vout = IF all THEN @
                   ELSE IF base = SighashSingle /\ own \in DOMAIN @ THEN <<@[own]>> ELSE << >>,
          !.spends = [j \in DOMAIN @ |-> [@[j] EXCEPT !.spendAuthSig = None]],
          !.tzeInputs = [j \in DOMAIN @ |-> [@[j] EXCEPT !.payload = << >>]],
          !.joinsplitSig = None, !.bindingSig = None,
          !.joinsplitPubkey = IF tx.joinsplits = << >> THEN None ELSE @]

HashTypes == {SighashAll, SighashNone, SighashSingle, 129, 130, 131}

\* Two transactions have the same signature hash exactly when all that the
\* hash type commits to is the same: nothing that matters can be changed
\* under a signature, and adding the signatures does not change the hash.
SighashCommits ==
    wire = None /\ data.data.version.overwintered =>
      LET sample == CHOOSE d \in Samples : d.data.version = data.data.version
      IN  \A other \in Variations(sample), hashType \in HashTypes,
             input \in {ShieldedInput, TransparentInput(1, <<5>>, 7), TzeInput(1, <<5>>, 7)} :
            LET tx == data.data
                spends(t) == CASE input.kind = "transparent" -> t.vin # << >>
                               [] input.kind = "tze" -> t.tzeInputs # << >>
                               [] OTHER -> TRUE
                uses == spends(tx) /\ spends(other.data)
                signs == ~CannotSign(tx, input) /\ ~CannotSign(other.data, input)
            IN  uses /\ signs =>
                  (SignatureHash(tx, 1, hashType, input) = SignatureHash(other.data, 1, hashType, input))
                  <=> (Signable(tx, hashType, input) = Signable(other.data, hashType, input))

\* A v5 transaction id commits to everything but proofs and signatures: a
\* transaction cannot get a second id by having its witnesses changed, and
\* no two different effects share one.
Effects(d) ==
    [d EXCEPT !.data = [@ EXCEPT
       !.vin = [j \in DOMAIN @ |-> [@[j] EXCEPT !.scriptSig = << >>]],
       !.spends = [j \in DOMAIN @ |-> [@[j] EXCEPT !.zkproof = 0, !.spendAuthSig = None]],
       !.outputs = [j \in DOMAIN @ |-> [@[j] EXCEPT !.zkproof = 0]],
       !.tzeInputs = [j \in DOMAIN @ |-> [@[j] EXCEPT !.payload = << >>]],
       !.bindingSig = None]]
TxIdCommits ==
    wire = None /\ IsV5(data.data) =>
      LET sample == CHOOSE d \in Samples : d.data.version = data.data.version
      IN  \A other \in Variations(sample) :
            (TxIdOf(data.data, data.bundle, data.branchId)
               = TxIdOf(other.data, other.bundle, other.branchId))
            <=> (Effects(data) = Effects(other))
=============================================================================
