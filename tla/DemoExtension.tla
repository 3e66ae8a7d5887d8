----------------------------- MODULE DemoExtension -----------------------------
(***************************************************************************)
(* Transparent extensions: the payloads and the dispatch of extensions/    *)
(* transparent.rs of zcash_primitives, the epochs of zcash_extensions'     *)
(* consensus/transparent.rs and its demo program with its builder          *)
(* (transparent/demo.rs), on the TZE parts of a transaction.               *)
(***************************************************************************)
EXTENDS Integers, Sequences

CONSTANTS
  DemoId,        \* EXTENSION_DEMO: 0
  PayloadBytes   \* the length of a payload the demo takes: 32

Open == 0
Close == 1
Hash1(preimage, hash2) == <<"demo_pc_h1_perso", preimage, hash2>>
Hash2(preimage) == <<"demo_pc_h2_perso", preimage>>
Okay == "Ok"

\* A payload is a value and its length in bytes; 32 bytes are one value.
Payload(v) == [bytes |-> PayloadBytes, value |-> v]
ToPayload(extension, mode, v) ==
  [extension_id |-> extension, mode |-> mode, payload |-> Payload(v)]

\* from_payload, of preconditions and of witnesses.
FromPayload(mode, payload) ==
  CASE mode \notin {Open, Close} -> [ok |-> FALSE, error |-> "ModeInvalid"]
    [] mode \in {Open, Close} /\ payload.bytes # PayloadBytes ->
         [ok |-> FALSE, error |-> "IllegalPayloadLength"]
    [] OTHER -> [ok |-> TRUE, mode |-> mode, value |-> payload.value]

IsTzeOnly(tx) == tx.others = 0

\* Mutant: the first output is taken, whatever follows it.
MutantVerifyInner(precondition, witness, tx) ==
  LET out == FromPayload(tx.tzeOutputs[1].precondition.mode,
                         tx.tzeOutputs[1].precondition.payload) IN
  CASE precondition.mode # witness.mode -> "ModeMismatch"
    [] precondition.mode = Open /\ witness.mode = Open ->
         IF ~IsTzeOnly(tx) THEN "NonTzeTxn"
         ELSE IF Len(tx.tzeOutputs) = 0 THEN "InvalidOutputQty"
         ELSE IF ~out.ok THEN out.error
         ELSE IF out.mode = Open THEN "ExpectedClose"
         ELSE IF Hash1(witness.value, out.value) = precondition.value THEN Okay
         ELSE "HashMismatch"
    [] OTHER -> IF Hash2(witness.value) = precondition.value THEN Okay ELSE "HashMismatch"

\* Program::verify_inner
VerifyInner(precondition, witness, tx) ==
  LET out == FromPayload(tx.tzeOutputs[1].precondition.mode,
                         tx.tzeOutputs[1].precondition.payload) IN
  CASE precondition.mode # witness.mode -> "ModeMismatch"
    [] precondition.mode = Open /\ witness.mode = Open ->
         IF ~IsTzeOnly(tx) THEN "NonTzeTxn"
         ELSE IF Len(tx.tzeOutputs) # 1 THEN "InvalidOutputQty"
         ELSE IF ~out.ok THEN out.error
         ELSE IF out.mode = Open THEN "ExpectedClose"
         ELSE IF Hash1(witness.value, out.value) = precondition.value THEN Okay
         ELSE "HashMismatch"
    [] OTHER -> IF Hash2(witness.value) = precondition.value THEN Okay ELSE "HashMismatch"

\* Extension::verify
VerifyProgram(precondition, witness, tx) ==
  LET p == FromPayload(precondition.mode, precondition.payload)
      w == FromPayload(witness.mode, witness.payload) IN
  IF ~p.ok THEN p.error ELSE IF ~w.ok THEN w.error ELSE VerifyInner(p, w, tx)

\* EpochVTest::verify
VerifyEpoch(precondition, witness, tx) ==
  IF precondition.extension_id # DemoId THEN "InvalidExtensionId"
  ELSE VerifyProgram(precondition, witness, tx)
\* epoch_for_branch: the one branch with extensions.
HasEpoch(branch) == branch = "ZFuture"

-----------------------------------------------------------------------------
(* The builder.  A transaction under construction is its inputs (the coin  *)
(* spent and the witness made for it), its outputs and the number of its   *)
(* parts that are no TZE.                                                  *)

\* Neither call looks at the coin's own extension or mode.
AddTzeInput(tx, extension, mode, coin, preimage) ==
  [result |-> Okay,
   tx |-> [tx EXCEPT !.tzeInputs = Append(@,
             [coin |-> coin, witness |-> ToPayload(extension, mode, preimage)])]]
AddTzeOutput(tx, extension, value, mode, v) ==
  IF value < 0 THEN [result |-> "InvalidAmount", tx |-> tx]
  ELSE [result |-> Okay,
        tx |-> [tx EXCEPT !.tzeOutputs = Append(@,
                  [value |-> value, precondition |-> ToPayload(extension, mode, v)])]]

DemoOpen(tx, extension, value, hash1) == AddTzeOutput(tx, extension, value, Open, hash1)

\* demo_transfer_to_close: the input stays when the output is refused.
DemoTransferToClose(tx, extension, coin, value, preimage1, hash2) ==
  LET p == FromPayload(coin.precondition.mode, coin.precondition.payload)
      in == AddTzeInput(tx, extension, Open, coin, preimage1) IN
  IF ~p.ok THEN [result |-> "PrevoutParseFailure", tx |-> tx]
  ELSE IF p.mode = Close THEN [result |-> "ExpectedOpen", tx |-> tx]
  ELSE IF p.value # Hash1(preimage1, hash2) THEN [result |-> "TransferMismatch", tx |-> tx]
  ELSE AddTzeOutput(in.tx, extension, value, Close, hash2)

DemoClose(tx, extension, coin, preimage2) ==
  LET p == FromPayload(coin.precondition.mode, coin.precondition.payload) IN
  IF ~p.ok THEN [result |-> "PrevoutParseFailure", tx |-> tx]
  ELSE IF p.mode = Open THEN [result |-> "ExpectedClose", tx |-> tx]
  ELSE IF p.value # Hash2(preimage2) THEN [result |-> "CloseMismatch", tx |-> tx]
  ELSE AddTzeInput(tx, extension, Close, coin, preimage2)
=============================================================================
