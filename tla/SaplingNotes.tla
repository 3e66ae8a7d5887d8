------------------------------ MODULE SaplingNotes ------------------------------
(***************************************************************************)
(* Sapling notes and their in-band encryption: Note of sapling.rs, the     *)
(* Domain and NoteEncryption of zcash_note_encryption, SaplingDomain of    *)
(* sapling/note_encryption.rs, and decrypt_transaction of                  *)
(* zcash_client_backend/src/decrypt.rs.                                    *)
(*                                                                         *)
(* AEAD and stream ciphers are free constructors over their key: opening   *)
(* under another key fails, and the stream cipher yields an arbitrary      *)
(* plaintext (Garbage) instead.                                            *)
(***************************************************************************)
EXTENDS SaplingKeys

CONSTANTS
  GracePeriod,   \* ZIP212_GRACE_PERIOD
  MaxMoney,
  Garbage        \* the plaintexts a stream cipher yields under a wrong key

VARIABLE canopy  \* the network's activation height of Canopy; 0: none is set

-----------------------------------------------------------------------------
(* Notes *)

IsCanopyActive(height) == canopy # 0 /\ canopy <= height

\* Rseed: BeforeZip212 holds rcm itself, AfterZip212 what rcm and esk expand
\* from.
NewRseed(height, random) ==
  [zip212 |-> IsCanopyActive(height), r |-> random]

CreateNote(to, value, rseed) ==
  IF GD(to.d) = None THEN None
  ELSE <<[value |-> value, gd |-> GD(to.d)[1], pkd |-> to.pkd, rseed |-> rseed]>>

Rcm(note) ==
  IF note.rseed.zip212 THEN Scalar(PrfExpand(note.rseed.r, 4, << >>))
  ELSE Scalar(note.rseed.r)

DeriveEsk(note) ==
  IF note.rseed.zip212 THEN <<Scalar(PrfExpand(note.rseed.r, 5, << >>))>>
  ELSE None

\* A commitment binds the contents and rcm; its u-coordinate is injective.
Commitment(note) == <<note.value, note.gd, note.pkd, Rcm(note)>>
Cmu(note) == Commitment(note)

\* Mutant: the position is left out of rho.
MutantNullifier(note, fvk, position) ==
  <<fvk.nk, [cm |-> Commitment(note), at |-> 0]>>

\* The position enters rho, so equal notes have different nullifiers.
Nullifier(note, fvk, position) ==
  <<fvk.nk, [cm |-> Commitment(note), at |-> position]>>

ValueCommitment(value, rcv) == <<value, rcv>>

-----------------------------------------------------------------------------
(* Key agreement and keys *)

KaAgree(secret, point) == Times(point, secret)
KaDerivePublic(note, esk) == Times(note.gd, esk)
Kdf(shared, epk) == <<"kdf", shared, epk>>
PrfOck(ovk, cv, cmu, epk) == <<"ock", ovk, cv, cmu, epk>>

Seal(key, plaintext) == [key |-> key, plain |-> plaintext]
Open(key, sealed) == IF sealed.key = key THEN <<sealed.plain>> ELSE None

-----------------------------------------------------------------------------
(* Encryption *)

NotePlaintext(note, to, memo) ==
  [lead |-> IF note.rseed.zip212 THEN 2 ELSE 1,
   d |-> to.d, value |-> note.value, r |-> note.rseed.r, memo |-> memo]
\* Mutant: rcm is written where esk belongs.
MutantOutPlaintext(note, esk) == [pkd |-> note.pkd, esk |-> Rcm(note)]

OutPlaintext(note, esk) == [pkd |-> note.pkd, esk |-> esk]

\* generate_or_derive_esk_internal: a random esk before ZIP 212.
GenerateOrDeriveEsk(note, random) ==
  IF DeriveEsk(note) = None THEN Scalar(random) ELSE DeriveEsk(note)[1]

\* NoteEncryption::new_with_esk, encrypt_note_plaintext and
\* encrypt_outgoing_plaintext: without an ovk the outgoing ciphertext holds
\* random bytes under a random key.
EncryptNote(ovk, note, to, memo, esk, cv, random) ==
  LET epk == KaDerivePublic(note, esk) IN
  [cv |-> cv, cmu |-> Cmu(note), epk |-> epk,
   enc |-> Seal(Kdf(KaAgree(esk, note.pkd), epk), NotePlaintext(note, to, memo)),
   out |-> IF ovk = None
           THEN Seal(<<"random", random>>,
                     [pkd |-> Generator("random"), esk |-> Scalar(random)])
           ELSE Seal(PrfOck(ovk[1], cv, Cmu(note), epk), OutPlaintext(note, esk))]

-----------------------------------------------------------------------------
(* Decryption *)

\* Mutant: no grace period.
MutantVersionIsValid(height, lead) ==
  lead = IF IsCanopyActive(height) THEN 2 ELSE 1

VersionIsValid(height, lead) ==
  IF IsCanopyActive(height)
  THEN IF height < canopy + GracePeriod THEN lead \in {1, 2} ELSE lead = 2
  ELSE lead = 1

\* sapling_parse_note_plaintext_without_memo, given the pk_d its callers
\* derive from the diversifier, if it has a point.
ParsePlaintext(height, p, pkd) ==
  IF \/ ~VersionIsValid(height, p.lead)
     \/ p.value > MaxMoney
     \/ GD(p.d) = None
     \/ pkd = None
     \/ AddressFromParts(p.d, pkd[1]) = None
  THEN None
  ELSE LET to == AddressFromParts(p.d, pkd[1])[1]
           rseed == [zip212 |-> p.lead # 1, r |-> p.r] IN
       <<[note |-> CreateNote(to, p.value, rseed)[1], to |-> to]>>

\* check_note_validity: the published commitment is the note's and, after
\* ZIP 212, the published epk is the one its rseed derives.
CheckEpk(note, epk) ==
  DeriveEsk(note) # None => KaDerivePublic(note, DeriveEsk(note)[1]) = epk
IsValidNote(note, output) ==
  Cmu(note) = output.cmu /\ CheckEpk(note, output.epk)

ParseWithIvk(height, ivk, output, p) ==
  LET pkd == IF GD(p.d) = None THEN None ELSE <<Times(GD(p.d)[1], ivk)>>
      parsed == ParsePlaintext(height, p, pkd) IN
  IF parsed = None \/ ~IsValidNote(parsed[1].note, output) THEN None
  ELSE parsed

IvkKey(ivk, output) == Kdf(KaAgree(ivk, output.epk), output.epk)

TryNoteDecryption(height, ivk, output) ==
  LET p == Open(IvkKey(ivk, output), output.enc)
      parsed == IF p = None THEN None ELSE ParseWithIvk(height, ivk, output, p[1]) IN
  IF parsed = None THEN None
  ELSE <<[note |-> parsed[1].note, to |-> parsed[1].to, memo |-> p[1].memo]>>

\* What ChaCha20 without its tag may yield for the first 52 bytes.
StreamPlaintexts(key, sealed) ==
  IF sealed.key = key THEN {sealed.plain} ELSE Garbage

TryCompactNoteDecryption(height, ivk, output, p) ==
  ParseWithIvk(height, ivk, output, p)

\* extract_pk_d: a point of the prime-order subgroup.
ExtractPkd(op) == IF op.pkd.base = <<"small">> THEN None ELSE <<op.pkd>>

\* The pk_d of the outgoing plaintext, if its esk made the published epk.
ParseWithOvk(height, op, output, p) ==
  LET made == GD(p.d) # None /\ Times(GD(p.d)[1], op.esk) = output.epk IN
  ParsePlaintext(height, p, IF made THEN <<op.pkd>> ELSE None)

\* try_output_recovery_with_ock: pk_d and esk come from the outgoing
\* plaintext, and esk must produce the published epk.
TryRecoveryWithOck(height, ock, output) ==
  LET op == Open(ock, output.out)
      key == Kdf(KaAgree(op[1].esk, op[1].pkd), output.epk)
      p == IF op = None \/ ExtractPkd(op[1]) = None THEN None ELSE Open(key, output.enc)
      parsed == IF p = None THEN None ELSE ParseWithOvk(height, op[1], output, p[1]) IN
  IF parsed = None \/ ~IsValidNote(parsed[1].note, output) THEN None
  ELSE <<[note |-> parsed[1].note, to |-> parsed[1].to, memo |-> p[1].memo]>>

TryOutputRecovery(height, ovk, output) ==
  TryRecoveryWithOck(height, PrfOck(ovk, output.cv, output.cmu, output.epk), output)

\* decrypt_transaction: every account tries every output, as its recipient
\* first and as its sender otherwise.  keys maps an account to its viewing key.
DecryptTransaction(height, outputs, keys) ==
  LET tries == (1 .. Len(outputs)) \X DOMAIN keys
      Received(t) == TryNoteDecryption(height, Ivk(keys[t[2]]), outputs[t[1]])
      Recovered(t) == TryOutputRecovery(height, keys[t[2]].ovk, outputs[t[1]]) IN
  {[index |-> t[1], account |-> t[2], outgoing |-> FALSE, found |-> Received(t)[1]] :
     t \in {t \in tries : Received(t) # None}}
  \cup
  {[index |-> t[1], account |-> t[2], outgoing |-> TRUE, found |-> Recovered(t)[1]] :
     t \in {t \in tries : Received(t) = None /\ Recovered(t) # None}}
=============================================================================
