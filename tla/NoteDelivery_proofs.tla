-------------------------- MODULE NoteDelivery_proofs --------------------------
(* Proofs about the delivery of notes, for every network, every set of        *)
(* accounts and diversifiers, whatever a stream cipher yields under a wrong   *)
(* key and whatever the server exchanges.                                     *)
EXTENDS NoteDelivery, SequenceTheorems, TLAPS

----------------------------------------------------------------------------
(* What hashes, key agreement and encryption bind.                            *)

LEMMA ScalarInjective ==
  ASSUME NEW x, NEW y, Scalar(x) = Scalar(y)
  PROVE  x = y
  BY DEF Scalar, SetToBag

LEMMA OneElement ==
  ASSUME NEW x
  PROVE  <<x>> # None /\ <<x>>[1] = x
  BY DEF None

\* The secret key of an account, and what it expands to.
Secret(a) == <<"left", <<"master", <<"seed", a>>>>>>
Expanded(a, tag) == PrfExpand(Secret(a), tag, << >>)

LEMMA ExpandInjective ==
  ASSUME NEW a, NEW b, NEW tag, Expanded(a, tag) = Expanded(b, tag)
  PROVE  a = b
  BY DEF Expanded, PrfExpand, Secret

LEMMA TimesGenerator ==
  ASSUME NEW d, NEW s, NEW t
  PROVE  /\ Times(Generator(d), s) = [base |-> <<d>>, by |-> {s}]
         /\ Times(Times(Generator(d), s), t) = [base |-> <<d>>, by |-> {s, t}]
<1>1. Times(Generator(d), s) = [base |-> <<d>>, by |-> {s}]
  BY DEF Times, Generator
<1>2. Times([base |-> <<d>>, by |-> {s}], t) = [base |-> <<d>>, by |-> {s} \cup {t}]
  BY DEF Times
<1>3. {s} \cup {t} = {s, t}
  OBVIOUS
<1> QED BY <1>1, <1>2, <1>3

LEMMA KeyFields ==
  ASSUME NEW a
  PROVE  /\ Key(a).nk = Times(ProofGenerator, Scalar(Expanded(a, 1)))
         /\ Key(a).ovk = Expanded(a, 2)
  BY DEF Key, ToFvk, MasterKey, FullViewingKey, ExpandedSpendingKey, Expanded, Secret

\* An account is told by its nullifier key, its outgoing viewing key and its
\* incoming viewing key.
LEMMA KeysTellAccounts ==
  ASSUME NEW a, NEW b
  PROVE  /\ Key(a).nk = Key(b).nk => a = b
         /\ Key(a).ovk = Key(b).ovk => a = b
         /\ Ivk(Key(a)) = Ivk(Key(b)) => a = b
<1>1. ASSUME Key(a).nk = Key(b).nk PROVE a = b
  <2>1. [base |-> <<"proof">>, by |-> {Scalar(Expanded(a, 1))}]
          = [base |-> <<"proof">>, by |-> {Scalar(Expanded(b, 1))}]
    BY <1>1, KeyFields, TimesGenerator DEF ProofGenerator
  <2>2. {Scalar(Expanded(a, 1))} = {Scalar(Expanded(b, 1))}
    BY <2>1
  <2> QED BY <2>2, ScalarInjective, ExpandInjective
<1>2. ASSUME Key(a).ovk = Key(b).ovk PROVE a = b
  <2>1. Expanded(a, 2) = Expanded(b, 2)
    BY <1>2, KeyFields
  <2> QED BY <2>1, ExpandInjective
<1>3. ASSUME Ivk(Key(a)) = Ivk(Key(b)) PROVE a = b
  <2>1. <<"ivk", Key(a).ak, Key(a).nk>> = <<"ivk", Key(b).ak, Key(b).nk>>
    BY <1>3, ScalarInjective DEF Ivk
  <2> QED BY <2>1, <1>1
<1> QED BY <1>1, <1>2, <1>3

\* The transmission key of account a for diversifier d.
Pkd(a, d) == [base |-> <<d>>, by |-> {Ivk(Key(a))}]

LEMMA Address ==
  ASSUME NEW a, NEW d, d \notin BadDiversifiers
  PROVE  /\ GD(d) # None /\ GD(d)[1] = Generator(d)
         /\ Times(GD(d)[1], Ivk(Key(a))) = Pkd(a, d)
         /\ AddressFromParts(d, Pkd(a, d)) # None
         /\ AddressFromParts(d, Pkd(a, d))[1] = [d |-> d, pkd |-> Pkd(a, d)]
         /\ AddressOf(a, d) = [d |-> d, pkd |-> Pkd(a, d)]
<1>1. GD(d) # None /\ GD(d)[1] = Generator(d)
  BY OneElement DEF GD
<1>2. Times(GD(d)[1], Ivk(Key(a))) = Pkd(a, d)
  BY <1>1, TimesGenerator DEF Pkd
<1>3. Pkd(a, d) # Identity
  BY DEF Pkd, Identity
<1>4. AddressFromParts(d, Pkd(a, d)) = <<[d |-> d, pkd |-> Pkd(a, d)]>>
  BY <1>3 DEF AddressFromParts
<1> QED BY <1>1, <1>2, <1>4, OneElement DEF AddressOf, ToPaymentAddress
----------------------------------------------------------------------------
(* What a sender puts into an output.                                         *)

NoteOf(a, d, value, rseed) ==
  [value |-> value, gd |-> Generator(d), pkd |-> Pkd(a, d), rseed |-> rseed]

\* The output seals the note to its recipient, and what is needed to recover it
\* to its sender if that is one of the accounts.
Seals(tx, d) ==
  /\ tx.to \in Owners /\ tx.from \in Payers \cup {Outsider}
  /\ tx.note = NoteOf(tx.to, d, tx.note.value, tx.note.rseed)
  /\ tx.note.rseed = [zip212 |-> tx.note.rseed.zip212, r |-> tx.note.rseed.r]
  /\ tx.note.rseed.zip212 \in BOOLEAN
  /\ tx.note.value \in {1, MaxMoney + 1}
  /\ tx.output = [cv |-> tx.output.cv, cmu |-> Cmu(tx.note), epk |-> tx.output.epk,
                  enc |-> Seal(IvkKey(Ivk(Key(tx.to)), tx.output),
                               NotePlaintext(tx.note, [d |-> d], tx.memo)),
                  out |-> tx.output.out]
  /\ IF tx.from = Outsider THEN tx.output.out.key[1] = "random"
     ELSE /\ tx.honest
          /\ tx.output.out.key
               = PrfOck(Key(tx.from).ovk, tx.output.cv, tx.output.cmu, tx.output.epk)
          /\ tx.output.out.plain.pkd = Pkd(tx.to, d)
          /\ Times(Generator(d), tx.output.out.plain.esk) = tx.output.epk

Sealed(tx) == \E d \in Diversifiers \ BadDiversifiers : Seals(tx, d)

LEMMA Created ==
  ASSUME NEW a, NEW d, d \notin BadDiversifiers, NEW value, NEW rseed
  PROVE  CreateNote(AddressOf(a, d), value, rseed)[1] = NoteOf(a, d, value, rseed)
<1>1. /\ AddressOf(a, d) = [d |-> d, pkd |-> Pkd(a, d)]
      /\ GD(d) # None /\ GD(d)[1] = Generator(d)
  BY Address
<1>2. AddressOf(a, d).d = d /\ AddressOf(a, d).pkd = Pkd(a, d)
  BY <1>1
<1> QED BY <1>1, <1>2, OneElement DEF CreateNote, NoteOf

\* Both sides agree on the key of the note ciphertext.
LEMMA KeyAgreement ==
  ASSUME NEW a, NEW d, NEW esk
  PROVE  KaAgree(esk, Pkd(a, d)) = KaAgree(Ivk(Key(a)), Times(Generator(d), esk))
<1>1. Pkd(a, d) = Times(Generator(d), Ivk(Key(a)))
  BY TimesGenerator DEF Pkd
<1>2. /\ KaAgree(esk, Pkd(a, d)) = [base |-> <<d>>, by |-> {Ivk(Key(a)), esk}]
      /\ KaAgree(Ivk(Key(a)), Times(Generator(d), esk))
           = [base |-> <<d>>, by |-> {esk, Ivk(Key(a))}]
  BY <1>1, TimesGenerator DEF KaAgree
<1>3. {Ivk(Key(a)), esk} = {esk, Ivk(Key(a))}
  OBVIOUS
<1> QED BY <1>2, <1>3

LEMMA Encrypted ==
  ASSUME NEW a, NEW d, d \notin BadDiversifiers, NEW value, NEW rseed, NEW memo,
         NEW esk, NEW ovk, NEW cv, NEW random, NEW o,
         o = EncryptNote(ovk, NoteOf(a, d, value, rseed), AddressOf(a, d), memo, esk, cv,
                         random)
  PROVE  /\ o = [cv |-> o.cv, cmu |-> Cmu(NoteOf(a, d, value, rseed)), epk |-> o.epk,
                 enc |-> Seal(IvkKey(Ivk(Key(a)), o),
                              NotePlaintext(NoteOf(a, d, value, rseed), [d |-> d], memo)),
                 out |-> o.out]
         /\ o.epk = Times(Generator(d), esk)
         /\ ovk = None => o.out.key[1] = "random"
         /\ ovk # None =>
              /\ o.out.key = PrfOck(ovk[1], o.cv, o.cmu, o.epk)
              /\ o.out.plain.pkd = Pkd(a, d) /\ o.out.plain.esk = esk
<1> DEFINE note == NoteOf(a, d, value, rseed)
           epk == KaDerivePublic(note, esk)
<1>0. AddressOf(a, d) = [d |-> d, pkd |-> Pkd(a, d)]
  BY Address
<1>1. AddressOf(a, d).d = d
  BY <1>0
<1>2. note.gd = Generator(d) /\ note.pkd = Pkd(a, d)
  BY DEF NoteOf
<1>3. epk = Times(Generator(d), esk)
  BY <1>2 DEF KaDerivePublic
<1>4. NotePlaintext(note, AddressOf(a, d), memo) = NotePlaintext(note, [d |-> d], memo)
  BY <1>1 DEF NotePlaintext
<1> HIDE DEF note, epk
<1>5. o = [cv |-> cv, cmu |-> Cmu(note), epk |-> epk,
           enc |-> Seal(Kdf(KaAgree(esk, note.pkd), epk),
                        NotePlaintext(note, AddressOf(a, d), memo)),
           out |-> IF ovk = None
                   THEN Seal(<<"random", random>>,
                             [pkd |-> Generator("random"), esk |-> Scalar(random)])
                   ELSE Seal(PrfOck(ovk[1], cv, Cmu(note), epk), OutPlaintext(note, esk))]
  BY DEF EncryptNote, note, epk
<1>6. IvkKey(Ivk(Key(a)), o) = Kdf(KaAgree(esk, note.pkd), epk)
  <2>1. o.epk = epk
    BY <1>5
  <2> QED BY <2>1, <1>2, <1>3, KeyAgreement DEF IvkKey
<1>7. /\ o.cv = cv /\ o.cmu = Cmu(note) /\ o.epk = epk
      /\ o = [cv |-> o.cv, cmu |-> Cmu(note), epk |-> o.epk,
              enc |-> Seal(IvkKey(Ivk(Key(a)), o), NotePlaintext(note, [d |-> d], memo)),
              out |-> o.out]
  BY <1>4, <1>5, <1>6
<1>8. ASSUME ovk = None PROVE o.out.key[1] = "random"
  <2>1. o.out = Seal(<<"random", random>>, [pkd |-> Generator("random"), esk |-> Scalar(random)])
    BY <1>5, <1>8
  <2> QED BY <2>1 DEF Seal
<1>9. ASSUME ovk # None
      PROVE  /\ o.out.key = PrfOck(ovk[1], o.cv, o.cmu, o.epk)
             /\ o.out.plain.pkd = Pkd(a, d) /\ o.out.plain.esk = esk
  <2>1. o.out = Seal(PrfOck(ovk[1], cv, Cmu(note), epk), OutPlaintext(note, esk))
    BY <1>5, <1>9
  <2> QED BY <2>1, <1>2, <1>7 DEF Seal, OutPlaintext
<1> QED BY <1>3, <1>7, <1>8, <1>9 DEF note

----------------------------------------------------------------------------
(* What a reader makes of it.                                                 *)

\* A reader accepts the note of a transaction at a height.
Readable(tx, at) ==
  /\ VersionIsValid(at, IF tx.note.rseed.zip212 THEN 2 ELSE 1)
  /\ ~(tx.note.value > MaxMoney)
  /\ CheckEpk(tx.note, tx.output.epk)

\* The note that account a makes of a plaintext.
NoteFrom(a, p) == NoteOf(a, p.d, p.value, [zip212 |-> p.lead # 1, r |-> p.r])

LEMMA Parsed ==
  ASSUME NEW a, NEW p, NEW at, p.d \notin BadDiversifiers
  PROVE  ParsePlaintext(at, p, <<Pkd(a, p.d)>>)
           = IF VersionIsValid(at, p.lead) /\ ~(p.value > MaxMoney)
             THEN <<[note |-> NoteFrom(a, p), to |-> [d |-> p.d, pkd |-> Pkd(a, p.d)]]>>
             ELSE None
<1> DEFINE d == p.d
           to == AddressFromParts(d, <<Pkd(a, d)>>[1])[1]
<1>1. /\ <<Pkd(a, d)>> # None /\ <<Pkd(a, d)>>[1] = Pkd(a, d)
      /\ GD(d) # None /\ AddressFromParts(d, <<Pkd(a, d)>>[1]) # None
      /\ to = [d |-> d, pkd |-> Pkd(a, d)] /\ to = AddressOf(a, d)
  BY Address, OneElement
<1>2. CreateNote(to, p.value, [zip212 |-> p.lead # 1, r |-> p.r])[1] = NoteFrom(a, p)
  BY <1>1, Created DEF NoteFrom
<1> QED BY <1>1, <1>2 DEF ParsePlaintext

\* What account a reads in an output whose plaintext is p.
LEMMA ParsedByAccount ==
  ASSUME NEW a, NEW p, NEW at, NEW o
  PROVE  ParseWithIvk(at, Ivk(Key(a)), o, p)
           = IF /\ p.d \notin BadDiversifiers
                /\ VersionIsValid(at, p.lead) /\ ~(p.value > MaxMoney)
                /\ IsValidNote(NoteFrom(a, p), o)
             THEN <<[note |-> NoteFrom(a, p), to |-> [d |-> p.d, pkd |-> Pkd(a, p.d)]]>>
             ELSE None
<1>1. CASE p.d \in BadDiversifiers
  BY <1>1 DEF ParseWithIvk, ParsePlaintext, GD
<1>2. CASE p.d \notin BadDiversifiers
  <2>1. GD(p.d) # None /\ Times(GD(p.d)[1], Ivk(Key(a))) = Pkd(a, p.d)
    BY <1>2, Address
  <2>2. ParseWithIvk(at, Ivk(Key(a)), o, p)
          = LET parsed == ParsePlaintext(at, p, <<Pkd(a, p.d)>>) IN
            IF parsed = None \/ ~IsValidNote(parsed[1].note, o) THEN None ELSE parsed
    BY <2>1 DEF ParseWithIvk
  <2>3. <<[note |-> NoteFrom(a, p), to |-> [d |-> p.d, pkd |-> Pkd(a, p.d)]]>>[1].note
          = NoteFrom(a, p)
    OBVIOUS
  <2> QED BY <1>2, <2>2, <2>3, Parsed, OneElement
<1> QED BY <1>1, <1>2

\* An output whose commitment is that of a note is read by nobody but the
\* recipient of that note, and for its value, whatever else it holds.
LEMMA RecipientOnly ==
  ASSUME NEW tx, Sealed(tx), NEW a, NEW p, NEW at, NEW o, o.cmu = Cmu(tx.note),
         ParseWithIvk(at, Ivk(Key(a)), o, p) # None
  PROVE  LET read == ParseWithIvk(at, Ivk(Key(a)), o, p)[1].note IN
         /\ a = tx.to /\ Cmu(read) = Cmu(tx.note)
         /\ read.value \in {1, MaxMoney + 1} /\ ~(read.value > MaxMoney)
<1> DEFINE note == ParseWithIvk(at, Ivk(Key(a)), o, p)[1].note
<1>1. PICK d \in Diversifiers \ BadDiversifiers : Seals(tx, d)
  BY DEF Sealed
<1>2. /\ note = NoteFrom(a, p) /\ IsValidNote(NoteFrom(a, p), o) /\ ~(p.value > MaxMoney)
  BY ParsedByAccount, OneElement
<1>3. Cmu(note) = Cmu(tx.note)
  BY <1>2 DEF IsValidNote
<1>4. /\ note.value = p.value /\ note.pkd = Pkd(a, p.d)
  BY <1>2 DEF NoteFrom, NoteOf
<1>5. tx.note.pkd = Pkd(tx.to, d) /\ tx.note.value \in {1, MaxMoney + 1}
  BY <1>1 DEF Seals, NoteOf
<1>6. note.value = tx.note.value /\ note.pkd = tx.note.pkd
  BY <1>3 DEF Cmu, Commitment
<1>7. Ivk(Key(a)) = Ivk(Key(tx.to))
  BY <1>4, <1>5, <1>6 DEF Pkd
<1> QED BY <1>2, <1>3, <1>4, <1>5, <1>6, <1>7, KeysTellAccounts
\* The recipient reads the very note, wherever it is readable.
LEMMA RecipientReads ==
  ASSUME NEW tx, NEW d \in Diversifiers \ BadDiversifiers, Seals(tx, d), NEW at
  PROVE  ParseWithIvk(at, Ivk(Key(tx.to)), tx.output, tx.output.enc.plain)
           = IF Readable(tx, at)
             THEN <<[note |-> tx.note, to |-> [d |-> d, pkd |-> Pkd(tx.to, d)]]>>
             ELSE None
<1> DEFINE p == tx.output.enc.plain
<1>1. /\ tx.output.cmu = Cmu(tx.note)
      /\ tx.output.enc = Seal(IvkKey(Ivk(Key(tx.to)), tx.output),
                              NotePlaintext(tx.note, [d |-> d], tx.memo))
  BY DEF Seals
<1>2. p = NotePlaintext(tx.note, [d |-> d], tx.memo)
  BY <1>1 DEF Seal
<1>3. /\ p.lead = IF tx.note.rseed.zip212 THEN 2 ELSE 1
      /\ p.d = d /\ p.value = tx.note.value /\ p.r = tx.note.rseed.r
  BY <1>2 DEF NotePlaintext
<1> HIDE DEF p
<1>4. (p.lead # 1) = tx.note.rseed.zip212
  BY <1>3 DEF Seals
<1>5. [zip212 |-> p.lead # 1, r |-> p.r] = tx.note.rseed
  BY <1>3, <1>4 DEF Seals
<1>6. NoteFrom(tx.to, p) = tx.note
  BY <1>3, <1>5 DEF NoteFrom, Seals
<1>7. IsValidNote(tx.note, tx.output) <=> CheckEpk(tx.note, tx.output.epk)
  BY <1>1 DEF IsValidNote
<1>8. ParseWithIvk(at, Ivk(Key(tx.to)), tx.output, p)
        = IF /\ VersionIsValid(at, p.lead) /\ ~(p.value > MaxMoney)
             /\ IsValidNote(tx.note, tx.output)
          THEN <<[note |-> tx.note, to |-> [d |-> d, pkd |-> Pkd(tx.to, d)]]>>
          ELSE None
  BY <1>3, <1>6, ParsedByAccount
<1> QED BY <1>3, <1>7, <1>8 DEF Readable, p

\* The scan of a compact output that nobody altered, whatever the stream cipher
\* yields to the others.
LEMMA ScanReads ==
  ASSUME NEW tx, Sealed(tx), NEW a, NEW at, NEW p,
         p \in StreamPlaintexts(IvkKey(Ivk(Key(a)), tx.output), tx.output.enc)
  PROVE  LET read == ParseWithIvk(at, Ivk(Key(a)), tx.output, p) IN
         IF a = tx.to /\ Readable(tx, at)
         THEN read # None /\ read[1].note = tx.note
         ELSE read = None
<1> DEFINE try == ParseWithIvk(at, Ivk(Key(a)), tx.output, p)
<1>1. PICK d \in Diversifiers \ BadDiversifiers : Seals(tx, d)
  BY DEF Sealed
<1>2. tx.output.cmu = Cmu(tx.note)
  BY <1>1 DEF Seals
<1>3. CASE a # tx.to
  BY <1>2, <1>3, RecipientOnly
<1>4. CASE a = tx.to
  <2>1. tx.output.enc = Seal(IvkKey(Ivk(Key(a)), tx.output),
                             NotePlaintext(tx.note, [d |-> d], tx.memo))
    BY <1>1, <1>4 DEF Seals
  <2>2. tx.output.enc.key = IvkKey(Ivk(Key(a)), tx.output)
    BY <2>1 DEF Seal
  <2>3. p = tx.output.enc.plain
    BY <2>2 DEF StreamPlaintexts
  <2>4. try = IF Readable(tx, at)
              THEN <<[note |-> tx.note, to |-> [d |-> d, pkd |-> Pkd(tx.to, d)]]>>
              ELSE None
    BY <1>1, <1>4, <2>3, RecipientReads
  <2>5. <<[note |-> tx.note, to |-> [d |-> d, pkd |-> Pkd(tx.to, d)]]>>[1].note = tx.note
    OBVIOUS
  <2> QED BY <1>4, <2>4, <2>5, OneElement
<1> QED BY <1>3, <1>4

\* The full decryption by an account's incoming key.
LEMMA TriesRead ==
  ASSUME NEW tx, Sealed(tx), NEW a, NEW at
  PROVE  LET read == TryNoteDecryption(at, Ivk(Key(a)), tx.output) IN
         IF a = tx.to /\ Readable(tx, at)
         THEN read # None /\ read[1].note = tx.note
         ELSE read = None
<1> DEFINE key == IvkKey(Ivk(Key(a)), tx.output)
           p == tx.output.enc.plain
           try == TryNoteDecryption(at, Ivk(Key(a)), tx.output)
           parsed == ParseWithIvk(at, Ivk(Key(a)), tx.output, p)
<1>1. PICK d \in Diversifiers \ BadDiversifiers : Seals(tx, d)
  BY DEF Sealed
<1>2. a = tx.to => tx.output.enc.key = key
  <2>1. tx.output.enc = Seal(IvkKey(Ivk(Key(tx.to)), tx.output),
                             NotePlaintext(tx.note, [d |-> d], tx.memo))
    BY <1>1 DEF Seals
  <2> QED BY <2>1 DEF Seal
<1>3. CASE tx.output.enc.key = key
  <2>1. Open(key, tx.output.enc) # None /\ Open(key, tx.output.enc)[1] = p
    BY <1>3, OneElement DEF Open
  <2>2. try = IF parsed = None THEN None
              ELSE <<[note |-> parsed[1].note, to |-> parsed[1].to, memo |-> p.memo]>>
    BY <2>1, Zenon DEF TryNoteDecryption
  <2>3. p \in StreamPlaintexts(key, tx.output.enc)
    BY <1>3 DEF StreamPlaintexts
  <2>4. /\ parsed # None <=> a = tx.to /\ Readable(tx, at)
        /\ parsed # None => parsed[1].note = tx.note
    <3> HIDE DEF p, key, try
    <3>1. p \in StreamPlaintexts(IvkKey(Ivk(Key(a)), tx.output), tx.output.enc)
      BY <2>3 DEF key
    <3>2. IF a = tx.to /\ Readable(tx, at)
          THEN parsed # None /\ parsed[1].note = tx.note
          ELSE parsed = None
      BY <3>1, ScanReads
    <3> QED BY <3>2
  <2>5. <<[note |-> parsed[1].note, to |-> parsed[1].to, memo |-> p.memo]>>[1].note
          = parsed[1].note
    OBVIOUS
  <2> HIDE DEF parsed
  <2> QED BY <2>2, <2>4, <2>5, OneElement
<1>4. CASE tx.output.enc.key # key
  <2>1. Open(key, tx.output.enc) = None
    BY <1>4 DEF Open
  <2>2. try = None
    BY <2>1 DEF TryNoteDecryption
  <2> QED BY <1>2, <1>4, <2>2
<1> QED BY <1>3, <1>4

\* The recovery by an account's outgoing key: the sender reads what it paid.
LEMMA RecoveryReads ==
  ASSUME NEW tx, Sealed(tx), NEW a, a # Outsider, NEW at, "small" \notin Diversifiers
  PROVE  LET read == TryOutputRecovery(at, Key(a).ovk, tx.output) IN
         IF a = tx.from /\ Readable(tx, at)
         THEN read # None /\ read[1].note = tx.note /\ read[1].memo = tx.memo
         ELSE read = None
<1> DEFINE ock == PrfOck(Key(a).ovk, tx.output.cv, tx.output.cmu, tx.output.epk)
           out == tx.output.out
           try == TryOutputRecovery(at, Key(a).ovk, tx.output)
<1>1. PICK d \in Diversifiers \ BadDiversifiers : Seals(tx, d)
  BY DEF Sealed
<1>2. out.key = ock <=> a = tx.from
  <2>1. CASE tx.from = Outsider
    <3>1. out.key[1] = "random"
      BY <1>1, <2>1 DEF Seals
    <3> QED BY <2>1, <3>1 DEF PrfOck
  <2>2. CASE tx.from # Outsider
    <3>1. out.key = PrfOck(Key(tx.from).ovk, tx.output.cv, tx.output.cmu, tx.output.epk)
      BY <1>1, <2>2 DEF Seals
    <3>2. out.key = ock => Key(tx.from).ovk = Key(a).ovk
      BY <3>1 DEF PrfOck
    <3> QED BY <3>1, <3>2, KeysTellAccounts
  <2> QED BY <2>1, <2>2
<1>3. CASE a # tx.from
  <2>1. Open(ock, out) = None
    BY <1>2, <1>3 DEF Open
  <2>2. try = None
    BY <2>1 DEF TryOutputRecovery, TryRecoveryWithOck
  <2> QED BY <1>3, <2>2
<1>4. CASE a = tx.from
  <2> DEFINE p == tx.output.enc.plain
             op == out.plain
             parsed == ParseWithOvk(at, op, tx.output, p)
  <2>1. /\ op.pkd = Pkd(tx.to, d) /\ Times(Generator(d), op.esk) = tx.output.epk
    BY <1>1, <1>4 DEF Seals
  <2>2. Open(ock, out) # None /\ Open(ock, out)[1] = op
    BY <1>2, <1>4, OneElement DEF Open
  <2>3. /\ tx.output.cmu = Cmu(tx.note)
        /\ tx.output.enc = Seal(IvkKey(Ivk(Key(tx.to)), tx.output),
                                NotePlaintext(tx.note, [d |-> d], tx.memo))
    BY <1>1 DEF Seals
  <2>4. /\ p = NotePlaintext(tx.note, [d |-> d], tx.memo)
        /\ tx.output.enc.key = IvkKey(Ivk(Key(tx.to)), tx.output)
    BY <2>3 DEF Seal
  <2>5. p.d = d /\ p.memo = tx.memo
    BY <2>4 DEF NotePlaintext
  <2>6. Kdf(KaAgree(op.esk, op.pkd), tx.output.epk) = tx.output.enc.key
    BY <2>1, <2>4, KeyAgreement DEF IvkKey
  <2>7. ExtractPkd(op) # None
    BY <2>1, OneElement DEF ExtractPkd, Pkd
  <2>8. GD(p.d) # None /\ GD(p.d)[1] = Generator(d)
    BY <2>5, Address
  <2>9. parsed = ParsePlaintext(at, p, <<Pkd(tx.to, p.d)>>)
    BY <2>1, <2>5, <2>8 DEF ParseWithOvk
  <2>10. ParseWithIvk(at, Ivk(Key(tx.to)), tx.output, p)
           = IF parsed = None \/ ~IsValidNote(parsed[1].note, tx.output) THEN None
             ELSE parsed
    <3>1. Times(GD(p.d)[1], Ivk(Key(tx.to))) = Pkd(tx.to, p.d)
      BY <2>5, Address
    <3> QED BY <2>8, <2>9, <3>1 DEF ParseWithIvk
  <2>11. Open(Kdf(KaAgree(op.esk, op.pkd), tx.output.epk), tx.output.enc) # None
         /\ Open(Kdf(KaAgree(op.esk, op.pkd), tx.output.epk), tx.output.enc)[1] = p
    BY <2>6, OneElement DEF Open
  <2>12. try = IF parsed = None \/ ~IsValidNote(parsed[1].note, tx.output) THEN None
               ELSE <<[note |-> parsed[1].note, to |-> parsed[1].to, memo |-> p.memo]>>
    <3> HIDE DEF p, op
    <3> QED BY <2>2, <2>7, <2>11, Zenon DEF TryOutputRecovery, TryRecoveryWithOck
  <2>13. ParseWithIvk(at, Ivk(Key(tx.to)), tx.output, p)
           = IF Readable(tx, at)
             THEN <<[note |-> tx.note, to |-> [d |-> d, pkd |-> Pkd(tx.to, d)]]>>
             ELSE None
    BY <1>1, RecipientReads
  <2> HIDE DEF p, op, parsed
  <2>14. CASE ~Readable(tx, at)
    <3>1. parsed = None \/ ~IsValidNote(parsed[1].note, tx.output)
      BY <2>10, <2>13, <2>14
    <3> QED BY <2>12, <2>14, <3>1
  <2>15. CASE Readable(tx, at)
    <3>1. /\ ~(parsed = None \/ ~IsValidNote(parsed[1].note, tx.output))
          /\ parsed = <<[note |-> tx.note, to |-> [d |-> d, pkd |-> Pkd(tx.to, d)]]>>
      BY <2>10, <2>13, <2>15, OneElement
    <3>2. parsed[1].note = tx.note
      BY <3>1
    <3>3. try = <<[note |-> tx.note, to |-> parsed[1].to, memo |-> tx.memo]>>
      BY <2>5, <2>12, <3>1, <3>2
    <3>4. try # None /\ try[1] = [note |-> tx.note, to |-> parsed[1].to, memo |-> tx.memo]
      BY <3>3, OneElement
    <3> QED BY <1>4, <2>15, <3>4
  <2> QED BY <2>14, <2>15
<1> QED BY <1>3, <1>4

----------------------------------------------------------------------------
(* The inductive invariant.                                                   *)

\* A payment of the builder can still be mined no earlier than the height it was
\* built for, and was made for the rules of that height.
Fresh(tx) ==
  /\ tx.note.value = 1
  /\ CheckEpk(tx.note, tx.output.epk)
  /\ \E target \in 1 .. height + 1 :
       /\ tx.expiry = target + ExpiryDelta
       /\ tx.note.rseed.zip212 = IsCanopyActive(target)

IsSequence(s) == Len(s) \in Nat /\ s = [i \in 1 .. Len(s) |-> s[i]]

ReadableAt(i) == Readable(chain[i].tx, chain[i].at)

NetworkInv ==
  /\ canopy \in Nat /\ height \in Nat
  /\ IsSequence(chain) /\ scanned \in 0 .. Len(chain)
  /\ \A tx \in mempool : Sealed(tx) /\ (tx.honest => Fresh(tx))
  /\ \A i \in 1 .. Len(chain) :
       /\ Sealed(chain[i].tx)
       /\ chain[i].tx.honest => ReadableAt(i)

\* A note of the wallet is one that the chain commits to, and the one that was
\* sent at its position unless the server altered what it served there.
TrueNote(n) ==
  /\ n.position \in 1 .. scanned /\ n.account \in Accounts
  /\ n.nf = Nullifier(n.note, Key(n.account), n.position)
  /\ n.note.value \in {1, MaxMoney + 1} /\ ~(n.note.value > MaxMoney)
  /\ \E i \in 1 .. Len(chain) : /\ chain[i].tx.to = n.account
                                /\ Cmu(chain[i].tx.note) = Cmu(n.note)
  /\ n.position \notin altered =>
       /\ n.account = chain[n.position].tx.to /\ n.note = chain[n.position].tx.note
       /\ ReadableAt(n.position)

NotesInv ==
  /\ altered \subseteq 1 .. scanned
  /\ \A n \in notes : TrueNote(n)
  /\ \A m, n \in notes : m.position = n.position /\ m.account = n.account => m = n
  /\ \A i \in 1 .. scanned \ altered :
       chain[i].tx.to \in Accounts /\ ReadableAt(i) =>
         \E n \in notes : n.position = i /\ n.account = chain[i].tx.to

\* What was read of a full transaction is what its sender wrote.
TrueDetail(x) ==
  /\ x.index \in 1 .. scanned /\ x.account \in Accounts
  /\ ReadableAt(x.index)
  /\ x.outgoing \in BOOLEAN
  /\ x.found.note = chain[x.index].tx.note
  /\ IF x.outgoing
     THEN /\ x.account = chain[x.index].tx.from /\ x.account # chain[x.index].tx.to
          /\ x.found.memo = chain[x.index].tx.memo
     ELSE x.account = chain[x.index].tx.to

DetailsInv ==
  /\ fetched \subseteq 1 .. scanned
  /\ \A x \in details : TrueDetail(x)
  /\ \A i \in fetched :
       ReadableAt(i) =>
         /\ chain[i].tx.to \in Accounts =>
              \E x \in details : x.index = i /\ x.account = chain[i].tx.to /\ ~x.outgoing
         /\ chain[i].tx.from \in Accounts \ {chain[i].tx.to} =>
              \E x \in details : x.index = i /\ x.account = chain[i].tx.from /\ x.outgoing

Inv == NetworkInv /\ NotesInv /\ DetailsInv

LEMMA InvInit ==
  Init => Inv
<1> SUFFICES ASSUME Init PROVE Inv
  OBVIOUS
<1>1. /\ canopy \in Nat /\ height = 1 /\ scanned = 0 /\ Len(chain) = 0 /\ chain = << >>
      /\ mempool = {} /\ notes = {} /\ details = {} /\ fetched = {} /\ altered = {}
  BY DeliveryAssumption DEF Init
<1>2. IsSequence(chain)
  BY <1>1 DEF IsSequence
<1>3. NetworkInv
  BY <1>1, <1>2 DEF NetworkInv
<1> QED BY <1>1, <1>3 DEF Inv, NotesInv, DetailsInv

----------------------------------------------------------------------------
(* Sending and mining.                                                        *)

\* What Pay sends.
PaidNote(to, d) ==
  CreateNote(AddressOf(to, d), 1, NewRseed(height + 1, <<"r", OutputsSent>>))[1]
Paid(from, to, d, ovk, memo) ==
  [output |-> EncryptNote(ovk, PaidNote(to, d), AddressOf(to, d), memo,
                          GenerateOrDeriveEsk(PaidNote(to, d), <<"r", OutputsSent>>),
                          ValueCommitment(1, OutputsSent), <<"r", OutputsSent>>),
   note |-> PaidNote(to, d), to |-> to, memo |-> memo, honest |-> TRUE,
   from |-> IF ovk = None THEN Outsider ELSE from, expiry |-> height + 1 + ExpiryDelta]

LEMMA PaidIsSealed ==
  ASSUME NetworkInv, NEW from \in Payers, NEW to \in Owners,
         NEW d \in Diversifiers \ BadDiversifiers, NEW ovk \in {None, <<Key(from).ovk>>},
         NEW memo
  PROVE  Sealed(Paid(from, to, d, ovk, memo)) /\ Fresh(Paid(from, to, d, ovk, memo))
<1> DEFINE target == height + 1
           random == <<"r", OutputsSent>>
           note == PaidNote(to, d)
           esk == GenerateOrDeriveEsk(note, random)
           rseed == NewRseed(target, random)
           o == EncryptNote(ovk, note, AddressOf(to, d), memo, esk, ValueCommitment(1, OutputsSent),
                            random)
           tx == Paid(from, to, d, ovk, memo)
<1>0. tx = [output |-> o, note |-> note, to |-> to, memo |-> memo, honest |-> TRUE,
            from |-> IF ovk = None THEN Outsider ELSE from,
            expiry |-> target + ExpiryDelta]
  BY DEF Paid
<1>1. note = NoteOf(to, d, 1, rseed)
  BY Created DEF PaidNote
<1> HIDE DEF tx, note
<1>2. /\ rseed = [zip212 |-> IsCanopyActive(target), r |-> random]
      /\ IsCanopyActive(target) \in BOOLEAN
  BY DEF NewRseed, IsCanopyActive
<1>3. /\ note.value = 1 /\ note.rseed = rseed /\ note.gd = Generator(d)
      /\ note.pkd = Pkd(to, d)
  BY <1>1 DEF NoteOf
<1> HIDE DEF rseed
<1>4. note = NoteOf(to, d, note.value, note.rseed)
  BY <1>1, <1>3
<1>5. /\ o = [cv |-> o.cv, cmu |-> Cmu(note), epk |-> o.epk,
              enc |-> Seal(IvkKey(Ivk(Key(to)), o), NotePlaintext(note, [d |-> d], memo)),
              out |-> o.out]
      /\ o.epk = Times(Generator(d), esk)
      /\ ovk = None => o.out.key[1] = "random"
      /\ ovk # None => /\ o.out.key = PrfOck(ovk[1], o.cv, o.cmu, o.epk)
                       /\ o.out.plain.pkd = Pkd(to, d) /\ o.out.plain.esk = esk
  BY <1>1, Encrypted
<1> HIDE DEF o, esk, random, target
<1>7. /\ tx.output = o /\ tx.note = note /\ tx.to = to /\ tx.memo = memo /\ tx.honest
      /\ tx.from = IF ovk = None THEN Outsider ELSE from
      /\ tx.expiry = target + ExpiryDelta
  BY <1>0
<1>8. /\ rseed.zip212 = IsCanopyActive(target) /\ rseed.r = random
      /\ rseed = [zip212 |-> rseed.zip212, r |-> rseed.r]
  BY <1>2
<1>9. CheckEpk(note, o.epk)
  <2>1. DeriveEsk(note) # None => esk = DeriveEsk(note)[1]
    BY DEF GenerateOrDeriveEsk, esk
  <2> QED BY <1>3, <1>5, <2>1 DEF CheckEpk, KaDerivePublic
<1>10. ovk # None => ovk[1] = Key(from).ovk
  BY OneElement
<1>11. from # Outsider
  BY DeliveryAssumption
<1>12. IF tx.from = Outsider THEN tx.output.out.key[1] = "random"
       ELSE /\ tx.honest
            /\ tx.output.out.key
                 = PrfOck(Key(tx.from).ovk, tx.output.cv, tx.output.cmu, tx.output.epk)
            /\ tx.output.out.plain.pkd = Pkd(tx.to, d)
            /\ Times(Generator(d), tx.output.out.plain.esk) = tx.output.epk
  BY <1>5, <1>7, <1>10, <1>11
<1>13. Seals(tx, d)
  BY <1>2, <1>3, <1>4, <1>5, <1>7, <1>8, <1>12 DEF Seals
<1>14. target \in 1 .. height + 1
  BY DEF NetworkInv, target
<1>15. Fresh(tx)
  BY <1>3, <1>7, <1>8, <1>9, <1>14 DEF Fresh
<1> QED BY <1>13, <1>15 DEF Sealed, tx

LEMMA CraftSealed ==
  ASSUME NEW to \in Payers, NEW d \in Diversifiers \ BadDiversifiers,
         NEW value \in {1, MaxMoney + 1}, NEW rseed \in Rseeds, NEW esk, NEW memo,
         NEW random, NEW cv, NEW tx,
         tx = LET note == CreateNote(AddressOf(to, d), value, rseed)[1] IN
              [output |-> EncryptNote(None, note, AddressOf(to, d), memo, esk, cv, random),
               note |-> note, to |-> to, memo |-> memo,
               honest |-> FALSE, from |-> Outsider, expiry |-> MaxHeight]
  PROVE  Seals(tx, d) /\ ~tx.honest
<1> DEFINE note == NoteOf(to, d, value, rseed)
           o == EncryptNote(None, note, AddressOf(to, d), memo, esk, cv, random)
<1>1. CreateNote(AddressOf(to, d), value, rseed)[1] = note
  BY Created
<1>2. note.value = value /\ note.rseed = rseed
  BY DEF NoteOf
<1>3. note = NoteOf(to, d, note.value, note.rseed)
  BY <1>2
<1> HIDE DEF note
<1>4. /\ o = [cv |-> o.cv, cmu |-> Cmu(note), epk |-> o.epk,
              enc |-> Seal(IvkKey(Ivk(Key(to)), o), NotePlaintext(note, [d |-> d], memo)),
              out |-> o.out]
      /\ o.out.key[1] = "random"
  BY Encrypted DEF note
<1> HIDE DEF o
<1>5. tx = [output |-> o, note |-> note, to |-> to, memo |-> memo, honest |-> FALSE,
            from |-> Outsider, expiry |-> MaxHeight]
  BY <1>1 DEF o
<1>6. /\ tx.output = o /\ tx.note = note /\ tx.to = to /\ tx.memo = memo /\ ~tx.honest
      /\ tx.from = Outsider
  BY <1>5
<1>7. /\ rseed = [zip212 |-> rseed.zip212, r |-> rseed.r] /\ rseed.zip212 \in BOOLEAN
  BY DEF Rseeds
<1>8. to \in Owners
  BY DeliveryAssumption DEF Owners
<1> QED BY <1>2, <1>3, <1>4, <1>6, <1>7, <1>8 DEF Seals

LEMMA AppendSequence ==
  ASSUME NEW s, IsSequence(s), NEW x
  PROVE  /\ IsSequence(Append(s, x)) /\ Len(Append(s, x)) = Len(s) + 1
         /\ \A i \in 1 .. Len(s) : Append(s, x)[i] = s[i]
         /\ Append(s, x)[Len(s) + 1] = x
<1> DEFINE S == {s[i] : i \in 1 .. Len(s)} \cup {x}
<1>1. s \in Seq(S) /\ x \in S /\ Len(s) \in Nat
  BY DEF IsSequence
<1> HIDE DEF S
<1>2. Append(s, x) \in Seq(S) /\ Len(Append(s, x)) = Len(s) + 1
  BY <1>1
<1>3. Append(s, x) = [i \in 1 .. Len(Append(s, x)) |-> Append(s, x)[i]]
  BY <1>2, LenProperties
<1> QED BY <1>1, <1>2, <1>3 DEF IsSequence

\* What is mined stays as it is: nothing on the chain is undone.
ChainGrows ==
  /\ canopy' = canopy
  /\ Len(chain') \in Nat /\ Len(chain) <= Len(chain')
  /\ \A i \in 1 .. Len(chain) : chain'[i] = chain[i] /\ (ReadableAt(i)' <=> ReadableAt(i))

LEMMA SameChainGrows ==
  ASSUME NetworkInv, UNCHANGED <<canopy, chain>>
  PROVE  ChainGrows
<1>1. Len(chain) \in Nat
  BY DEF NetworkInv, IsSequence
<1> QED BY <1>1 DEF ChainGrows, ReadableAt, Readable, VersionIsValid, IsCanopyActive

\* A transaction that is sealed, and fresh if it is honest, may enter the mempool.
LEMMA SendStep ==
  ASSUME NetworkInv, NEW tx, Sealed(tx), tx.honest => Fresh(tx),
         mempool' = mempool \cup {tx}, UNCHANGED <<canopy, height, chain, scanned>>
  PROVE  NetworkInv'
<1>1. ASSUME NEW y \in mempool'
      PROVE  Sealed(y) /\ (y.honest => Fresh(y))'
  <2>1. Sealed(y) /\ (y.honest => Fresh(y))
    BY DEF NetworkInv
  <2>2. Fresh(y)' <=> Fresh(y)
    BY DEF Fresh, IsCanopyActive
  <2> QED BY <2>1, <2>2
<1>3. \A i \in 1 .. Len(chain) : ReadableAt(i)' <=> ReadableAt(i)
  BY DEF ReadableAt, Readable, VersionIsValid, IsCanopyActive
<1>4. ASSUME NEW i \in 1 .. Len(chain)
      PROVE  Sealed(chain[i].tx)' /\ (chain[i].tx.honest => ReadableAt(i))'
  BY <1>3 DEF NetworkInv
<1>5. (\A y \in mempool : Sealed(y) /\ (y.honest => Fresh(y)))'
  BY <1>1
<1> QED BY <1>4, <1>5 DEF NetworkInv, IsSequence

LEMMA PayStep ==
  ASSUME NetworkInv, NEW from \in Payers, NEW to \in Owners,
         NEW d \in Diversifiers \ BadDiversifiers, NEW memo,
         NEW ovk \in {None, <<Key(from).ovk>>}, Pay(from, to, d, ovk, memo)
  PROVE  NetworkInv'
<1>1. /\ mempool' = mempool \cup {Paid(from, to, d, ovk, memo)}
      /\ UNCHANGED <<canopy, height, chain, scanned>>
  BY DEF Pay, Paid, PaidNote
<1> QED BY <1>1, PaidIsSealed, SendStep

LEMMA CraftStep ==
  ASSUME NetworkInv, NEW to \in Payers,
         NEW d \in Diversifiers \ BadDiversifiers, NEW value \in {1, MaxMoney + 1},
         NEW rseed \in Rseeds, NEW esk, Craft(to, d, value, rseed, esk)
  PROVE  NetworkInv'
<1> DEFINE memo == CHOOSE m \in Memos : TRUE
           note == CreateNote(AddressOf(to, d), value, rseed)[1]
           tx == [output |-> EncryptNote(None, note, AddressOf(to, d), memo, esk,
                                         ValueCommitment(value, OutputsSent), <<"r", OutputsSent>>),
                  note |-> note, to |-> to, memo |-> memo,
                  honest |-> FALSE, from |-> Outsider, expiry |-> MaxHeight]
<1>1. mempool' = mempool \cup {tx} /\ UNCHANGED <<canopy, height, chain, scanned>>
  BY DEF Craft
<1>2. Seals(tx, d) /\ ~tx.honest
  BY CraftSealed
<1> HIDE DEF tx
<1>3. Sealed(tx) /\ (tx.honest => Fresh(tx))
  BY <1>2 DEF Sealed
<1> QED BY <1>1, <1>3, SendStep

\* A payment mined before it expires is readable where it is mined: it is built
\* for the rules in force, or the grace period outlasts its expiry.
LEMMA FreshIsReadable ==
  ASSUME NetworkInv, NEW tx, Sealed(tx), Fresh(tx),
         height + 1 <= tx.expiry
  PROVE  Readable(tx, height + 1)
<1>1. PICK target \in 1 .. height + 1 :
        /\ tx.expiry = target + ExpiryDelta
        /\ tx.note.rseed.zip212 = IsCanopyActive(target)
  BY DEF Fresh
<1>2. /\ canopy \in Nat /\ height \in Nat /\ target \in Nat /\ ExpiryDelta \in Nat
      /\ GracePeriod \in Nat /\ ExpiryDelta <= GracePeriod /\ height + 1 <= target + ExpiryDelta
  BY <1>1, DeliveryAssumption DEF NetworkInv
<1>3. VersionIsValid(height + 1, IF tx.note.rseed.zip212 THEN 2 ELSE 1)
  <2>1. CASE IsCanopyActive(target)
    <3>1. tx.note.rseed.zip212
      BY <1>1, <2>1
    <3>2. IsCanopyActive(height + 1)
      BY <1>2, <2>1 DEF IsCanopyActive
    <3> QED BY <3>1, <3>2 DEF VersionIsValid
  <2>2. CASE ~IsCanopyActive(target)
    <3>1. ~tx.note.rseed.zip212
      BY <1>1, <2>2
    <3>2. canopy = 0 \/ height + 1 < canopy + GracePeriod
      BY <1>2, <2>2 DEF IsCanopyActive
    <3> QED BY <1>2, <3>1, <3>2 DEF VersionIsValid, IsCanopyActive
  <2> QED BY <2>1, <2>2
<1>4. ~(tx.note.value > MaxMoney) /\ CheckEpk(tx.note, tx.output.epk)
  BY DeliveryAssumption DEF Fresh
<1> QED BY <1>3, <1>4 DEF Readable

LEMMA HeightStep ==
  ASSUME NetworkInv, height' = height + 1, canopy' = canopy, NEW tx, Fresh(tx)
  PROVE  Fresh(tx)'
<1>1. height \in Nat /\ height' \in Nat
  BY DEF NetworkInv
<1>2. PICK target \in 1 .. height + 1 :
        /\ tx.expiry = target + ExpiryDelta
        /\ tx.note.rseed.zip212 = IsCanopyActive(target)
  BY DEF Fresh
<1>3. target \in 1 .. height' + 1 /\ (IsCanopyActive(target)' <=> IsCanopyActive(target))
  BY <1>1, <1>2 DEF IsCanopyActive
<1>4. tx.note.rseed.zip212 = IsCanopyActive(target)'
  BY <1>2 DEF IsCanopyActive
<1> QED BY <1>2, <1>3, <1>4 DEF Fresh

LEMMA MineStep ==
  ASSUME NetworkInv, NEW tx \in mempool, Mine(tx)
  PROVE  NetworkInv' /\ ChainGrows
<1> DEFINE block == [tx |-> tx, at |-> height + 1]
<1>1. /\ height' = height + 1 /\ mempool' = mempool \ {tx} /\ chain' = Append(chain, block)
      /\ UNCHANGED <<canopy, scanned>> /\ height + 1 <= tx.expiry
  BY DEF Mine
<1>2. /\ IsSequence(chain') /\ Len(chain') = Len(chain) + 1
      /\ \A i \in 1 .. Len(chain) : chain'[i] = chain[i]
      /\ chain'[Len(chain) + 1] = block
  BY <1>1, AppendSequence DEF NetworkInv
<1>3. Len(chain) \in Nat /\ height \in Nat
  BY DEF NetworkInv, IsSequence
<1>4. \A i \in 1 .. Len(chain) : ReadableAt(i)' <=> ReadableAt(i)
  BY <1>1, <1>2 DEF ReadableAt, Readable, VersionIsValid, IsCanopyActive
<1>5. ChainGrows
  BY <1>1, <1>2, <1>3, <1>4 DEF ChainGrows
<1>6. \A y \in mempool : Fresh(y) => Fresh(y)'
  BY <1>1, HeightStep
<1>7. (\A y \in mempool : Sealed(y) /\ (y.honest => Fresh(y)))'
  BY <1>1, <1>6 DEF NetworkInv
<1>8. Sealed(tx) /\ (tx.honest => Readable(tx, height + 1))
  BY <1>1, FreshIsReadable DEF NetworkInv
<1>9. PICK n \in Nat : n = Len(chain) + 1
  BY <1>3
<1>10. chain'[n].tx = tx /\ chain'[n].at = height + 1
  BY <1>2, <1>9
<1>11. ASSUME NEW i \in 1 .. Len(chain')
       PROVE  Sealed(chain[i].tx)' /\ (chain[i].tx.honest => ReadableAt(i))'
  <2>1. CASE i \in 1 .. Len(chain)
    BY <2>1, <1>2, <1>4 DEF NetworkInv
  <2>2. CASE i = n
    <3>1. ReadableAt(n)' <=> Readable(tx, height + 1)
      BY <1>1, <1>10 DEF ReadableAt, Readable, VersionIsValid, IsCanopyActive
    <3> QED BY <2>2, <1>8, <1>10, <3>1
  <2> QED BY <1>2, <1>3, <1>9, <2>1, <2>2
<1>12. canopy' \in Nat /\ height' \in Nat /\ scanned' \in 0 .. Len(chain')
  BY <1>1, <1>2, <1>3 DEF NetworkInv
<1> QED BY <1>2, <1>5, <1>7, <1>11, <1>12 DEF NetworkInv

LEMMA EmptyStep ==
  ASSUME NetworkInv, MineEmpty
  PROVE  NetworkInv'
<1>1. /\ height' = height + 1 /\ UNCHANGED <<canopy, mempool, chain, scanned>>
  BY DEF MineEmpty
<1>2. \A y \in mempool : Fresh(y) => Fresh(y)'
  BY <1>1, HeightStep
<1>3. (\A y \in mempool : Sealed(y) /\ (y.honest => Fresh(y)))'
  BY <1>1, <1>2 DEF NetworkInv
<1>4. \A i \in 1 .. Len(chain) : ReadableAt(i)' <=> ReadableAt(i)
  BY <1>1 DEF ReadableAt, Readable, VersionIsValid, IsCanopyActive
<1>5. ASSUME NEW i \in 1 .. Len(chain)
      PROVE  Sealed(chain[i].tx)' /\ (chain[i].tx.honest => ReadableAt(i))'
  BY <1>1, <1>4 DEF NetworkInv
<1> QED BY <1>1, <1>3, <1>5 DEF NetworkInv, IsSequence

LEMMA ReaderStep ==
  ASSUME NetworkInv, scanned' \in 0 .. Len(chain),
         UNCHANGED <<canopy, height, mempool, chain>>
  PROVE  NetworkInv'
<1>1. \A y : Fresh(y)' <=> Fresh(y)
  BY DEF Fresh, IsCanopyActive
<1>2. (\A y \in mempool : Sealed(y) /\ (y.honest => Fresh(y)))'
  BY <1>1 DEF NetworkInv
<1>3. \A i \in 1 .. Len(chain) : ReadableAt(i)' <=> ReadableAt(i)
  BY DEF ReadableAt, Readable, VersionIsValid, IsCanopyActive
<1>4. ASSUME NEW i \in 1 .. Len(chain)
      PROVE  Sealed(chain[i].tx)' /\ (chain[i].tx.honest => ReadableAt(i))'
  BY <1>3 DEF NetworkInv
<1> QED BY <1>2, <1>4 DEF NetworkInv, IsSequence

----------------------------------------------------------------------------
(* Scanning and decrypting.                                                   *)

\* A note stays true while the chain grows.
LEMMA NoteStaysTrue ==
  ASSUME NetworkInv, ChainGrows, scanned' = scanned, altered' = altered, NEW n, TrueNote(n)
  PROVE  TrueNote(n)'
<1>1. /\ n.position \in 1 .. Len(chain) /\ Len(chain) \in Nat
  BY DEF TrueNote, NetworkInv, IsSequence
<1>2. /\ chain'[n.position] = chain[n.position]
      /\ ReadableAt(n.position)' <=> ReadableAt(n.position)
  BY <1>1 DEF ChainGrows
<1>3. PICK i \in 1 .. Len(chain) : /\ chain[i].tx.to = n.account
                                   /\ Cmu(chain[i].tx.note) = Cmu(n.note)
  BY DEF TrueNote
<1>4. i \in 1 .. Len(chain') /\ chain'[i] = chain[i]
  BY <1>1, <1>3 DEF ChainGrows
<1> QED BY <1>2, <1>3, <1>4 DEF TrueNote

LEMMA DetailStaysTrue ==
  ASSUME NetworkInv, ChainGrows, scanned <= scanned', scanned' \in Nat,
         NEW x, TrueDetail(x)
  PROVE  TrueDetail(x)'
<1>1. x.index \in 1 .. Len(chain) /\ x.index \in 1 .. scanned'
  BY DEF TrueDetail, NetworkInv, IsSequence
<1>2. chain'[x.index] = chain[x.index] /\ (ReadableAt(x.index)' <=> ReadableAt(x.index))
  BY <1>1 DEF ChainGrows
<1> QED BY <1>1, <1>2 DEF TrueDetail

LEMMA WalletIdle ==
  ASSUME Inv, ChainGrows, UNCHANGED <<scanned, notes, details, fetched, altered>>
  PROVE  NotesInv' /\ DetailsInv'
<1>1. Len(chain) \in Nat /\ scanned \in 0 .. Len(chain)
  BY DEF Inv, NetworkInv, IsSequence
<1>2. \A i \in 1 .. scanned : chain'[i] = chain[i] /\ (ReadableAt(i)' <=> ReadableAt(i))
  BY <1>1 DEF ChainGrows
<1>3. \A n \in notes : TrueNote(n)'
  BY NoteStaysTrue DEF Inv, NotesInv
<1>4. \A x \in details : TrueDetail(x)'
  BY <1>1, DetailStaysTrue DEF Inv, DetailsInv
<1>5. NotesInv'
  BY <1>2, <1>3 DEF Inv, NotesInv
<1>6. DetailsInv'
  BY <1>2, <1>4 DEF Inv, DetailsInv
<1> QED BY <1>5, <1>6

LEMMA OutputShape ==
  ASSUME NEW tx, Sealed(tx)
  PROVE  LET o == tx.output IN
         /\ o = [cv |-> o.cv, cmu |-> o.cmu, epk |-> o.epk, enc |-> o.enc, out |-> o.out]
         /\ o.cmu = Cmu(tx.note)
<1>1. PICK d \in Diversifiers \ BadDiversifiers : Seals(tx, d)
  BY DEF Sealed
<1>2. PICK enc :
        tx.output = [cv |-> tx.output.cv, cmu |-> Cmu(tx.note), epk |-> tx.output.epk,
                     enc |-> enc, out |-> tx.output.out]
  BY <1>1 DEF Seals
<1>3. tx.output.cmu = Cmu(tx.note) /\ tx.output.enc = enc
  BY <1>2
<1> QED BY <1>2, <1>3

\* What the server may serve commits to a note that was sent.
LEMMA ServedCommits ==
  ASSUME NetworkInv, NEW i \in 1 .. Len(chain), NEW o \in Served(i)
  PROVE  \E k \in 1 .. Len(chain) : o.cmu = Cmu(chain[k].tx.note)
<1>1. \A k \in 1 .. Len(chain) : Sealed(chain[k].tx)
  BY DEF NetworkInv
<1>2. /\ chain[i].tx.output.cmu = Cmu(chain[i].tx.note)
      /\ chain[i].tx.output = [cv |-> chain[i].tx.output.cv, cmu |-> chain[i].tx.output.cmu,
                              epk |-> chain[i].tx.output.epk,
                              enc |-> chain[i].tx.output.enc,
                              out |-> chain[i].tx.output.out]
  BY <1>1, OutputShape
<1>3. CASE o = chain[i].tx.output
  BY <1>2, <1>3
<1>4. ASSUME NEW k \in 1 .. Len(chain),
             o \in {[chain[i].tx.output EXCEPT !.epk = chain[k].tx.output.epk],
                    [chain[i].tx.output EXCEPT !.cmu = chain[k].tx.output.cmu],
                    [chain[i].tx.output EXCEPT !.enc = chain[k].tx.output.enc]}
      PROVE  o.cmu \in {Cmu(chain[i].tx.note), Cmu(chain[k].tx.note)}
  <2>1. chain[k].tx.output.cmu = Cmu(chain[k].tx.note)
    BY <1>1, OutputShape
  <2> QED BY <1>2, <1>4, <2>1
<1> QED BY <1>2, <1>3, <1>4 DEF Served

\* One step of the scan: what each account makes of the compact output.
LEMMA ScanStep ==
  ASSUME Inv, scanned < Len(chain), NEW o \in Served(scanned + 1),
         NEW plain \in Yields(o), ScanNext(o, plain)
  PROVE  NotesInv' /\ DetailsInv'
<1> DEFINE Try(a) == TryCompactNoteDecryption(chain[scanned + 1].at, Ivk(Key(a)), o, plain[a])
           Found(a) == [position |-> scanned + 1, account |-> a, note |-> Try(a)[1].note,
                        nf |-> Nullifier(Try(a)[1].note, Key(a), scanned + 1)]
<1>1. PICK new \in Nat : new = scanned + 1
  BY DEF Inv, NetworkInv
<1>2. /\ scanned \in Nat /\ Len(chain) \in Nat /\ new \in 1 .. Len(chain) /\ scanned' = new
      /\ new \notin 1 .. scanned /\ 1 .. new = (1 .. scanned) \cup {new}
  BY <1>1 DEF ScanNext, Inv, NetworkInv, IsSequence
<1>3. /\ notes' = notes \cup {Found(a) : a \in {b \in Accounts : Try(b) # None}}
      /\ altered' = IF o = chain[new].tx.output THEN altered ELSE altered \cup {new}
      /\ UNCHANGED <<canopy, height, mempool, chain, details, fetched>>
  BY <1>1 DEF ScanNext
<1>4. ChainGrows
  BY <1>3, SameChainGrows DEF Inv
<1>5. \A i \in 1 .. Len(chain) : ReadableAt(i)' <=> ReadableAt(i)
  BY <1>4 DEF ChainGrows
<1>6. Sealed(chain[new].tx)
  BY <1>2 DEF Inv, NetworkInv
<1>7. altered \subseteq 1 .. scanned /\ altered' \subseteq 1 .. new
      /\ altered' \cap 1 .. scanned = altered
  BY <1>2, <1>3 DEF Inv, NotesInv
<1>8. ASSUME NEW a \in Accounts, Try(a) # None
      PROVE  \E k \in 1 .. Len(chain) :
               /\ chain[k].tx.to = a /\ Cmu(chain[k].tx.note) = Cmu(Try(a)[1].note)
               /\ Try(a)[1].note.value \in {1, MaxMoney + 1}
               /\ ~(Try(a)[1].note.value > MaxMoney)
  <2>1. PICK k \in 1 .. Len(chain) : o.cmu = Cmu(chain[k].tx.note)
    BY <1>1, <1>2, ServedCommits DEF Inv
  <2>2. Sealed(chain[k].tx)
    BY DEF Inv, NetworkInv
  <2>3. ParseWithIvk(chain[scanned + 1].at, Ivk(Key(a)), o, plain[a]) # None
    BY <1>8 DEF TryCompactNoteDecryption
  <2>4. LET read == ParseWithIvk(chain[scanned + 1].at, Ivk(Key(a)), o, plain[a])[1].note IN
        /\ a = chain[k].tx.to /\ Cmu(read) = Cmu(chain[k].tx.note)
        /\ read.value \in {1, MaxMoney + 1} /\ ~(read.value > MaxMoney)
    BY <2>1, <2>2, <2>3, RecipientOnly
  <2> QED BY <2>4 DEF TryCompactNoteDecryption
<1>9. ASSUME NEW a \in Accounts, new \notin altered'
      PROVE  IF a = chain[new].tx.to /\ ReadableAt(new)
             THEN Try(a) # None /\ Try(a)[1].note = chain[new].tx.note
             ELSE Try(a) = None
  <2>1. o = chain[new].tx.output
    BY <1>3, <1>9
  <2>2. plain[a] \in StreamPlaintexts(IvkKey(Ivk(Key(a)), o), o.enc)
    BY DEF Yields
  <2>3. LET read == ParseWithIvk(chain[new].at, Ivk(Key(a)), o, plain[a]) IN
        IF a = chain[new].tx.to /\ Readable(chain[new].tx, chain[new].at)
        THEN read # None /\ read[1].note = chain[new].tx.note
        ELSE read = None
    BY <1>6, <2>1, <2>2, ScanReads
  <2> QED BY <1>1, <2>3 DEF TryCompactNoteDecryption, ReadableAt
<1> HIDE DEF Try
<1>10. ASSUME NEW n \in notes
       PROVE  TrueNote(n)'
  <2>1. TrueNote(n)
    BY DEF Inv, NotesInv
  <2>2. /\ n.position \in 1 .. scanned /\ n.position \in 1 .. new
        /\ n.position \in 1 .. Len(chain)
        /\ n.position \in altered' <=> n.position \in altered
    BY <1>2, <1>7, <2>1 DEF TrueNote
  <2> QED BY <1>2, <1>3, <1>5, <2>1, <2>2 DEF TrueNote
<1>11. ASSUME NEW a \in Accounts, Try(a) # None, NEW f, f = Found(a)
       PROVE  /\ TrueNote(f)' /\ f.position = new /\ f.account = a
  <2>1. /\ f.position = new /\ f.account = a /\ f.note = Try(a)[1].note
        /\ f.nf = Nullifier(Try(a)[1].note, Key(a), new)
    BY <1>1, <1>11
  <2>2. PICK k \in 1 .. Len(chain) :
               /\ chain[k].tx.to = a /\ Cmu(chain[k].tx.note) = Cmu(Try(a)[1].note)
               /\ Try(a)[1].note.value \in {1, MaxMoney + 1}
               /\ ~(Try(a)[1].note.value > MaxMoney)
    BY <1>8, <1>11
  <2>3. new \notin altered' => /\ a = chain[new].tx.to
                               /\ Try(a)[1].note = chain[new].tx.note /\ ReadableAt(new)
    BY <1>9, <1>11
  <2> QED BY <1>2, <1>3, <1>5, <2>1, <2>2, <2>3 DEF TrueNote
<1>12. NotesInv'
  <2>1. \A n \in notes' : n \in notes \/ \E a \in Accounts : Try(a) # None /\ n = Found(a)
    BY <1>3
  <2>2. \A n \in notes : n.position # new
    BY <1>2 DEF Inv, NotesInv, TrueNote
  <2>3. \A n \in notes' : TrueNote(n)'
    BY <1>10, <1>11, <2>1
  <2>4. ASSUME NEW m \in notes', NEW n \in notes', m.position = n.position,
               m.account = n.account
        PROVE  m = n
    <3>1. CASE m \in notes /\ n \in notes
      BY <2>4, <3>1 DEF Inv, NotesInv
    <3>2. CASE m \notin notes
      <4>1. PICK a \in Accounts : Try(a) # None /\ m = Found(a)
        BY <2>1, <3>2
      <4>2. m.position = new /\ m.account = a
        BY <1>11, <4>1
      <4>3. n \notin notes
        BY <2>2, <2>4, <4>2
      <4>4. PICK b \in Accounts : Try(b) # None /\ n = Found(b)
        BY <2>1, <4>3
      <4>5. n.account = b
        BY <1>11, <4>4
      <4> QED BY <2>4, <4>1, <4>2, <4>4, <4>5
    <3>3. CASE n \notin notes
      <4>1. PICK a \in Accounts : Try(a) # None /\ n = Found(a)
        BY <2>1, <3>3
      <4>2. n.position = new
        BY <1>11, <4>1
      <4>3. m \notin notes
        BY <2>2, <2>4, <4>2
      <4> QED BY <3>2, <4>3
    <3> QED BY <3>1, <3>2, <3>3
  <2>5. ASSUME NEW i \in 1 .. new \ altered', chain[i].tx.to \in Accounts, ReadableAt(i)
        PROVE  \E n \in notes' : n.position = i /\ n.account = chain[i].tx.to
    <3>1. CASE i \in 1 .. scanned
      <4>1. i \notin altered
        BY <1>7, <2>5, <3>1
      <4> QED BY <1>3, <2>5, <3>1, <4>1 DEF Inv, NotesInv
    <3>2. CASE i = new
      <4>1. Try(chain[new].tx.to) # None
        BY <1>9, <2>5, <3>2
      <4>2. PICK f : f = Found(chain[new].tx.to)
        OBVIOUS
      <4>3. f \in notes'
        BY <1>3, <2>5, <3>2, <4>1, <4>2
      <4>4. f.position = new /\ f.account = chain[new].tx.to
        BY <1>11, <2>5, <3>2, <4>1, <4>2
      <4> QED BY <3>2, <4>3, <4>4
    <3> QED BY <1>2, <3>1, <3>2
  <2>6. \A i \in 1 .. new : ReadableAt(i)' <=> ReadableAt(i)
    BY <1>2, <1>5
  <2> HIDE DEF Found
  <2> QED BY <1>2, <1>3, <1>7, <2>3, <2>4, <2>5, <2>6 DEF NotesInv
<1>13. DetailsInv'
  <2>1. \A x \in details : TrueDetail(x)'
    BY <1>2, <1>4, DetailStaysTrue DEF Inv, DetailsInv
  <2>2. fetched \subseteq 1 .. scanned /\ fetched \subseteq 1 .. Len(chain)
    BY <1>2 DEF Inv, NetworkInv, DetailsInv
  <2>3. \A i \in fetched : ReadableAt(i)' <=> ReadableAt(i)
    BY <1>5, <2>2
  <2> QED BY <1>2, <1>3, <2>1, <2>2, <2>3 DEF Inv, DetailsInv
<1> QED BY <1>12, <1>13

----------------------------------------------------------------------------

LEMMA DecryptStep ==
  ASSUME Inv, NEW i \in 1 .. scanned, Decrypt(i)
  PROVE  NotesInv' /\ DetailsInv'
<1> DEFINE In(a) == TryNoteDecryption(chain[i].at, Ivk(Key(a)), chain[i].tx.output)
           Out(a) == TryOutputRecovery(chain[i].at, Key(a).ovk, chain[i].tx.output)
           Got == {[index |-> i, account |-> a, outgoing |-> FALSE, found |-> In(a)[1]] :
                     a \in {b \in Accounts : In(b) # None}}
           Gave == {[index |-> i, account |-> a, outgoing |-> TRUE, found |-> Out(a)[1]] :
                      a \in {b \in Accounts : In(b) = None /\ Out(b) # None}}
<1>1. /\ i \in 1 .. Len(chain) /\ scanned \in Nat
      /\ Sealed(chain[i].tx)
  BY DEF Inv, NetworkInv, IsSequence
<1>2. /\ details' = details \cup
             {[x EXCEPT !.index = i] :
                x \in DecryptTransaction(chain[i].at, <<chain[i].tx.output>>, AccountKeys)}
      /\ fetched' = fetched \cup {i}
      /\ UNCHANGED <<canopy, height, mempool, chain, scanned, notes, altered>>
  BY DEF Decrypt
<1>3. ChainGrows /\ \A k \in 1 .. scanned : ReadableAt(k)' <=> ReadableAt(k)
  BY <1>1, <1>2, SameChainGrows DEF Inv, ChainGrows, NetworkInv
<1>4. \A a \in Accounts :
        IF a = chain[i].tx.to /\ ReadableAt(i)
        THEN In(a) # None /\ In(a)[1].note = chain[i].tx.note
        ELSE In(a) = None
  BY <1>1, TriesRead DEF ReadableAt
<1>5. \A a \in Accounts :
        IF a = chain[i].tx.from /\ ReadableAt(i)
        THEN Out(a) # None /\ Out(a)[1].note = chain[i].tx.note
                           /\ Out(a)[1].memo = chain[i].tx.memo
        ELSE Out(a) = None
  BY <1>1, RecoveryReads, DeliveryAssumption DEF ReadableAt
<1>6. details' = details \cup (Got \cup Gave)
  <2> DEFINE outputs == <<chain[i].tx.output>>
             tries == (1 .. Len(outputs)) \X DOMAIN AccountKeys
             Received(t) == TryNoteDecryption(chain[i].at, Ivk(AccountKeys[t[2]]), outputs[t[1]])
             Recovered(t) == TryOutputRecovery(chain[i].at, AccountKeys[t[2]].ovk, outputs[t[1]])
             D == DecryptTransaction(chain[i].at, outputs, AccountKeys)
  <2>1. \A t \in tries :
          t = <<1, t[2]>> /\ t[2] \in Accounts /\ Received(t) = In(t[2]) /\ Recovered(t) = Out(t[2])
    BY DEF AccountKeys
  <2>2. \A a \in Accounts : <<1, a>> \in tries /\ <<1, a>>[2] = a
    BY DEF AccountKeys
  <2>3. D = {[index |-> t[1], account |-> t[2], outgoing |-> FALSE, found |-> Received(t)[1]] :
               t \in {t \in tries : Received(t) # None}}
            \cup
            {[index |-> t[1], account |-> t[2], outgoing |-> TRUE, found |-> Recovered(t)[1]] :
               t \in {t \in tries : Received(t) = None /\ Recovered(t) # None}}
    BY DEF DecryptTransaction
  <2> HIDE DEF tries, Received, Recovered, D, In, Out
  <2>4. D = {[index |-> 1, account |-> a, outgoing |-> FALSE, found |-> In(a)[1]] :
               a \in {b \in Accounts : In(b) # None}}
            \cup
            {[index |-> 1, account |-> a, outgoing |-> TRUE, found |-> Out(a)[1]] :
               a \in {b \in Accounts : In(b) = None /\ Out(b) # None}}
    <3>1. \A t \in tries : t[1] = 1
      BY <2>1
    <3> QED BY <2>1, <2>2, <2>3, <3>1
  <2>5. \A a, b, c : [[index |-> 1, account |-> a, outgoing |-> b, found |-> c] EXCEPT !.index = i]
                       = [index |-> i, account |-> a, outgoing |-> b, found |-> c]
    OBVIOUS
  <2>6. {[x EXCEPT !.index = i] : x \in D} = Got \cup Gave
    <3>1. ASSUME NEW x \in D
          PROVE  [x EXCEPT !.index = i] \in Got \cup Gave
      <4>1. CASE \E a \in Accounts :
                   /\ In(a) # None
                   /\ x = [index |-> 1, account |-> a, outgoing |-> FALSE, found |-> In(a)[1]]
        <5>1. PICK a \in Accounts :
                /\ In(a) # None
                /\ x = [index |-> 1, account |-> a, outgoing |-> FALSE, found |-> In(a)[1]]
          BY <4>1
        <5>2. [x EXCEPT !.index = i]
                = [index |-> i, account |-> a, outgoing |-> FALSE, found |-> In(a)[1]]
          BY <2>5, <5>1
        <5>3. [x EXCEPT !.index = i] \in Got
          BY <5>1, <5>2
        <5> QED BY <5>3
      <4>2. CASE \E a \in Accounts :
                   /\ In(a) = None /\ Out(a) # None
                   /\ x = [index |-> 1, account |-> a, outgoing |-> TRUE, found |-> Out(a)[1]]
        <5>1. PICK a \in Accounts :
                /\ In(a) = None /\ Out(a) # None
                /\ x = [index |-> 1, account |-> a, outgoing |-> TRUE, found |-> Out(a)[1]]
          BY <4>2
        <5>2. [x EXCEPT !.index = i]
                = [index |-> i, account |-> a, outgoing |-> TRUE, found |-> Out(a)[1]]
          BY <2>5, <5>1
        <5>3. [x EXCEPT !.index = i] \in Gave
          BY <5>1, <5>2
        <5> QED BY <5>3
      <4> QED BY <2>4, <4>1, <4>2
    <3>2. ASSUME NEW a \in Accounts, In(a) # None
          PROVE  \E x \in D : [x EXCEPT !.index = i]
                   = [index |-> i, account |-> a, outgoing |-> FALSE, found |-> In(a)[1]]
      <4>1. PICK x : x = [index |-> 1, account |-> a, outgoing |-> FALSE, found |-> In(a)[1]]
        OBVIOUS
      <4>2. x \in D
        BY <2>4, <3>2, <4>1
      <4> QED BY <2>5, <4>1, <4>2
    <3>3. ASSUME NEW a \in Accounts, In(a) = None, Out(a) # None
          PROVE  \E x \in D : [x EXCEPT !.index = i]
                   = [index |-> i, account |-> a, outgoing |-> TRUE, found |-> Out(a)[1]]
      <4>1. PICK x : x = [index |-> 1, account |-> a, outgoing |-> TRUE, found |-> Out(a)[1]]
        OBVIOUS
      <4>2. x \in D
        BY <2>4, <3>3, <4>1
      <4> QED BY <2>5, <4>1, <4>2
    <3>4. \A g \in Got \cup Gave : \E x \in D : g = [x EXCEPT !.index = i]
      BY <3>2, <3>3
    <3> HIDE DEF Got, Gave
    <3> QED BY <3>1, <3>4
  <2> QED BY <1>2, <2>6 DEF D
<1> HIDE DEF In, Out
<1>7. ASSUME NEW x \in Got
      PROVE  /\ TrueDetail(x)' /\ ~x.outgoing
  <2>1. PICK a \in Accounts :
          /\ In(a) # None
          /\ x = [index |-> i, account |-> a, outgoing |-> FALSE, found |-> In(a)[1]]
    OBVIOUS
  <2>2. /\ x.index = i /\ x.account = a /\ x.outgoing = FALSE /\ x.found = In(a)[1]
    BY <2>1
  <2>3. a = chain[i].tx.to /\ ReadableAt(i) /\ x.found.note = chain[i].tx.note
    BY <1>4, <2>1, <2>2
  <2> QED BY <1>2, <1>3, <2>2, <2>3 DEF TrueDetail
<1>8. ASSUME NEW x \in Gave
      PROVE  TrueDetail(x)'
  <2>1. PICK a \in Accounts :
          /\ In(a) = None /\ Out(a) # None
          /\ x = [index |-> i, account |-> a, outgoing |-> TRUE, found |-> Out(a)[1]]
    OBVIOUS
  <2>2. /\ x.index = i /\ x.account = a /\ x.outgoing = TRUE /\ x.found = Out(a)[1]
    BY <2>1
  <2>3. /\ a = chain[i].tx.from /\ ReadableAt(i) /\ x.found.note = chain[i].tx.note
        /\ x.found.memo = chain[i].tx.memo
    BY <1>5, <2>1, <2>2
  <2>4. a # chain[i].tx.to
    BY <1>4, <2>1, <2>3
  <2> QED BY <1>2, <1>3, <2>2, <2>3, <2>4 DEF TrueDetail
<1>9. ASSUME ReadableAt(i), chain[i].tx.to \in Accounts
      PROVE  \E x \in details' : x.index = i /\ x.account = chain[i].tx.to /\ ~x.outgoing
  <2>1. In(chain[i].tx.to) # None
    BY <1>4, <1>9
  <2>2. PICK x : x = [index |-> i, account |-> chain[i].tx.to, outgoing |-> FALSE,
                      found |-> In(chain[i].tx.to)[1]]
    OBVIOUS
  <2>3. x \in Got
    BY <1>9, <2>1, <2>2
  <2>4. x.index = i /\ x.account = chain[i].tx.to /\ ~x.outgoing
    BY <2>2
  <2> HIDE DEF Got, Gave
  <2> QED BY <1>6, <2>3, <2>4
<1>10. ASSUME ReadableAt(i), chain[i].tx.from \in Accounts \ {chain[i].tx.to}
       PROVE  \E x \in details' : x.index = i /\ x.account = chain[i].tx.from /\ x.outgoing
  <2>1. In(chain[i].tx.from) = None /\ Out(chain[i].tx.from) # None
    BY <1>4, <1>5, <1>10
  <2>2. PICK x : x = [index |-> i, account |-> chain[i].tx.from, outgoing |-> TRUE,
                      found |-> Out(chain[i].tx.from)[1]]
    OBVIOUS
  <2>3. x \in Gave
    BY <1>10, <2>1, <2>2
  <2>4. x.index = i /\ x.account = chain[i].tx.from /\ x.outgoing
    BY <2>2
  <2> HIDE DEF Got, Gave
  <2> QED BY <1>6, <2>3, <2>4
<1> HIDE DEF Got, Gave
<1>11. DetailsInv'
  <2>1. \A x \in details' : TrueDetail(x)'
    BY <1>1, <1>2, <1>3, <1>6, <1>7, <1>8, DetailStaysTrue DEF Inv, DetailsInv
  <2>2. fetched' \subseteq 1 .. scanned
    BY <1>2 DEF Inv, DetailsInv
  <2>3. ASSUME NEW k \in fetched', ReadableAt(k)
        PROVE  /\ chain[k].tx.to \in Accounts =>
                    \E x \in details' : x.index = k /\ x.account = chain[k].tx.to /\ ~x.outgoing
               /\ chain[k].tx.from \in Accounts \ {chain[k].tx.to} =>
                    \E x \in details' : x.index = k /\ x.account = chain[k].tx.from /\ x.outgoing
    <3>1. CASE k = i
      BY <1>9, <1>10, <2>3, <3>1
    <3>2. CASE k \in fetched
      BY <1>6, <2>3, <3>2 DEF Inv, DetailsInv
    <3> QED BY <1>2, <3>1, <3>2
  <2> QED BY <1>2, <1>3, <2>1, <2>2, <2>3 DEF DetailsInv
<1>12. NotesInv'
  <2>1. \A n \in notes : TrueNote(n)'
    BY <1>2, <1>3, NoteStaysTrue DEF Inv, NotesInv
  <2> QED BY <1>2, <1>3, <2>1 DEF Inv, NotesInv
<1> QED BY <1>11, <1>12

LEMMA InvStep ==
  ASSUME Inv, [Next]_vars
  PROVE  Inv'
<1>1. CASE UNCHANGED vars
  <2>1. /\ UNCHANGED <<canopy, height, mempool, chain>> /\ scanned' \in 0 .. Len(chain)
        /\ UNCHANGED <<scanned, notes, details, fetched, altered>>
    BY <1>1 DEF vars, Inv, NetworkInv
  <2> QED BY <2>1, ReaderStep, SameChainGrows, WalletIdle DEF Inv
<1>2. ASSUME NEW from \in Payers, NEW to \in Owners, NEW d \in Diversifiers \ BadDiversifiers,
             NEW m \in Memos, NEW ovk \in {None, <<Key(from).ovk>>},
             Pay(from, to, d, ovk, m)
      PROVE  Inv'
  <2>1. UNCHANGED <<canopy, chain, scanned, notes, details, fetched, altered>>
    BY <1>2 DEF Pay
  <2> QED BY <1>2, <2>1, PayStep, SameChainGrows, WalletIdle DEF Inv
<1>3. ASSUME NEW to \in Payers, NEW d \in Diversifiers \ BadDiversifiers,
             NEW value \in {1, MaxMoney + 1}, NEW rseed \in Rseeds, NEW esk,
             Craft(to, d, value, rseed, esk)
      PROVE  Inv'
  <2>1. UNCHANGED <<canopy, chain, scanned, notes, details, fetched, altered>>
    BY <1>3 DEF Craft
  <2> QED BY <1>3, <2>1, CraftStep, SameChainGrows, WalletIdle DEF Inv
<1>4. CASE MineEmpty
  <2>1. UNCHANGED <<canopy, chain, scanned, notes, details, fetched, altered>>
    BY <1>4 DEF MineEmpty
  <2> QED BY <1>4, <2>1, EmptyStep, SameChainGrows, WalletIdle DEF Inv
<1>5. ASSUME NEW tx \in mempool, Mine(tx)
      PROVE  Inv'
  <2>1. UNCHANGED <<scanned, notes, details, fetched, altered>>
    BY <1>5 DEF Mine
  <2> QED BY <1>5, <2>1, MineStep, WalletIdle DEF Inv
<1>6. ASSUME scanned < Len(chain), NEW o \in Served(scanned + 1), NEW plain \in Yields(o),
             ScanNext(o, plain)
      PROVE  Inv'
  <2>1. scanned' \in 0 .. Len(chain) /\ UNCHANGED <<canopy, height, mempool, chain>>
    BY <1>6 DEF ScanNext, Inv, NetworkInv, IsSequence
  <2> QED BY <1>6, <2>1, ReaderStep, ScanStep DEF Inv
<1>7. ASSUME NEW i \in 1 .. scanned, Decrypt(i)
      PROVE  Inv'
  <2>1. scanned' \in 0 .. Len(chain) /\ UNCHANGED <<canopy, height, mempool, chain>>
    BY <1>7 DEF Decrypt, Inv, NetworkInv
  <2> QED BY <1>7, <2>1, ReaderStep, DecryptStep DEF Inv
<1> QED BY <1>1, <1>2, <1>3, <1>4, <1>5, <1>6, <1>7 DEF Next

THEOREM InvHolds ==
  Spec => []Inv
<1>1. Init => Inv
  BY InvInit
<1>2. Inv /\ [Next]_vars => Inv'
  BY InvStep
<1> QED BY <1>1, <1>2, PTL DEF Spec

----------------------------------------------------------------------------
(* What it is for.                                                            *)

\* A payment of the builder that is mined before it expires is found by the scan
\* of its recipient, on either side of Canopy and of the grace period, unless the
\* server altered it: for every activation height and every expiry that the
\* grace period outlasts.
THEOREM PaymentsAreFound ==
  Spec => []PaymentsArrive
<1>1. ASSUME Inv PROVE PaymentsArrive
  <2>1. ASSUME NEW i \in 1 .. scanned, chain[i].tx.honest, chain[i].tx.to \in Accounts,
               i \notin altered
        PROVE  \E n \in notes : /\ n.position = i /\ n.account = chain[i].tx.to
                                /\ n.note = chain[i].tx.note
    <3>1. ReadableAt(i)
      BY <1>1, <2>1 DEF Inv, NetworkInv, IsSequence
    <3>2. PICK n \in notes : n.position = i /\ n.account = chain[i].tx.to
      BY <1>1, <2>1, <3>1 DEF Inv, NotesInv
    <3>3. n.note = chain[i].tx.note
      BY <1>1, <2>1, <3>2 DEF Inv, NotesInv, TrueNote
    <3> QED BY <3>2, <3>3
  <2> QED BY <2>1 DEF PaymentsArrive
<1> QED BY <1>1, InvHolds, PTL

\* Whatever the server exchanges and whatever plaintext a wrong key yields, a
\* note that the scan accepts was sent to that account, for a value within
\* MAX_MONEY that the chain commits to, and no two notes share a nullifier.
THEOREM FoundNotesAreSpendable ==
  Spec => []NotesAreSpendable
<1>1. ASSUME Inv PROVE NotesAreSpendable
  <2>1. ASSUME NEW n \in notes
        PROVE  /\ \E i \in 1 .. Len(chain) : /\ chain[i].tx.to = n.account
                                             /\ Cmu(chain[i].tx.note) = Cmu(n.note)
               /\ n.note.value <= MaxMoney
    <3>1. TrueNote(n)
      BY <1>1 DEF Inv, NotesInv
    <3> QED BY <3>1, DeliveryAssumption DEF TrueNote
  <2>2. ASSUME NEW m \in notes, NEW n \in notes, m.nf = n.nf
        PROVE  m = n
    <3>1. /\ m.nf = Nullifier(m.note, Key(m.account), m.position)
          /\ n.nf = Nullifier(n.note, Key(n.account), n.position)
      BY <1>1 DEF Inv, NotesInv, TrueNote
    <3>2. /\ Key(m.account).nk = Key(n.account).nk
          /\ [cm |-> Commitment(m.note), at |-> m.position]
               = [cm |-> Commitment(n.note), at |-> n.position]
      <4>1. <<Key(m.account).nk, [cm |-> Commitment(m.note), at |-> m.position]>>
              = <<Key(n.account).nk, [cm |-> Commitment(n.note), at |-> n.position]>>
        BY <2>2, <3>1 DEF Nullifier
      <4> QED BY <4>1
    <3>3. m.account = n.account /\ m.position = n.position
      BY <3>2, KeysTellAccounts
    <3> QED BY <1>1, <3>3 DEF Inv, NotesInv
  <2> QED BY <2>1, <2>2 DEF NotesAreSpendable
<1> QED BY <1>1, InvHolds, PTL

\* The full transaction tells the same story as the compact block: an account
\* reads an output as received exactly when its scan found the note, and as sent
\* exactly when it paid it with its outgoing key, with the recipient's note and
\* the memo as it wrote them.
THEOREM DetailsAgreeWithScan ==
  Spec => []DetailsAgree
<1>1. ASSUME Inv PROVE DetailsAgree
  <2>1. ASSUME NEW x \in details
        PROVE  IF x.outgoing
               THEN /\ chain[x.index].tx.from = x.account /\ chain[x.index].tx.to # x.account
                    /\ x.found.memo = chain[x.index].tx.memo
                    /\ x.found.note = chain[x.index].tx.note
               ELSE x.index \notin altered =>
                      \E n \in notes : /\ n.position = x.index /\ n.account = x.account
                                       /\ n.note = x.found.note
    <3>1. TrueDetail(x)
      BY <1>1 DEF Inv, DetailsInv
    <3>2. CASE x.outgoing
      BY <3>1, <3>2 DEF TrueDetail
    <3>3. ASSUME ~x.outgoing, x.index \notin altered
          PROVE  \E n \in notes : /\ n.position = x.index /\ n.account = x.account
                                  /\ n.note = x.found.note
      <4>1. /\ x.index \in 1 .. scanned /\ ReadableAt(x.index) /\ x.account \in Accounts
            /\ x.account = chain[x.index].tx.to /\ x.found.note = chain[x.index].tx.note
        BY <3>1, <3>3 DEF TrueDetail
      <4>2. PICK n \in notes : n.position = x.index /\ n.account = chain[x.index].tx.to
        BY <1>1, <3>3, <4>1 DEF Inv, NotesInv
      <4>3. n.note = chain[x.index].tx.note
        BY <1>1, <3>3, <4>2 DEF Inv, NotesInv, TrueNote
      <4> QED BY <4>1, <4>2, <4>3
    <3> QED BY <3>2, <3>3
  <2>2. ASSUME NEW n \in notes, n.position \in fetched \ altered
        PROVE  \E x \in details : /\ x.index = n.position /\ x.account = n.account
                                  /\ ~x.outgoing
    <3>1. /\ n.account \in Accounts /\ n.account = chain[n.position].tx.to
          /\ ReadableAt(n.position)
      BY <1>1, <2>2 DEF Inv, NotesInv, TrueNote
    <3> QED BY <1>1, <2>2, <3>1 DEF Inv, DetailsInv
  <2>3. ASSUME NEW i \in fetched, chain[i].tx.from \in Accounts \ {chain[i].tx.to}
        PROVE  \E x \in details : x.index = i /\ x.outgoing /\ x.account = chain[i].tx.from
    <3>1. i \in 1 .. Len(chain)
      BY <1>1 DEF Inv, DetailsInv, NetworkInv, IsSequence
    <3>2. chain[i].tx.honest
      BY <1>1, <2>3, <3>1, DeliveryAssumption DEF Inv, NetworkInv, Sealed, Seals
    <3>3. ReadableAt(i)
      BY <1>1, <3>1, <3>2 DEF Inv, NetworkInv
    <3> QED BY <1>1, <2>3, <3>3 DEF Inv, DetailsInv
  <2> QED BY <2>1, <2>2, <2>3 DEF DetailsAgree
<1> QED BY <1>1, InvHolds, PTL
=============================================================================
