------------------------------- MODULE Addresses -------------------------------
(***************************************************************************)
(* The text encodings of keys, addresses and memos, and the scripts of     *)
(* transparent addresses: zcash_client_backend encoding.rs, address.rs and *)
(* keys.rs; zcash_primitives legacy.rs, memo.rs, consensus.rs, block.rs.   *)
(*                                                                         *)
(* A Bech32 string is its prefix, its data and whether it is Bech32 (or    *)
(* Bech32m); a Base58Check string is its bytes; any other text is neither. *)
(***************************************************************************)
EXTENDS SaplingKeys

CONSTANTS
  MemoBytes,     \* the length of a memo: 512
  HashBytes      \* the length of a key or script hash: 20

-----------------------------------------------------------------------------
(* Networks.  0 stands for an activation height that is not set.           *)

Upgrades == <<"Overwinter", "Sapling", "Blossom", "Heartwood", "Canopy", "Nu5">>

\* constants/*.rs and the activation heights of consensus.rs.
Activation(overwinter, sapling, later) ==
  [nu \in {Upgrades[i] : i \in 1 .. Len(Upgrades)} |->
     CASE nu = "Overwinter" -> overwinter
       [] nu = "Sapling" -> sapling
       [] OTHER -> later[nu]]
Later == {Upgrades[i] : i \in 3 .. Len(Upgrades)}
MainConstants ==
  [coinType |-> 141, hrpSpending |-> "secret-extended-key-main", hrpViewing |-> "zviews",
   hrpAddress |-> "zs", pubkeyPrefix |-> <<28, 184>>, scriptPrefix |-> <<28, 189>>]
TestConstants ==
  [coinType |-> 1, hrpSpending |-> "secret-extended-key-test",
   hrpViewing |-> "zxviewtestsapling", hrpAddress |-> "ztestsapling",
   pubkeyPrefix |-> <<29, 37>>, scriptPrefix |-> <<28, 186>>]
\* No network of consensus.rs uses these.
RegtestConstants ==
  [coinType |-> 1, hrpSpending |-> "secret-extended-key-regtest",
   hrpViewing |-> "zxviewregtestsapling", hrpAddress |-> "zregtestsapling",
   pubkeyPrefix |-> <<29, 37>>, scriptPrefix |-> <<28, 186>>]
MainNetwork == MainConstants @@
  [activation |-> Activation(1, 1, [nu \in Later |-> 0])]
TestNetwork == TestConstants @@
  [activation |-> Activation(207500, 280000, [Blossom |-> 584000, Heartwood |-> 903800,
                                              Canopy |-> 1028500, Nu5 |-> 1842420])]

IsActive(net, nu, height) ==
  net.activation[nu] # 0 /\ net.activation[nu] <= height

\* BranchId::for_height: the last active upgrade in their order.
BranchForHeight(net, height) ==
  LET active == {i \in 1 .. Len(Upgrades) : IsActive(net, Upgrades[i], height)} IN
  IF active = {} THEN "Sprout"
  ELSE Upgrades[CHOOSE i \in active : \A j \in active : j <= i]

-----------------------------------------------------------------------------
(* Bech32 and Base58Check                                                  *)

Error == [ok |-> FALSE]
Value(option) == [ok |-> TRUE, val |-> option]

Bech32Encode(hrp, data) == [form |-> "Bech32", hrp |-> hrp, data |-> data]
Bech32Decode(hrp, s, read(_)) ==
  IF s.form \notin {"Bech32", "Bech32m"} THEN Error
  ELSE IF s.hrp # hrp \/ s.form # "Bech32" THEN Value(None)
  ELSE Value(read(s.data))

EncodeSpendingKey(net, xsk) == Bech32Encode(net.hrpSpending, WriteXsk(xsk))
DecodeSpendingKey(net, s) == Bech32Decode(net.hrpSpending, s, ReadXsk)
EncodeViewingKey(net, xfvk) == Bech32Encode(net.hrpViewing, WriteXfvk(xfvk))
DecodeViewingKey(net, s) == Bech32Decode(net.hrpViewing, s, ReadXfvk)
EncodePaymentAddress(net, a) == Bech32Encode(net.hrpAddress, AddressToBytes(a))
DecodePaymentAddress(net, s) ==
  Bech32Decode(net.hrpAddress, s,
    LAMBDA data : IF Len(data) # 2 THEN None ELSE AddressFromBytes(data))

\* A transparent address: of a public key or of a script.
EncodeTransparent(net, a) ==
  [form |-> "Base58",
   data |-> (IF a.script THEN net.scriptPrefix ELSE net.pubkeyPrefix) \o a.hash]
StartsWith(data, prefix) ==
  Len(data) >= Len(prefix) /\ SubSeq(data, 1, Len(prefix)) = prefix
DecodeTransparent(net, s) ==
  LET Rest(prefix) == SubSeq(s.data, Len(prefix) + 1, Len(s.data))
      Hash(prefix, script) ==
        IF Len(Rest(prefix)) # HashBytes THEN None
        ELSE <<[script |-> script, hash |-> Rest(prefix)]>> IN
  CASE s.form # "Base58" -> Error
    [] s.form = "Base58" /\ StartsWith(s.data, net.pubkeyPrefix) ->
         Value(Hash(net.pubkeyPrefix, FALSE))
    [] s.form = "Base58" /\ StartsWith(s.data, net.scriptPrefix) ->
         Value(Hash(net.scriptPrefix, TRUE))
    [] OTHER -> Value(None)

\* RecipientAddress
DecodeRecipient(net, s) ==
  LET shielded == DecodePaymentAddress(net, s)
      transparent == DecodeTransparent(net, s) IN
  IF shielded.ok /\ shielded.val # None
  THEN <<[kind |-> "shielded", to |-> shielded.val[1]]>>
  ELSE IF transparent.ok /\ transparent.val # None
  THEN <<[kind |-> "transparent", to |-> transparent.val[1]]>>
  ELSE None
EncodeRecipient(net, r) ==
  IF r.kind = "shielded" THEN EncodePaymentAddress(net, r.to)
  ELSE EncodeTransparent(net, r.to)

-----------------------------------------------------------------------------
(* Scripts: push of data, and the two scripts with an address.             *)

PushData(data) ==
  LET n == Len(data) IN
  (CASE n < 76 -> <<n>>
     [] n \in 76 .. 255 -> <<76, n>>
     [] n \in 256 .. 65535 -> <<77>> \o LowBytes(n, 2)
     [] OTHER -> <<78>> \o LowBytes(n, 4)) \o data

ScriptOf(a) ==
  IF a.script THEN <<169>> \o PushData(a.hash) \o <<135>>
  ELSE <<118, 169>> \o PushData(a.hash) \o <<136, 172>>

AddressOfScript(s) ==
  LET n == Len(s) IN
  CASE n = HashBytes + 5 /\ SubSeq(s, 1, 3) = <<118, 169, HashBytes>>
         /\ SubSeq(s, n - 1, n) = <<136, 172>> ->
         <<[script |-> FALSE, hash |-> SubSeq(s, 4, n - 2)]>>
    [] n = HashBytes + 3 /\ SubSeq(s, 1, 2) = <<169, HashBytes>> /\ s[n] = 135 ->
         <<[script |-> TRUE, hash |-> SubSeq(s, 3, n - 1)]>>
    [] OTHER -> None

-----------------------------------------------------------------------------
(* Keys of a seed                                                          *)

\* spending_key, of a seed of 32 bytes or more: m / 32' / coin' / account'.
SpendingKey(seed, coin, account) ==
  FromPath(MasterKey(seed),
    <<[hard |-> TRUE, n |-> 32], [hard |-> TRUE, n |-> coin],
      [hard |-> TRUE, n |-> account]>>)

\* derive_extended_private_key_from_seed: BIP 44, m / 44' / coin' / account' /
\* 0 / index.
TransparentPath(coin, account, index) ==
  <<[hard |-> TRUE, n |-> 44], [hard |-> TRUE, n |-> coin],
    [hard |-> TRUE, n |-> account], [hard |-> FALSE, n |-> 0],
    [hard |-> FALSE, n |-> index]>>
TransparentKey(seed, coin, account, index) ==
  <<"bip32", seed, TransparentPath(coin, account, index)>>
PublicKeyOf(secret) == <<"point", secret>>
AddressOfPublicKey(pk) == [script |-> FALSE, hash |-> <<<<"hash160", pk>>>>]
TransparentAddress(secret) == AddressOfPublicKey(PublicKeyOf(secret))

\* Wif: both forms end in the byte that marks a compressed key.
WifOf(secret, compressed) ==
  [form |-> "Base58", data |-> <<128, secret, IF compressed THEN 1 ELSE 0>>]
SecretOfWif(s) == IF s.form = "Base58" THEN <<s.data[2]>> ELSE None

-----------------------------------------------------------------------------
(* Memos.  The bytes that matter are the first one and the zeros at the end. *)

EmptyMemo == [i \in 1 .. MemoBytes |-> IF i = 1 THEN 246 ELSE 0]
Pad(bytes) == [i \in 1 .. MemoBytes |-> IF i <= Len(bytes) THEN bytes[i] ELSE 0]
MemoFromBytes(bytes) == IF Len(bytes) > MemoBytes THEN None ELSE <<Pad(bytes)>>
\* Mutant: the slice ends at the first zero.
MutantAsSlice(memo) ==
  LET zeros == {i \in 1 .. MemoBytes : memo[i] = 0} IN
  SubSeq(memo, 1, IF zeros = {} THEN MemoBytes
                  ELSE (CHOOSE i \in zeros : \A j \in zeros : i <= j) - 1)

AsSlice(memo) ==
  LET used == {i \in 1 .. MemoBytes : memo[i] # 0} IN
  SubSeq(memo, 1, IF used = {} THEN 0 ELSE CHOOSE i \in used : \A j \in used : j <= i)

\* UTF-8 of one and two byte characters.
IsUtf8(s) ==
  LET good[i \in 1 .. Len(s) + 2] ==
        \/ i = Len(s) + 1
        \/ i <= Len(s) /\ s[i] < 128 /\ good[i + 1]
        \/ i < Len(s) /\ s[i] \in 194 .. 223 /\ s[i + 1] \in 128 .. 191 /\ good[i + 2]
  IN good[1]

ParseMemo(m) ==
  CASE m = EmptyMemo -> <<[kind |-> "Empty"]>>
    [] m[1] = 255 -> <<[kind |-> "Arbitrary", bytes |-> Tail(m)]>>
    [] m[1] <= 244 -> IF IsUtf8(AsSlice(m)) THEN <<[kind |-> "Text", text |-> AsSlice(m)]>>
                      ELSE None
    [] OTHER -> <<[kind |-> "Future", memo |-> m]>>

EncodeMemo(memo) ==
  CASE memo.kind = "Empty" -> EmptyMemo
    [] memo.kind = "Text" -> Pad(memo.text)
    [] memo.kind = "Future" -> memo.memo
    [] memo.kind = "Arbitrary" -> <<255>> \o memo.bytes

MemoFromText(text) ==
  CASE text = << >> -> <<[kind |-> "Empty"]>>
    [] Len(text) \in 1 .. MemoBytes -> <<[kind |-> "Text", text |-> text]>>
    [] OTHER -> None

-----------------------------------------------------------------------------
(* Block headers                                                           *)

WriteHeader(h) ==
  <<h.version, h.prev, h.merkle, h.sapling, h.time, h.bits, h.nonce>>
    \o WriteVector(h.solution, LAMBDA b : <<b>>)
HeaderHash(h) == <<"sha256d", WriteHeader(h)>>
ReadBlockHeader(s) ==
  IF Len(s) < 7 THEN Fail
  ELSE Then(ReadVector(SubSeq(s, 8, Len(s)), ReadToken), LAMBDA solution, rest :
         Ok([version |-> s[1], prev |-> s[2], merkle |-> s[3], sapling |-> s[4],
             time |-> s[5], bits |-> s[6], nonce |-> s[7], solution |-> solution], rest))
=============================================================================
