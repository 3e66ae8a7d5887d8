----------------------------- MODULE MCAlgorithms -----------------------------
(***************************************************************************)
(* The pure algorithms, each grown step by step from what it starts with   *)
(* and compared with its definition in every state: keys along a ZIP 32    *)
(* path, texts and bytes as they are typed, a payment URI parameter by     *)
(* parameter, a batch of signatures, a proof-of-work solution under        *)
(* edits, a transaction of the demo extension, and the witnesses of the    *)
(* circuits under a prover's choices.                                      *)
(***************************************************************************)
EXTENDS Integers, Sequences, FiniteSets

CONSTANT MaxParams
VARIABLES part, s
vars == <<part, s>>

\* Two-byte indices of two values, of which the first and the last hash to no point.
Permutation == [j \in [1 .. 2 -> {0, 1}] |-> <<"d", j>>]
NoPoint == {Permutation[<<0, 0>>], Permutation[<<1, 1>>]}
\* Memos of three bytes, hashes of one, amounts of two decimals.
Encoding == [c \in {"%", " ", "="} |-> CASE c = "%" -> "25" [] c = " " -> "20" [] OTHER -> "3D"]
TenDigits == {"0", "1", "2", "3", "4", "5", "6", "7", "8", "9"}
INSTANCE PaymentUri WITH
  BadDiversifiers <- NoPoint, IndexBase <- 2, IndexBytes <- 2, HardBit <- 4, MaxDepth <- 3,
  MemoBytes <- 3, HashBytes <- 1, Coin <- 100, CoinDigits <- 2, MaxCoins <- 10,
  MaxParamIndex <- 9999, Encoded <- Encoding,
  QChars <- {"%", ".", "x", "20", "25", "3D"} \cup TenDigits,
  MemoText <- [c \in {"bWVtbw"} |-> "memo"]
Tool == INSTANCE DerivationTool WITH
  BadDiversifiers <- NoPoint, IndexBase <- 2, IndexBytes <- 2, HardBit <- 4, MaxDepth <- 3,
  MemoBytes <- 3, HashBytes <- 1, Ff1 <- Permutation

Last(q) == q[Len(q)]
Alter(q, e) == [q EXCEPT ![Len(q)] = e]

-----------------------------------------------------------------------------
(* Keys *)

Indices == {ToIndex([hard |-> h, n |-> n]) : h \in BOOLEAN, n \in {0, 1}}
KeyStart == LET m == MasterKey("seed") IN [sk |-> m, vk |-> <<ToFvk(m)>>]
DeriveChild ==
  /\ part = "keys"
  /\ \E i \in Indices :
       LET c == FromIndex(i) IN
       /\ DeriveSk(s.sk, c) # None
       /\ s' = [sk |-> DeriveSk(s.sk, c)[1],
                vk |-> IF s.vk = None THEN None ELSE DeriveFvk(s.vk[1], c)]
  /\ UNCHANGED part
ExportViewingKey ==
  /\ part = "keys" /\ s.vk = None
  /\ s' = [s EXCEPT !.vk = <<ToFvk(s.sk)>>]
  /\ UNCHANGED part

-----------------------------------------------------------------------------
(* Texts *)

Nets == {MainNetwork, TestNetwork}
SomeKey == SpendingKey("seed", MainNetwork.coinType, 0)[1]
SomeHash == TransparentAddress(TransparentKey("seed", MainNetwork.coinType, 0, 0)).hash
SomeAddress == AddressAt(ToFvk(SomeKey).key, Permutation, ZeroIndex)[1].to

Written(text) == s = [text |-> text, typos |-> 0]
TextStart ==
  \E n \in Nets \cup {RegtestConstants} :
    \/ Written(EncodePaymentAddress(n, SomeAddress))
    \/ Written(EncodeSpendingKey(n, SomeKey))
    \/ Written(EncodeViewingKey(n, ToFvk(SomeKey)))
    \/ \E b \in BOOLEAN : Written(EncodeTransparent(n, [script |-> b, hash |-> SomeHash]))
\* A text is sent over in another form, truncated, or with one part replaced.
MistypeText ==
  /\ part = "text" /\ s.typos = 0
  /\ LET typed(t) == s' = [text |-> t, typos |-> 1]
         data == s.text.data IN
     \/ typed([s.text EXCEPT !.form = "other"])
     \/ s.text.form = "Bech32" /\ typed([s.text EXCEPT !.form = "Bech32m"])
     \/ typed([s.text EXCEPT !.data = SubSeq(data, 1, Len(data) - 1)])
     \/ /\ s.text.form = "Bech32" /\ Len(data) = 2
        /\ \/ typed([s.text EXCEPT !.data = <<Permutation[<<0, 0>>], data[2]>>])
           \/ typed([s.text EXCEPT !.data = <<data[1], Identity>>])
           \/ typed([s.text EXCEPT !.data = data \o <<0>>])
  /\ UNCHANGED part

-----------------------------------------------------------------------------
(* Bytes of scripts, memos and headers *)

Fields == <<"v", "p", "m", "h", "t", "b", "n">>
ScriptByte == {118, 169, 1, 136, 172, 135}
MemoByte == {0, 65, 195, 169, 245, 246, 255}
HeaderByte == {0, 1, 2, 253, 254}
TypeByte ==
  /\ \/ part = "script" /\ Len(s) < 1 + 5 /\ \E b \in ScriptByte : s' = Append(s, b)
     \/ part = "memo" /\ Len(s) < 3 + 1 /\ \E b \in MemoByte : s' = Append(s, b)
     \/ part = "header" /\ Len(s) < Len(Fields) + 4 /\ \E b \in HeaderByte : s' = Append(s, b)
  /\ UNCHANGED part

-----------------------------------------------------------------------------
(* Payment URIs *)

ShieldedAddress == {"zs1", "zs2"}
TransparentAddresses == {"t1"}
\* An index with a leading zero is refused whatever follows, so one of these will do.
Suffixes(query) == {<< >>, <<".", "1">>} \cup {i \in {<<".", "0">>} : query = <<"label", << >>>>}
QueryValues ==
  {<<"amount", v>> : v \in {<<"0">>, <<"1", ".", "5", "0">>, <<"2", ".", "0", "5">>,
                            <<"0", ".", "1", "2", "3">>, <<"3", "x">>, <<"1", "1">>, <<".", "1">>}}
  \cup {<<"address", <<a>>>> : a \in {"zs2", "t1", "x"}}
  \cup {<<"memo", <<v>>>> : v \in {"bWVtbw", "x"}}
  \cup {<<"label", v>> : v \in {<<"x", "%", "20">>, <<"%", "x">>, << >>}}
  \cup {<<"other", <<"x", "%", "25">>>>, <<"req-other", <<"x">>>>}
AddParam ==
  /\ part = "uri" /\ s.params < MaxParams
  /\ \E q \in QueryValues : \E i \in Suffixes(q) :
       s' = [params |-> s.params + 1,
             text |-> s.text \o (IF s.params = 0 THEN << >> ELSE <<"&">>)
                      \o <<q[1]>> \o i \o <<"=">> \o q[2]]
  /\ UNCHANGED part

-----------------------------------------------------------------------------
(* Signatures *)

RankOf(x) == 2 * x[1] + 3 * x[2]
MCHStar(a, b) == (1 + RankOf(a) + 2 * RankOf(b[1]) + b[2]) % 5
RedJubjub == INSTANCE Signatures
  WITH Order <- 5, Cofactor <- 2, ScalarReps <- 0 .. 6, HStar <- MCHStar,
       Invalid <- <<"no point">>
Authorised(ask, ar, sighash) ==
  LET rk == RedJubjub!RandomizePublic(RedJubjub!PublicKey(ask), ar) IN
  [vk |-> rk, msg |-> <<rk, sighash>>, honest |-> TRUE,
   sig |-> RedJubjub!SpendSig(ask, ar, sighash, <<9, 1>>)]
AddSignature ==
  /\ part = "signatures" /\ Len(s) < 2
  /\ \E ask \in {2, 3}, ar \in {0, 4} : s' = Append(s, Authorised(ask, ar, 1))
  /\ UNCHANGED part
TamperSignature ==
  /\ part = "signatures" /\ s # << >> /\ Last(s).honest
  /\ LET e == [Last(s) EXCEPT !.honest = FALSE] IN
     \/ \E p \in RedJubjub!Points : s' = Alter(s, [e EXCEPT !.vk = p])
     \/ \E p \in RedJubjub!Points \cup {<<"no point">>} :
          s' = Alter(s, [e EXCEPT !.sig.rbar = p])
     \/ \E n \in 0 .. 6 : s' = Alter(s, [e EXCEPT !.sig.sbar = n])
     \/ s' = Alter(s, [e EXCEPT !.msg[2] = 2])
  /\ UNCHANGED part

-----------------------------------------------------------------------------
(* Proof of work *)

\* Blocks of one bit; 0 .. 7 in order is a solution.
MCXor(a, b) == (a + b) % 2
MCLeafHash(i, b) ==
  CASE b = 1 -> (i \div 2) % 2
    [] b = 2 -> i % 2
    [] b = 3 -> IF i % 4 = 0 THEN 1 ELSE 0
    [] b = 4 -> IF i % 4 = 1 THEN 1 ELSE 0
Pow == INSTANCE Equihash
  WITH WordBits <- 24, Blocks <- {0, 1}, ZeroBlock <- 0, Xor <- MCXor, LeafHash <- MCLeafHash
PowParams == [n |-> 32, k |-> 3]
EditSolution ==
  /\ part = "pow" /\ s.edits < 2
  /\ \/ \E i, j \in 1 .. 8 :
          s' = [s EXCEPT !.edits = @ + 1,
                         !.indices = [@ EXCEPT ![i] = s.indices[j], ![j] = s.indices[i]]]
     \/ \E i \in 1 .. 8, l \in 0 .. 11 :
          s' = [s EXCEPT !.edits = @ + 1, !.indices[i] = l]
  /\ UNCHANGED part

-----------------------------------------------------------------------------
(* The demo extension *)

Demo == INSTANCE DemoExtension WITH DemoId <- 0, PayloadBytes <- 32
Coin0(extension, mode, v) ==
  [value |-> 2, precondition |-> Demo!ToPayload(extension, mode, v)]
Locked == Demo!Hash1("p1", Demo!Hash2("p2"))
Coins == {Coin0(x, m, v) : x \in {0, 1}, m \in {0, 1, 2}, v \in {Locked, Demo!Hash2("p2")}}
           \cup {[Coin0(0, 0, Locked) EXCEPT !.precondition.payload.bytes = 31]}
NewTx == [tzeInputs |-> << >>, tzeOutputs |-> << >>, others |-> 0]
BuildDemo ==
  /\ part = "demo" /\ s.calls < 2
  /\ \E r \in
       {Demo!DemoOpen(s.tx, 0, v, Locked) : v \in {0 - 1, 2}}
       \cup {Demo!DemoTransferToClose(s.tx, x, c, v, p, Demo!Hash2(q)) :
               x \in {0, 1}, c \in Coins, v \in {0 - 1, 1}, p \in {"p1", "p2"}, q \in {"p1", "p2"}}
       \cup {Demo!DemoClose(s.tx, x, c, p) : x \in {0, 1}, c \in Coins, p \in {"p1", "p2"}}
       \cup {[result |-> Demo!Okay, tx |-> [s.tx EXCEPT !.others = 1]]} :
       s' = [calls |-> s.calls + 1, last |-> r.result, tx |-> r.tx]
  /\ UNCHANGED part

-----------------------------------------------------------------------------
(* Circuits *)

\* A curve of 40 points, walked over by the gadgets.
Small == INSTANCE Circuits WITH
  Prime <- 29, FieldBits <- 5, EdwardsD <- 27, MontgomeryA <- 23, MontgomeryScale <- 2,
  Base <- [u |-> 1, v |-> 7], SubgroupOrder <- 5, ScalarBits <- 3, FixedBaseChunks <- 1,
  ChunksPerGenerator <- 1, ExpWindow <- 2, PedersenGenerators <- <<1>>
WalkCurve ==
  /\ part = "curve"
  /\ \/ \E j \in 0 .. 39 : \E p \in Small!Add(s.at, Small!Affine(j)) :
          s' = [at |-> p, log |-> (s.log + j) % 40]
     \/ \E p \in Small!Double(s.at) : s' = [at |-> p, log |-> (2 * s.log) % 40]
  /\ UNCHANGED part

\* A curve whose subgroup has room for two chunks of a Pedersen hash.
MCBlake2s(personalization, bits) ==
  LET mixed[i \in 0 .. Len(bits)] ==
        IF i = 0 THEN Len(personalization) ELSE (3 * mixed[i - 1] + bits[i] + 1) % 251
  IN Small!Bits(mixed[Len(bits)], 8)
Sapling == INSTANCE SaplingCircuit WITH
  Prime <- 1033, FieldBits <- 11, EdwardsD <- 85, MontgomeryA <- 983, MontgomeryScale <- 499,
  Base <- [u |-> 5, v |-> 290], SubgroupOrder <- 137, ScalarBits <- 8, FixedBaseChunks <- 3,
  ChunksPerGenerator <- 2, ExpWindow <- 3, PedersenGenerators <- <<2, 5, 7, 11, 13, 17>>,
  ValueBits <- 3, IvkBits <- 7, Blake2s <- MCBlake2s,
  SpendingKeyGenerator <- 19, ProofGenerationKeyGenerator <- 23,
  NoteCommitmentRandomnessGenerator <- 29, NullifierPositionGenerator <- 31,
  ValueCommitmentValueGenerator <- 37, ValueCommitmentRandomnessGenerator <- 41

HashBit ==
  /\ part = "hash" /\ Len(s) < 9
  /\ \E b \in {0, 1} : s' = Append(s, b)
  /\ UNCHANGED part

\* The root over a commitment, hashed level by level outside a circuit.
NativeRoot(cmu, path) ==
  LET at[i \in 0 .. Len(path)] ==
        IF i = 0 THEN cmu
        ELSE IF path[i].right = 1 THEN Sapling!MerkleHash(i - 1, path[i].node, at[i - 1])
        ELSE Sapling!MerkleHash(i - 1, at[i - 1], path[i].node)
  IN at[Len(path)]
Step(node, right) == [node |-> node, right |-> right, congruent |-> <<FALSE, FALSE>>]
Scalar8(n) == Sapling!Bits(n, 8)
\* A point by its multiple of the generator; beyond the last one, no point.
Coordinates(k) == IF k < 8 * 137 THEN Sapling!Affine(k) ELSE [u |-> 2, v |-> 3]
Choices == {3, 16, 137, 8 * 137}
\* Spends under one spending key of a note of two units, or of none.
SpendWitness(value) ==
  LET ak == 8 * 19
      gd == 8 * 6
      nsk == 2
      ivk == Sapling!ViewingKeyIvk(ak, 23 * nsk)
      cm == Sapling!CmFullPoint(value, Sapling!ToBytes(Sapling!Affine(gd)),
                                Sapling!ToBytes(Sapling!Affine(gd * ivk)), 4)
      path == <<Step(7, 1), Step(1, 0)>> IN
  [ak |-> ak, nsk |-> Scalar8(nsk), ar |-> Scalar8(3),
   gd |-> gd, value |-> Sapling!Bits(value, 3), rcv |-> Scalar8(6),
   rcm |-> Scalar8(4), path |-> path, anchor |-> NativeRoot(Sapling!Member(cm).u, path)]
OutputWitness ==
  [gd |-> 8 * 6, esk |-> Scalar8(9), value |-> Sapling!Bits(5, 3),
   rcv |-> Scalar8(6), rcm |-> Scalar8(4), pkd |-> Sapling!ToBytes(Sapling!Affine(8 * 3))]
\* A prover takes another value for part of a witness.
ChooseWitness ==
  /\ part \in {"spend", "output"} /\ s.edits < 2
  /\ LET chosen(w) == s' = [w |-> w, edits |-> s.edits + 1] IN
     \/ \E k \in Choices : chosen([s.w EXCEPT !.gd = k])
     \/ \E n \in {0, 200} : \/ chosen([s.w EXCEPT !.rcv = Scalar8(n)])
                             \/ chosen([s.w EXCEPT !.rcm = Scalar8(n)])
     \/ chosen([s.w EXCEPT !.value = <<1, 1, 1>>])
     \/ /\ part = "output"
        /\ \/ \E n \in {0, 141} : chosen([s.w EXCEPT !.esk = Scalar8(n)])
           \/ chosen([s.w EXCEPT !.pkd[3] = 1 - @])
     \/ /\ part = "spend"
        /\ \/ \E k \in Choices : chosen([s.w EXCEPT !.ak = k])
           \/ \E n \in {0, 139} : \/ chosen([s.w EXCEPT !.nsk = Scalar8(n)])
                                   \/ chosen([s.w EXCEPT !.ar = Scalar8(n)])
           \/ \E i \in 1 .. 2 : \/ chosen([s.w EXCEPT !.path[i].right = 1 - @])
                                 \/ chosen([s.w EXCEPT !.path[i].node = 500])
                                 \/ chosen([s.w EXCEPT !.path[i].congruent[i] = TRUE])
           \/ chosen([s.w EXCEPT !.anchor = 5])
  /\ UNCHANGED part

Sprout == INSTANCE SproutCircuit WITH Prime <- 67, ByteBits <- 2, ValueBytes <- 2, TreeDepth <- 2
\* A note of four and a worthless one, the first at position 2 of a tree.
JoinSplitWitness ==
  LET ask == <<"0", "ask">>
      siblings == <<<<"0", "upper">>, <<"0", "lower">>>>
      cm == Sprout!NoteComm(Sprout!PrfAPk(ask), 4, <<"1", "rho1">>, <<"0", "r1">>)
      note(value, rho, r, path) ==
        [ask |-> ask, value |-> value, rho |-> rho, r |-> r, path |-> path] IN
  [vpubOld |-> 1, vpubNew |-> 2, hSig |-> <<"0", "hsig">>, phi |-> <<"0", "phi">>,
   rt |-> Sprout!Block(<<<<"0", "upper">>, Sprout!Block(<<cm, <<"0", "lower">>>>)>>),
   inputs |-> <<note(4, <<"1", "rho1">>, <<"0", "r1">>, Sprout!AuthPath(siblings, 2)),
                note(0, <<"1", "rho2">>, <<"0", "r2">>, Sprout!AuthPath(siblings, 1))>>,
   outputs |-> [i \in 1 .. 2 |-> [apk |-> <<"0", "apk">>, value |-> i, r |-> <<"0", "r3">>]]]
ChooseJoinSplit ==
  /\ part = "joinsplit" /\ s.edits < 3
  /\ LET chosen(w) == s' = [w |-> w, edits |-> s.edits + 1] IN
     \/ \E n \in {0, 1, 15} :
          \/ chosen([s.w EXCEPT !.vpubOld = n])
          \/ chosen([s.w EXCEPT !.vpubNew = n])
          \/ \E i \in 1 .. 2 : \/ chosen([s.w EXCEPT !.inputs[i].value = n])
                               \/ chosen([s.w EXCEPT !.outputs[i].value = n])
     \/ \E i \in 1 .. 2 :
          \/ chosen([s.w EXCEPT !.inputs[i].ask = <<"1", "ask">>])
          \/ chosen([s.w EXCEPT !.inputs[i].rho = <<"1", "rho1">>])
          \/ chosen([s.w EXCEPT !.inputs[1].path[i].right = 1 - @])
     \/ chosen([s.w EXCEPT !.rt = <<"other", "none">>])
  /\ UNCHANGED part

-----------------------------------------------------------------------------
Init ==
  \/ part = "keys" /\ s = KeyStart
  \/ part = "text" /\ TextStart
  \/ part \in {"script", "memo"} /\ s = << >>
  \/ part = "header" /\ s = Fields
  \/ part = "uri" /\ \E lead \in {<<"zcash:", "?">>} \cup
                               {<<"zcash:", a, "?">> : a \in {"zs1", "t1"}} :
       s = [params |-> 0, text |-> lead]
  \/ part = "signatures" /\ s = << >>
  \/ part = "pow" /\ s = [edits |-> 0, indices |-> [i \in 1 .. 8 |-> i - 1]]
  \/ part = "demo" /\ s = [calls |-> 0, last |-> "", tx |-> NewTx]
  \/ part = "curve" /\ s = [at |-> Small!Affine(0), log |-> 0]
  \/ part = "hash" /\ s = << >>
  \/ part = "spend" /\ \E v \in {0, 2} : s = [w |-> SpendWitness(v), edits |-> 0]
  \/ part = "output" /\ s = [w |-> OutputWitness, edits |-> 0]
  \/ part = "joinsplit" /\ s = [w |-> JoinSplitWitness, edits |-> 0]

Next ==
  \/ DeriveChild \/ ExportViewingKey
  \/ MistypeText \/ TypeByte \/ AddParam
  \/ AddSignature \/ TamperSignature
  \/ EditSolution \/ BuildDemo
  \/ WalkCurve \/ HashBit \/ ChooseWitness \/ ChooseJoinSplit

Spec == Init /\ [][Next]_vars

\* The members of a set of numbers, in order.
SortedIndices(set) ==
  LET at[k \in 0 .. Cardinality(set)] ==
        IF k = 0 THEN << >>
        ELSE Append(at[k - 1], CHOOSE i \in set :
               Cardinality({j \in set : j < i}) = k - 1)
  IN at[Cardinality(set)]
\* The y-th byte of a sequence of bits.
PackedByte(bits, y) ==
  LET sum[b \in 0 .. 8] == IF b = 0 THEN 0 ELSE 2 * sum[b - 1] + bits[8 * (y - 1) + b]
  IN sum[8]

\* What the native methods make of one seed.
RoutesAgree ==
  \A id \in {0, 1}, account \in {0, 1} :
  \A xsk \in {Tool!DeriveExtendedSpendingKeys(id, "seed", 2).value[account + 1]} :
  \A uvks \in {Tool!DeriveUnifiedViewingKeysFromSeed(id, "seed", 2).value} :
  \A row \in {Tool!AccountRows(id, uvks).value[account + 1]} :
    LET uvk == uvks[account + 1]
        net == Tool!ParseNetwork(id)[1]
        wif == Tool!DeriveTransparentSecretKeyFromSeed(id, "seed", account, 0).value IN
    /\ Tool!DeriveExtendedFullViewingKey(id, xsk) = Tool!Returned(uvk.extfvk)
    /\ {Tool!DeriveShieldedAddressFromSeed(id, "seed", account),
        Tool!DeriveShieldedAddressFromViewingKey(id, uvk.extfvk)} = {Tool!Returned(row.address)}
    /\ {Tool!DeriveTransparentAddressFromSeed(id, "seed", account, 0),
        Tool!DeriveTransparentAddressFromPrivKey(id, wif),
        Tool!DeriveTransparentAddressFromPubKey(id, uvk.extpub)} = {Tool!Returned(row.transparent)}
    /\ EncodePaymentAddress(net, Tool!RowAddress(net, row).val[1]) = row.address
    /\ EncodeViewingKey(net, Tool!RowViewingKey(net, row).val[1]) = row.extfvk
    /\ \A text \in {row.address, row.transparent} :
         /\ Tool!IsValidShieldedAddress(id, text) = Tool!Returned(text = row.address)
         /\ Tool!IsValidTransparentAddress(id, text) = Tool!Returned(text = row.transparent)
         /\ Tool!IsValidShieldedAddress(1 - id, text) = Tool!Threw
    /\ {Tool!DeriveExtendedFullViewingKey(1 - id, xsk), Tool!AccountRows(1 - id, uvks),
        Tool!DeriveShieldedAddressFromViewingKey(1 - id, uvk.extfvk)} = {Tool!Threw}
    /\ \A height \in {1, 2000000} : Tool!BranchIdForHeight(1, height).value = "Sapling"
    /\ Tool!BranchIdForHeight(0, 207499).value = "Sprout"
    /\ \A nu \in DOMAIN net.activation : net.activation[nu] > 1 =>
         Tool!BranchIdForHeight(id, net.activation[nu]).value = nu

\* What the gadgets make of the point that is k times the generator.
GadgetsFollowTheGroup(p, k) ==
  LET subgroup == {8 * e : e \in 1 .. 4} IN
  /\ p = Small!Affine(k)
  /\ Small!NotSmallOrder(p) = {} <=> (8 * k) % 40 = 0
  /\ \A by \in [1 .. 4 -> {0, 1}] : Small!Mul(p, by) = {Small!Affine(k * Small!Number(by))}
  /\ \A v \in Small!Field :
       Small!Interpret([p EXCEPT !.v = v]) # {} <=>
         \E j \in 0 .. 39 : Small!Affine(j) = [p EXCEPT !.v = v]
  /\ k \in subgroup =>
       /\ Small!IntoEdwards(Small!ToMontgomery(p)) = {p}
       /\ \A j \in subgroup \ {k} : Small!Affine(j).u # p.u
       /\ \A j \in subgroup \ {k, 40 - k} :
            Small!AddMontgomery(Small!ToMontgomery(p), Small!ToMontgomery(Small!Affine(j)))
              = {Small!ToMontgomery(Small!Affine(k + j))}

\* What a witness claims, computed outside a circuit.
LargeOrder(k) == k < 8 * 137 /\ k % 137 # 0
NumberIn(bits) == Sapling!Number(bits)
ClaimedCv(w) == Sapling!Member(Sapling!ValueCommitment(NumberIn(w.value), NumberIn(w.rcv)))
SpentCommitment(w) ==
  LET ivk == Sapling!ViewingKeyIvk(w.ak, 23 * NumberIn(w.nsk)) IN
  Sapling!CmFullPoint(NumberIn(w.value), Sapling!ToBytes(Sapling!Affine(w.gd)),
                      Sapling!ToBytes(Sapling!Affine(w.gd * ivk)), NumberIn(w.rcm))
SpendInputs(w) ==
  [rk |-> Sapling!Affine(w.ak + 8 * 19 * NumberIn(w.ar)), cv |-> ClaimedCv(w),
   anchor |-> w.anchor,
   nf |-> Sapling!NoteNf(SpentCommitment(w), 23 * NumberIn(w.nsk),
                         NumberIn(Sapling!Position(w.path)))]
OutputInputs(w) ==
  [cv |-> ClaimedCv(w), epk |-> Sapling!Affine(w.gd * NumberIn(w.esk)),
   cmu |-> Sapling!Member(Sapling!CmFullPoint(NumberIn(w.value),
             Sapling!ToBytes(Sapling!Affine(w.gd)), w.pkd, NumberIn(w.rcm))).u]

\* What the verifier of a JoinSplit is shown, and when its prover has a witness.
JoinSplitInputs(w) ==
  Sprout!PublicInput(
    [rt |-> w.rt, hSig |-> w.hSig, vpubOld |-> w.vpubOld, vpubNew |-> w.vpubNew,
     nf |-> [i \in 1 .. 2 |-> Sprout!PrfNf(w.inputs[i].ask, w.inputs[i].rho)],
     mac |-> [i \in 1 .. 2 |-> Sprout!PrfPk(w.inputs[i].ask, w.hSig, i - 1)],
     cm |-> [i \in 1 .. 2 |-> Sprout!OutputNote(w.outputs[i], w.phi, w.hSig, i - 1)]])
InTree(in, rt) ==
  LET cm == Sprout!NoteComm(Sprout!PrfAPk(in.ask), in.value, in.rho, in.r)
      Node(l, r, right) == Sprout!Block(IF right = 1 THEN <<r, l>> ELSE <<l, r>>) IN
  rt = Node(Node(cm, <<"0", "lower">>, in.path[1].right), <<"0", "upper">>, in.path[2].right)
HasJoinSplit(w) ==
  LET entering == w.vpubOld + w.inputs[1].value + w.inputs[2].value IN
  /\ entering = w.vpubNew + w.outputs[1].value + w.outputs[2].value
  /\ entering < 16
  /\ \A i \in 1 .. 2 : w.inputs[i].value = 0 \/ InTree(w.inputs[i], w.rt)

\* A URI that parses renders to one that parses to the same payments, in order.
RendersToItself(text) ==
  LET all == ShieldedAddress \cup TransparentAddresses
      Parsed(uri) == FromUri(uri, all, TransparentAddresses)
      inOrder(val, order) == [k \in 1 .. Len(order) |-> val[order[k]]] IN
  \A parsed \in {Parsed(text)} : parsed.ok /\ DOMAIN parsed.val # {} =>
  \A payments \in {inOrder(parsed.val, SortedIndices(DOMAIN parsed.val))} :
  \A again \in {Parsed(ToUri(payments)[1])} :
    /\ again.ok
    /\ again.val = [i \in 0 .. Len(payments) - 1 |-> payments[i + 1]]
    /\ \A k \in 1 .. Len(payments) :
         payments[k].amount \in 0 .. 10 * 100
         /\ (payments[k].to \in TransparentAddresses => payments[k].memo = None)

-----------------------------------------------------------------------------
(* Properties *)

\* A viewing key derived along a path is the viewing key of the spending key
\* derived along it (zip32.rs derive_child of both), hardened steps are closed
\* to it, both keys survive their encoding, and the address at an index is at
\* the least index from there that has one.  The tool's keys and addresses of an
\* account are the same on every route, from the seed, a spending, a viewing, a
\* private or a public key or the row of the account, and of no other network.
KeysAgree ==
  part = "keys" =>
    LET view == ToFvk(s.sk) IN
    /\ s = KeyStart => RoutesAgree
    /\ s.vk # None => s.vk[1] = view
    /\ s.sk.depth < 3 => \A i \in Indices :
         FromIndex(i).hard <=> DeriveFvk(view, FromIndex(i)) = None
    /\ ReadXsk(WriteXsk(s.sk)) = <<s.sk>> /\ ReadXfvk(WriteXfvk(view)) = <<view>>
    /\ \A j \in DOMAIN Permutation :
         LET at == AddressAt(view.key, Permutation, j)
             later == {i \in DOMAIN Permutation :
                         IndexValue(i) >= IndexValue(j) /\ GD(Permutation[i]) # None} IN
         /\ at = None <=> later = {}
         /\ at # None => /\ at[1].j \in later
                         /\ \A i \in later : IndexValue(at[1].j) <= IndexValue(i)
                         /\ AddressFromBytes(AddressToBytes(at[1].to)) = <<at[1].to>>

\* What a network decodes it encodes to the same text (encoding.rs, address.rs),
\* so no text is an address of two networks with different prefixes; a script
\* with an address is that address's script (legacy.rs); a memo that parses is
\* encoded to the bytes it came from (memo.rs); a header is written back to the
\* bytes it was read from (block.rs); and a URI from_uri accepts is rendered by
\* to_uri to one it reads back to the same payments, in some order (zip321.rs).
ReadingIsCanonical ==
  /\ part = "text" => \A net \in Nets \cup {RegtestConstants} :
       LET t == s.text
           Same(decoded, Encode(_)) == decoded.ok /\ decoded.val # None =>
                                         Encode(decoded.val[1]) = t IN
       /\ t.form \in {"Bech32", "Bech32m"} =>
            /\ Same(DecodePaymentAddress(net, t), LAMBDA a : EncodePaymentAddress(net, a))
            /\ Same(DecodeSpendingKey(net, t), LAMBDA k : EncodeSpendingKey(net, k))
            /\ Same(DecodeViewingKey(net, t), LAMBDA k : EncodeViewingKey(net, k))
       /\ DecodeRecipient(net, t) # None => EncodeRecipient(net, DecodeRecipient(net, t)[1]) = t
  /\ part = "script" /\ AddressOfScript(s) # None => ScriptOf(AddressOfScript(s)[1]) = s
  /\ part = "memo" /\ MemoFromBytes(s) # None =>
       LET m == MemoFromBytes(s)[1] IN
       /\ ParseMemo(m) # None => EncodeMemo(ParseMemo(m)[1]) = m
       /\ AsSlice(m) # << >> => Last(AsSlice(m)) # 0
       /\ MemoFromBytes(AsSlice(m)) = <<m>>
  /\ part = "header" /\ ReadBlockHeader(s).ok =>
       WriteHeader(ReadBlockHeader(s).val) \o ReadBlockHeader(s).rest = s
  /\ part = "uri" => RendersToItself(s.text)

\* A spend authorisation verifies under the randomised key; a tampered entry
\* verifies only if its equation still holds in the prime-order subgroup; and a
\* batch with a bad entry passes for at most one scalar in Order of those the
\* verifier draws (redjubjub.rs).
SignaturesVerify ==
  part = "signatures" =>
    LET q == 5
        Holds(e) == /\ e.sig.rbar # <<"no point">> /\ e.sig.sbar < q
                    /\ e.sig.sbar % q =
                         (e.sig.rbar[1] + MCHStar(e.sig.rbar, e.msg) * e.vk[1]) % q
        passing == {z \in [1 .. Len(s) -> 0 .. q - 1] : RedJubjub!BatchVerify(s, z)} IN
    /\ \A k \in 1 .. Len(s) : /\ s[k].honest => RedJubjub!Verify(s[k].vk, s[k].msg, s[k].sig)
                              /\ RedJubjub!Verify(s[k].vk, s[k].msg, s[k].sig) <=> Holds(s[k])
    /\ IF \A k \in 1 .. Len(s) : Holds(s[k])
       THEN passing = [1 .. Len(s) -> 0 .. q - 1]
       ELSE Cardinality(passing) <= q^(Len(s) - 1)

\* The tree validator accepts exactly the sequences of distinct indices whose
\* every subtree starts left of its sibling and collides on its level's block,
\* with zero left at the root; indices survive their packing (verify.rs).
SolutionsAreValid ==
  part = "pow" =>
    LET idx == s.indices
        Xor(from, size, b) ==
          Cardinality({i \in from .. from + size - 1 : MCLeafHash(idx[i], b) = 1}) % 2
        nodes(size) == {1 + m * size : m \in 0 .. (8 \div size) - 1}
        bits(i) == [b \in 1 .. 9 |-> (i \div 2^(9 - b)) % 2]
        packed == [y \in 1 .. 9 |-> PackedByte(Flatten([i \in 1 .. 8 |-> bits(idx[i])]), y)] IN
    /\ Pow!CheckIndices(PowParams, idx).outcome = "ok" <=>
         /\ \A i, j \in 1 .. 8 : i # j => idx[i] # idx[j]
         /\ \A h \in 1 .. 3 : \A m \in nodes(2^h) :
              /\ idx[m] < idx[m + 2^(h - 1)]
              /\ Xor(m, 2^h, h) = 0
         /\ Xor(1, 8, 4) = 0
    /\ Pow!IndicesFromMinimal(PowParams, packed) = Pow!Good(idx)

\* The demo's locks hold: an input the epoch accepts that spends a coin locked by
\* p1 then p2 either moves it, in a transaction with no other part, to the one
\* output that p2 releases, or releases it with p2; and what one call of the
\* builder made in full is accepted, unless the coin or the builder is of
\* another extension (demo.rs).
DemoLocksHold ==
  part = "demo" =>
    /\ \A i \in 1 .. Len(s.tx.tzeInputs) :
         LET in == s.tx.tzeInputs[i]
             lock == in.coin.precondition IN
         Demo!VerifyEpoch(lock, in.witness, s.tx) = Demo!Okay =>
           /\ lock.extension_id = 0
           /\ lock.payload.value = Locked =>
                /\ in.witness.payload.value = "p1"
                /\ Len(s.tx.tzeOutputs) = 1 /\ s.tx.others = 0
                /\ s.tx.tzeOutputs[1].precondition.mode = Demo!Close
                /\ s.tx.tzeOutputs[1].precondition.payload.value = Demo!Hash2("p2")
           /\ lock.payload.value = Demo!Hash2("p2") => in.witness.payload.value = "p2"
    /\ s.calls = 1 /\ s.last = Demo!Okay /\ Len(s.tx.tzeInputs) = 1
         /\ s.tx.tzeInputs[1].coin.precondition.extension_id = 0 =>
         Demo!VerifyEpoch(s.tx.tzeInputs[1].coin.precondition, s.tx.tzeInputs[1].witness, s.tx)
           = Demo!Okay

\* The circuits admit what they claim and nothing else, whatever a prover chooses:
\* the gadgets are complete and leave no freedom (ecc.rs), the Pedersen hash of a
\* circuit is the one outside it (pedersen_hash.rs), and the public inputs a
\* witness of large order admits are the key, commitments, nullifier and, unless
\* the note is worthless, the root that sapling.rs computes from it; only the root
\* of a prover whose path is not in canonical bits is free.  A JoinSplit is admitted
\* exactly when its values balance as 64-bit integers and its notes of any value
\* are in the tree, with the inputs that verify_proof packs (sprout.rs).
CircuitsProveClaims ==
  /\ part = "curve" => GadgetsFollowTheGroup(s.at, s.log)
  /\ part = "hash" =>
       /\ Sapling!PedersenHash(Sapling!MerkleTreeBits(21), s) =
            {Sapling!Member(Sapling!NativePedersenHash(Sapling!MerkleTreeBits(21), s))}
       /\ s # << >> => Sapling!Times(19, s) = {Sapling!Member(19 * Sapling!Number(s))}
  /\ part = "spend" =>
       LET w == s.w
           keys == LargeOrder(w.ak) /\ LargeOrder(w.gd)
           canonical == \A i \in 1 .. 2 : w.path[i].congruent = <<FALSE, FALSE>>
           anchored == w.value = <<0, 0, 0>>
                         \/ NativeRoot(Sapling!Member(SpentCommitment(w)).u, w.path) = w.anchor
           admitted == Sapling!Spend([w EXCEPT !.ak = Coordinates(@), !.gd = Coordinates(@)])
       IN /\ admitted # {} => keys /\ admitted = {SpendInputs(w)}
          /\ canonical => (admitted # {} <=> keys /\ anchored)
  /\ part = "output" =>
       Sapling!Output([s.w EXCEPT !.gd = Coordinates(@)]) =
         {OutputInputs(w) : w \in {w \in {s.w} : LargeOrder(w.gd)}}
  /\ part = "joinsplit" =>
       Sprout!JoinSplit(s.w) = {JoinSplitInputs(w) : w \in {w \in {s.w} : HasJoinSplit(w)}}
=============================================================================
