---------------------------- MODULE SproutCircuit ----------------------------
(***************************************************************************)
(* The JoinSplit circuit (circuit/sprout of zcash_proofs), and how         *)
(* sprout.rs makes its witness and its public inputs.  As in Circuits, the *)
(* circuit is the set of public inputs its constraints admit.  SHA-256 is  *)
(* a free constructor; a 256-bit string is its leading nibble and the      *)
(* rest, which is what tells witness_u252 from witness_u256.               *)
(***************************************************************************)
EXTENDS Integers, Sequences, SequencesExt

CONSTANTS
  Prime,        \* the order of the field
  ByteBits,     \* 8
  ValueBytes,   \* 8
  TreeDepth

Width == ByteBits * ValueBytes
Block(x) == <<"block", x>>    \* sha256_block_no_padding
Hash(x) == <<"sha256", x>>    \* sha256
Zeros == <<"0", "zeros">>
U252(x) == x[2]

\* NoteValue: least significant bit first; bits_le turns each byte around.
ValueBits(n) == [i \in 1 .. Width |-> (n \div 2^(i - 1)) % 2]
BitsLe(n) ==
  [i \in 1 .. Width |->
    LET byte == (i - 1) \div ByteBits IN
    ValueBits(n)[(byte + 1) * ByteBits - ((i - 1) % ByteBits)]]
Combination(n) == FoldRight(LAMBDA b, sum : (b + 2 * sum) % Prime, ValueBits(n), 0)

-----------------------------------------------------------------------------
(* The circuit *)

Prf(a, b, c, d, x, y) == Block(<<<<a, b, c, d>>, U252(x), y>>)
PrfAPk(ask) == Prf(1, 1, 0, 0, ask, Zeros)
PrfNf(ask, rho) == Prf(1, 1, 1, 0, ask, rho)
PrfPk(ask, hSig, nonce) == Prf(0, nonce, 0, 0, ask, hSig)
PrfRho(phi, hSig, nonce) == Prf(0, nonce, 1, 0, phi, hSig)
NoteComm(apk, value, rho, r) == Hash(<<<<1, 0, 1, 1, 0, 0, 0, 0>>, apk, BitsLe(value), rho, r>>)

\* conditionally_swap_u256
Swap(lhs, rhs, condition) == IF condition = 1 THEN <<rhs, lhs>> ELSE <<lhs, rhs>>
Root(cm, path) ==
  FoldLeft(LAMBDA cur, layer : Block(Swap(cur, layer.sibling, layer.right)), cm, path)

\* The prover picks enforce: one for a note with a value, any bit for one without.
EnforceBits(value) == {e \in {0, 1} : (Combination(value) * (1 - e)) % Prime = 0}
InputNote(in, hSig, nonce, rt) ==
  LET apk == PrfAPk(in.ask)
      cm == NoteComm(apk, in.value, in.rho, in.r) IN
  {<<PrfNf(in.ask, in.rho), PrfPk(in.ask, hSig, nonce)>> :
     e \in {e \in EnforceBits(in.value) : e = 1 => Root(cm, in.path) = rt}}
OutputNote(out, phi, hSig, nonce) ==
  NoteComm(out.apk, out.value, PrfRho(phi, hSig, nonce), out.r)

\* What enters must also fit into a value, so it cannot wrap around the field.
Balanced(w) ==
  LET lhs == Combination(w.vpubOld) + Combination(w.inputs[1].value)
               + Combination(w.inputs[2].value)
      rhs == Combination(w.vpubNew) + Combination(w.outputs[1].value)
               + Combination(w.outputs[2].value) IN
  /\ \E total \in 0 .. 2^Width - 1 : (lhs - Combination(total)) % Prime = 0
  /\ (lhs - rhs) % Prime = 0

JoinSplit(w) ==
  {<<w.rt, w.hSig>> \o first \o second
     \o [i \in 1 .. 2 |-> OutputNote(w.outputs[i], w.phi, w.hSig, i - 1)]
     \o <<BitsLe(w.vpubOld), BitsLe(w.vpubNew)>> :
     first \in IF Balanced(w) THEN InputNote(w.inputs[1], w.hSig, 0, w.rt) ELSE {},
     second \in InputNote(w.inputs[2], w.hSig, 1, w.rt)}

-----------------------------------------------------------------------------
(* The callers *)

\* create_proof: the nodes of the path come from the root down, then the position.
AuthPath(siblings, position) ==
  [i \in 1 .. TreeDepth |->
    [sibling |-> siblings[TreeDepth + 1 - i], right |-> (position \div 2^(i - 1)) % 2]]

\* verify_proof: bytes are taken most significant bit first.
ToLeBytes(n) == [i \in 1 .. ValueBytes |-> (n \div 2^(ByteBits * (i - 1))) % 2^ByteBits]
BytesToBits(bytes) ==
  [i \in 1 .. ByteBits * Len(bytes) |->
    (bytes[(i - 1) \div ByteBits + 1] \div 2^(ByteBits - 1 - ((i - 1) % ByteBits))) % 2]
PublicInput(js) ==
  <<js.rt, js.hSig, js.nf[1], js.mac[1], js.nf[2], js.mac[2], js.cm[1], js.cm[2],
    BytesToBits(ToLeBytes(js.vpubOld)), BytesToBits(ToLeBytes(js.vpubNew))>>
=============================================================================
