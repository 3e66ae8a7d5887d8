---------------------------- MODULE SaplingCircuit ----------------------------
(***************************************************************************)
(* The Spend and Output circuits (circuit/sapling.rs of zcash_proofs) and  *)
(* what they claim, computed outside a circuit (sapling.rs of              *)
(* zcash_primitives).                                                      *)
(*                                                                         *)
(* A witness is what a prover may choose: coordinates, bits and the nodes  *)
(* of a path, none of which need be honest.  A circuit is the set of the   *)
(* public inputs that its constraints admit with a witness.                *)
(***************************************************************************)
EXTENDS Circuits

CONSTANTS
  ValueBits,        \* 64
  IvkBits,          \* Fr::CAPACITY, to which the hash of the keys is cut
  Blake2s(_, _),    \* of a personalization and bits
  SpendingKeyGenerator, ProofGenerationKeyGenerator, NoteCommitmentRandomnessGenerator,
  NullifierPositionGenerator, ValueCommitmentValueGenerator,
  ValueCommitmentRandomnessGenerator   \* multiples in the subgroup

Times(generator, by) == FixedBaseMultiplication(CircuitGenerator(generator), by)
Repr(p) == ToBytes(p)

-----------------------------------------------------------------------------
(* The circuits *)

ExposeValueCommitment(value, rcv) ==
  Bind(Times(ValueCommitmentValueGenerator, value), LAMBDA v :
    Bind(Times(ValueCommitmentRandomnessGenerator, rcv), LAMBDA r : Add(v, r)))

RandomizeKey(ak, ar) == Bind(Times(SpendingKeyGenerator, ar), LAMBDA r : Add(ak, r))

IvkOf(ak, nk) == SubSeq(Blake2s("Zcashivk", Repr(ak) \o Repr(nk)), 1, IvkBits)

CommitTo(contents, rcm) ==
  Bind(PedersenHash(NoteCommitmentBits, contents), LAMBDA hash :
    Bind(Times(NoteCommitmentRandomnessGenerator, rcm), LAMBDA r : Add(hash, r)))

\* to_bits_le is not strict: it also admits the bits of n + Prime where they fit.
ToBitsLe(n, congruent) ==
  IF congruent /\ n + Prime < 2^FieldBits THEN Bits(n + Prime, FieldBits) ELSE Bits(n, FieldBits)

\* One level of the path; congruent says which bits the prover picks.
Ascend(level, cur, step) ==
  LET ul == IF step.right = 1 THEN step.node ELSE cur
      ur == IF step.right = 1 THEN cur ELSE step.node IN
  {p.u : p \in PedersenHash(MerkleTreeBits(level - 1),
                 ToBitsLe(ul, step.congruent[1]) \o ToBitsLe(ur, step.congruent[2]))}
Root(cm, path) ==
  FoldLeft(LAMBDA roots, i : Bind(roots, LAMBDA cur : Ascend(i, cur, path[i])),
           {cm.u}, [i \in DOMAIN path |-> i])
Position(path) == [i \in DOMAIN path |-> path[i].right]

\* Mutant: the anchor is compared whatever the value.
MutantAnchorHolds(root, anchor, value) == root = anchor

\* The anchor is compared for a note with a value only.
AnchorHolds(root, anchor, value) == ((root - anchor) * Number(value)) % Prime = 0

NullifierOf(nk, cm, path) ==
  {Blake2s("Zcash_nf", Repr(nk) \o Repr(rho)) :
     rho \in Bind(Times(NullifierPositionGenerator, Position(path)), LAMBDA at : Add(cm, at))}

SpendNote(w, ak, nk) ==
  Bind(Bind(Interpret(w.gd), NotSmallOrder), LAMBDA gd :
    Bind(Mul(gd, IvkOf(ak, nk)), LAMBDA pkd :
      CommitTo(w.value \o Repr(gd) \o Repr(pkd), w.rcm)))

Spend(w) ==
  Bind(Bind(Interpret(w.ak), NotSmallOrder), LAMBDA ak :
  Bind(Times(ProofGenerationKeyGenerator, w.nsk), LAMBDA nk :
  Bind(SpendNote(w, ak, nk), LAMBDA cm :
    {[rk |-> rk, cv |-> cv, anchor |-> w.anchor, nf |-> nf] :
       rk \in RandomizeKey(ak, w.ar),
       cv \in ExposeValueCommitment(w.value, w.rcv),
       nf \in IF \E root \in Root(cm, w.path) : AnchorHolds(root, w.anchor, w.value)
              THEN NullifierOf(nk, cm, w.path) ELSE {}})))

Output(w) ==
  Bind(Bind(Interpret(w.gd), NotSmallOrder), LAMBDA gd :
    {[cv |-> cv, epk |-> epk, cmu |-> cm.u] :
       cv \in ExposeValueCommitment(w.value, w.rcv),
       epk \in Mul(gd, w.esk),
       cm \in CommitTo(w.value \o Repr(gd) \o w.pkd, w.rcm)})

-----------------------------------------------------------------------------
(* The same outside a circuit; a point of the curve is its multiple of Base, *)
(* and a member of the subgroup its multiple there.                          *)

ValueCommitment(value, rcv) ==
  ValueCommitmentValueGenerator * value + ValueCommitmentRandomnessGenerator * rcv

\* ViewingKey::ivk drops the bits above the capacity.
ViewingKeyIvk(ak, nk) ==
  Number(SubSeq(Blake2s("Zcashivk", ToBytes(Affine(ak)) \o ToBytes(Member(nk))), 1, IvkBits))

CmFullPoint(value, gd, pkd, rcm) ==
  NoteCommitmentRandomnessGenerator * rcm
    + NativePedersenHash(NoteCommitmentBits, Bits(value, ValueBits) \o gd \o pkd)

MerkleHash(depth, lhs, rhs) ==
  Member(NativePedersenHash(MerkleTreeBits(depth),
                            Bits(lhs, FieldBits) \o Bits(rhs, FieldBits))).u

NoteNf(cm, nk, position) ==
  Blake2s("Zcash_nf", ToBytes(Member(nk))
                        \o ToBytes(Member(cm + NullifierPositionGenerator * position)))
=============================================================================
