------------------------------- MODULE Circuits -------------------------------
(***************************************************************************)
(* The gadgets the Sapling circuits are built from: circuit/ecc.rs,        *)
(* circuit/pedersen_hash.rs and constants.rs of zcash_proofs, beside the   *)
(* Pedersen hash computed outside a circuit (zcash_primitives), over any   *)
(* curve of Jubjub's shape.                                                *)
(*                                                                         *)
(* A gadget is what its constraints admit: the set of the outputs that     *)
(* some assignment of its variables satisfies, whatever a prover chooses.  *)
(* The closures that compute an assignment are one way to satisfy them.    *)
(* Outside a circuit a point is its multiple of a generator of the curve.  *)
(***************************************************************************)
EXTENDS Integers, Sequences, SequencesExt

CONSTANTS
  Prime,                \* the order of the field
  FieldBits,            \* Scalar::NUM_BITS
  EdwardsD, MontgomeryA, MontgomeryScale,
  Base,                 \* a generator of the curve
  SubgroupOrder,        \* the order of the prime-order subgroup, which has cofactor 8
  ScalarBits,           \* Fr::NUM_BITS
  FixedBaseChunks,      \* FIXED_BASE_CHUNKS_PER_GENERATOR
  ChunksPerGenerator,   \* PEDERSEN_HASH_CHUNKS_PER_GENERATOR
  ExpWindow,            \* PEDERSEN_HASH_EXP_WINDOW_SIZE
  PedersenGenerators    \* PEDERSEN_HASH_GENERATORS, as multiples in the subgroup

Field == 0 .. Prime - 1
\* invert: a to the power of Prime - 2.
Recip(a) ==
  LET power[n \in 0 .. Prime - 2] ==
        IF n = 0 THEN 1
        ELSE LET root == power[n \div 2]
                 square == (root * root) % Prime IN
             IF n % 2 = 0 THEN square ELSE (square * (a % Prime)) % Prime
  IN power[Prime - 2]
\* What the constraint a * w = b leaves of w.
Solutions(a, b) ==
  IF a % Prime # 0 THEN {((b % Prime) * Recip(a)) % Prime}
  ELSE IF b % Prime = 0 THEN Field ELSE {}
Bind(S, F(_)) == UNION {F(x) : x \in S}

Bits(n, width) == [i \in 1 .. width |-> (n \div 2^(i - 1)) % 2]
Number(bits) == FoldRight(LAMBDA b, n : b + 2 * n, bits, 0)
\* bits.chunks(3), the last one filled up with zeros.
ChunkCount(bits) == (Len(bits) + 2) \div 3
Chunk(bits, i) ==
  [k \in 1 .. 3 |-> IF 3 * (i - 1) + k <= Len(bits) THEN bits[3 * (i - 1) + k] ELSE 0]
From2(n) == [k \in 1 .. n - 1 |-> k + 1]

-----------------------------------------------------------------------------
(* The group outside a circuit *)

CurveOrder == 8 * SubgroupOrder
PlusAffine(p, q) ==
  LET c == EdwardsD * ((((p.u * q.u) % Prime) * ((p.v * q.v) % Prime)) % Prime) IN
  [u |-> (((p.u * q.v + q.u * p.v) % Prime) * Recip(1 + c)) % Prime,
   v |-> (((p.v * q.v + p.u * q.u) % Prime) * Recip(1 - c)) % Prime]
Multiples[k \in 0 .. CurveOrder - 1] ==
  IF k = 0 THEN [u |-> 0, v |-> 1]
  ELSE LET half == Multiples[k \div 2]
           even == PlusAffine(half, half) IN
       IF k % 2 = 0 THEN even ELSE PlusAffine(even, Base)
Affine(k) == Multiples[k % CurveOrder]
\* A member of the prime-order subgroup, given by its multiple there.
Member(e) == Affine(8 * e)

\* to_bytes of a point: v and the sign of u.
ToBytes(p) == Bits(p.v, FieldBits) \o <<p.u % 2>>

-----------------------------------------------------------------------------
(* Points of the twisted Edwards curve *)

Add(p, q) ==
  LET t == (p.u + p.v) * (q.u + q.v)
      a == q.v * p.u
      b == q.u * p.v
      c == EdwardsD * (((a % Prime) * (b % Prime)) % Prime) IN
  {[u |-> u, v |-> v] : u \in Solutions(1 + c, a + b), v \in Solutions(1 - c, t - a - b)}

Double(p) ==
  LET t == (p.u + p.v) * (p.u + p.v)
      a == (p.u * p.v) % Prime
      c == EdwardsD * ((a * a) % Prime) IN
  {[u |-> u, v |-> v] : u \in Solutions(1 + c, 2 * a), v \in Solutions(1 - c, t - 2 * a)}

\* witness allocates two numbers and interprets them.
Interpret(p) ==
  LET u2 == (p.u * p.u) % Prime
      v2 == (p.v * p.v) % Prime IN
  {x \in {p} : (v2 - u2 - 1 - EdwardsD * ((u2 * v2) % Prime)) % Prime = 0}

NotSmallOrder(p) ==
  {x \in {p} : \E q \in Bind(Bind(Double(p), Double), Double) : q.u # 0}

\* p when the bit is set, and the neutral element otherwise.
Select(p, bit) == [u |-> bit * p.u, v |-> bit * p.v + 1 - bit]

Mul(p, by) ==
  LET Step(states, i) ==
        Bind(states, LAMBDA s :
          Bind(Double(s.base), LAMBDA base :
            {[base |-> base, result |-> r] : r \in Add(s.result, Select(base, by[i]))}))
      start == {[base |-> p, result |-> Select(p, by[1])]} IN
  {s.result : s \in FoldLeft(Step, start, From2(Len(by)))}

\* generate_circuit_generator: windows of 0 .. 7 times the generator, each eight
\* times the one before.
CircuitGenerator(e) ==
  [w \in 1 .. FixedBaseChunks |-> [i \in 0 .. 7 |-> Member(e * 8^(w - 1) * i)]]

FixedBaseMultiplication(table, by) ==
  LET n == IF ChunkCount(by) < Len(table) THEN ChunkCount(by) ELSE Len(table)
      Window(i) == table[i][Number(Chunk(by, i))] IN
  FoldLeft(LAMBDA results, i : Bind(results, LAMBDA r : Add(r, Window(i))),
           {Window(1)}, From2(n))

-----------------------------------------------------------------------------
(* Points of the Montgomery curve *)

\* to_montgomery_coords; a point of order two goes to (0, 0).
ToMontgomery(p) ==
  IF p.u = 0 THEN [x |-> 0, y |-> 0]
  ELSE LET x == ((1 + p.v) * Recip(1 - p.v)) % Prime IN
       [x |-> x, y |-> (((x * Recip(p.u)) % Prime) * MontgomeryScale) % Prime]

IntoEdwards(m) ==
  {[u |-> u, v |-> v] : u \in Solutions(m.y, m.x * MontgomeryScale),
                        v \in Solutions(m.x + 1, m.x - 1)}

\* Not defined for points with the same x.
AddMontgomery(m, n) ==
  {LET x == (lambda * lambda - MontgomeryA - m.x - n.x) % Prime IN
   [x |-> x, y |-> (lambda * (m.x - x) - m.y) % Prime] :
     lambda \in Solutions(n.x - m.x, n.y - m.y)}

-----------------------------------------------------------------------------
(* The Pedersen hash in a circuit *)

\* Personalization::get_bits: a note commitment, or the level of a Merkle tree.
NoteCommitmentBits == [i \in 1 .. 6 |-> 1]
MerkleTreeBits(level) == Bits(level, 6)

\* 1 .. 4 times the generator, which grows sixteenfold from chunk to chunk.
PedersenCircuitGenerators ==
  [g \in DOMAIN PedersenGenerators |->
    [w \in 1 .. ChunksPerGenerator |->
      [i \in 0 .. 3 |-> ToMontgomery(Member(PedersenGenerators[g] * 16^(w - 1) * (i + 1)))]]]

\* lookup3_xy_with_conditional_negation: two bits choose, the third negates y.
LookUp(chunk, window) ==
  LET m == window[chunk[1] + 2 * chunk[2]] IN
  IF chunk[3] = 1 THEN [m EXCEPT !.y = (0 - @) % Prime] ELSE m

\* The segments' windows are added in Montgomery form and their sums, as Edwards
\* points, to the accumulator.
PedersenHash(personalization, contents) ==
  LET bits == personalization \o contents
      chunks == ChunkCount(bits)
      First(g) == (g - 1) * ChunksPerGenerator + 1
      Windows(g) ==
        IF chunks - First(g) + 1 < ChunksPerGenerator THEN chunks - First(g) + 1
        ELSE ChunksPerGenerator
      Window(g, w) == LookUp(Chunk(bits, First(g) + w - 1), PedersenCircuitGenerators[g][w])
      Segment(g) ==
        Bind(FoldLeft(LAMBDA sums, w : Bind(sums, LAMBDA m : AddMontgomery(Window(g, w), m)),
                      {Window(g, 1)}, From2(Windows(g))),
             IntoEdwards) IN
  FoldLeft(LAMBDA sums, g : Bind(sums, LAMBDA r : Bind(Segment(g), LAMBDA s : Add(s, r))),
           Segment(1),
           From2((chunks + ChunksPerGenerator - 1) \div ChunksPerGenerator))

-----------------------------------------------------------------------------
(* The Pedersen hash outside a circuit *)

\* generate_pedersen_hash_exp_table: one table for every window that starts at or
\* below NUM_BITS.
ExpTable(g) ==
  [w \in 0 .. ScalarBits \div ExpWindow |->
    [i \in 0 .. 2^ExpWindow - 1 |->
      (i * 2^(w * ExpWindow) * PedersenGenerators[g]) % SubgroupOrder]]

NativePedersenHash(personalization, contents) ==
  LET bits == personalization \o contents
      chunks == ChunkCount(bits)
      Term(i) ==
        LET chunk == Chunk(bits, i)
            cur == 16^((i - 1) % ChunksPerGenerator) IN
        (IF chunk[3] = 1 THEN 0 - 1 ELSE 1) * (1 + chunk[1] + 2 * chunk[2]) * cur
      SumOf(F(_), first, last) ==
        FoldLeft(LAMBDA n, i : n + F(i), 0, [k \in 1 .. last - first + 1 |-> first + k - 1])
      Scalar(g) ==
        LET last == g * ChunksPerGenerator IN
        SumOf(Term, last - ChunksPerGenerator + 1, IF last < chunks THEN last ELSE chunks)
          % SubgroupOrder
      Digit(n, w) == (n \div 2^(w * ExpWindow)) % 2^ExpWindow
      Result(g) ==
        SumOf(LAMBDA w : ExpTable(g)[w][Digit(Scalar(g), w)],
              0, (ScalarBits + ExpWindow - 1) \div ExpWindow - 1) IN
  SumOf(Result, 1, (chunks + ChunksPerGenerator - 1) \div ChunksPerGenerator) % SubgroupOrder
=============================================================================
