------------------------------- MODULE Equihash -------------------------------
(***************************************************************************)
(* The proof-of-work check of components/equihash/src/verify.rs.           *)
(***************************************************************************)
EXTENDS Integers, Sequences

CONSTANTS
  WordBits,       \* the width of the accumulator: 32
  Blocks,         \* the bytes a leaf's hash expands to, with Xor on them
  ZeroBlock,
  Xor(_, _),
  LeafHash(_, _)  \* the expanded hash of an index: the blocks of Node::new

\* Params::new, and what expand_array asserts of the parameters it takes:
\* the second is no part of the first, and ends the program.
ParamsOk(n, k) == n % 8 = 0 /\ k >= 3 /\ k < n /\ n % (k + 1) = 0
CollisionBits(p) == p.n \div (p.k + 1)
CollisionBytes(p) == (CollisionBits(p) + 7) \div 8
Expandable(bits) == bits >= 8 /\ WordBits >= 7 + bits
Panic == [outcome |-> "panic"]
Bad(kind) == [outcome |-> "error", kind |-> kind]
Good(value) == [outcome |-> "ok", value |-> value]

\* expand_array: elements of `bits` bits, each in whole bytes after `pad` zeros.
ExpandArray(vin, bits, pad) ==
  LET width == (bits + 7) \div 8 + pad
      len == (8 * width * Len(vin)) \div bits
      \* the element that ends where acc holds `left` more bits
      element(acc, left) ==
        [x \in 1 .. width |->
           IF x <= pad THEN 0
           ELSE (((acc \div 2^left) % 2^bits) \div 256^(width - x)) % 256]
      step[i \in 0 .. Len(vin)] ==
        IF i = 0 THEN [acc |-> 0, left |-> 0, out |-> << >>]
        ELSE LET prev == step[i - 1]
                 acc == (prev.acc % 2^(WordBits - 8)) * 256 + vin[i]
                 held == prev.left + 8 IN
             IF held >= bits
             THEN [acc |-> acc, left |-> held - bits,
                   out |-> prev.out \o element(acc, held - bits)]
             ELSE [acc |-> acc, left |-> held, out |-> prev.out]
      out == step[Len(vin)].out IN
  IF len = Len(vin) THEN vin
  ELSE [i \in 1 .. len |-> IF i <= Len(out) THEN out[i] ELSE 0]

\* indices_from_minimal: big-endian numbers of four bytes.
IndicesFromMinimal(p, minimal) ==
  LET bits == CollisionBits(p) + 1
      pad == 4 - (bits + 7) \div 8
      bytes == ExpandArray(minimal, bits, pad)
      number(i) == (bytes[4*i - 2] * 256 + bytes[4*i - 1]) * 256 + bytes[4*i] IN
  IF Len(minimal) # (2^p.k * bits) \div 8 THEN Bad("InvalidParams")
  ELSE IF ~Expandable(bits) THEN Panic
  ELSE Good([i \in 1 .. Len(bytes) \div 4 |-> number(i)])

Node(p, i) ==
  [hash |-> [b \in 1 .. p.k + 1 |-> LeafHash(i, b)], indices |-> <<i>>]
IndicesBefore(a, b) == a.indices[1] < b.indices[1]

\* from_children: the collision is trimmed off.
FromChildren(a, b) ==
  [hash |-> [i \in 1 .. Len(a.hash) - 1 |-> Xor(a.hash[i + 1], b.hash[i + 1])],
   indices |-> IF IndicesBefore(a, b) THEN a.indices \o b.indices
               ELSE b.indices \o a.indices]

HasCollision(a, b) == a.hash[1] = b.hash[1]
DistinctIndices(a, b) ==
  \A i \in 1 .. Len(a.indices), j \in 1 .. Len(b.indices) : a.indices[i] # b.indices[j]
\* Mutant: the order of the subtrees is not checked.
MutantValidateSubtrees(a, b) ==
  CASE ~HasCollision(a, b) -> Bad("Collision")
    [] HasCollision(a, b) /\ ~DistinctIndices(a, b) -> Bad("DuplicateIdxs")
    [] OTHER -> Good(FromChildren(a, b))

ValidateSubtrees(a, b) ==
  CASE ~HasCollision(a, b) -> Bad("Collision")
    [] HasCollision(a, b) /\ IndicesBefore(b, a) -> Bad("OutOfOrder")
    [] HasCollision(a, b) /\ ~IndicesBefore(b, a) /\ ~DistinctIndices(a, b) ->
         Bad("DuplicateIdxs")
    [] OTHER -> Good(FromChildren(a, b))

\* tree_validator: the two halves, the left one first.
TreeValidator(p, indices) ==
  LET tree[from \in 1 .. Len(indices), size \in {2^h : h \in 0 .. p.k}] ==
        IF size = 1 THEN Good(Node(p, indices[from]))
        ELSE LET half == size \div 2
                 a == tree[from, half]
                 b == tree[from + half, half] IN
             IF a.outcome # "ok" THEN a
             ELSE IF b.outcome # "ok" THEN b
             ELSE ValidateSubtrees(a.value, b.value)
  IN tree[1, Len(indices)]

CheckIndices(p, indices) ==
  LET root == TreeValidator(p, indices) IN
  IF root.outcome # "ok" THEN root
  ELSE IF root.value.hash[1] = ZeroBlock THEN Good(indices)
  ELSE Bad("NonZeroRootHash")

IsValidSolution(p, soln) ==
  IF ~ParamsOk(p.n, p.k) THEN Bad("InvalidParams")
  ELSE LET indices == IndicesFromMinimal(p, soln) IN
       IF indices.outcome # "ok" THEN indices
       ELSE IF ~Expandable(CollisionBits(p)) THEN Panic
       ELSE CheckIndices(p, indices.value)
=============================================================================
