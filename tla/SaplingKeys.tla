------------------------------ MODULE SaplingKeys ------------------------------
(***************************************************************************)
(* Sapling keys and addresses and their ZIP 32 derivation:                 *)
(* zcash_primitives sapling.rs, sapling/keys.rs and zip32.rs.              *)
(*                                                                         *)
(* Hashes and PRFs are free constructors, that is, they collide only on    *)
(* equal inputs.  A scalar is the bag of the terms it sums and a point is  *)
(* a base with the set of scalars that multiply it, so that               *)
(* [a + b] G = [a] G + [b] G and [a][b] G = [b][a] G hold as they do on    *)
(* Jubjub and nothing else does.                                           *)
(***************************************************************************)
EXTENDS Integers, Sequences, Bags, Serialize

CONSTANTS
  BadDiversifiers,   \* the diversifiers that hash to no point (group_hash)
  IndexBase,         \* the values of one byte of a diversifier index
  IndexBytes,        \* the bytes of a diversifier index (11 in the code)
  HardBit,           \* 1 << 31
  MaxDepth           \* 255, the largest depth a u8 holds

-----------------------------------------------------------------------------
(* Scalars and points *)

Scalar(term) == SetToBag({term})
Generator(name) == [base |-> <<name>>, by |-> {}]
Times(point, scalar) == [point EXCEPT !.by = @ \cup {scalar}]
Factor(point) == CHOOSE s \in point.by : TRUE
Plus(p, q) == [base |-> p.base, by |-> {Factor(p) (+) Factor(q)}]
Identity == [base |-> <<"identity">>, by |-> {}]

SpendingGenerator == Generator("spending")
ProofGenerator == Generator("proof")

PrfExpand(key, tag, args) == <<"expand", key, tag, args>>

-----------------------------------------------------------------------------
(* Keys and addresses *)

ExpandedSpendingKey(sk) ==
  [ask |-> Scalar(PrfExpand(sk, 0, << >>)),
   nsk |-> Scalar(PrfExpand(sk, 1, << >>)),
   ovk |-> PrfExpand(sk, 2, << >>)]

FullViewingKey(expsk) ==
  [ak |-> Times(SpendingGenerator, expsk.ask),
   nk |-> Times(ProofGenerator, expsk.nsk),
   ovk |-> expsk.ovk]

Ivk(fvk) == Scalar(<<"ivk", fvk.ak, fvk.nk>>)

\* The randomised verification key of a spend: ak + [ar] G.
Rk(fvk, ar) == Plus(fvk.ak, Times(SpendingGenerator, ar))

GD(d) == IF d \in BadDiversifiers THEN None ELSE <<Generator(d)>>

AddressFromParts(d, pkd) ==
  IF pkd = Identity THEN None ELSE <<[d |-> d, pkd |-> pkd]>>

ToPaymentAddress(ivk, d) ==
  IF GD(d) = None THEN None ELSE AddressFromParts(d, Times(GD(d)[1], ivk))

AddressToBytes(a) == <<a.d, a.pkd>>
AddressFromBytes(b) ==
  IF GD(b[1]) = None \/ b[2].base = <<"small">> THEN None
  ELSE AddressFromParts(b[1], b[2])

\* read of the expanded spending key: two scalars of the field and the ovk.
NotInField == [x \in {<<"not in field">>} |-> 1]
ReadExpsk(b) ==
  IF Len(b) < 3 \/ NotInField \in {b[1], b[2]} THEN None
  ELSE <<[ask |-> b[1], nsk |-> b[2], ovk |-> b[3]]>>
WriteExpsk(x) == <<x.ask, x.nsk, x.ovk>>

\* read of the full viewing key: ak has prime order, nk may be the identity.
ReadFvk(b) ==
  IF \/ Len(b) < 3
     \/ <<"small">> \in {b[1].base, b[2].base}
     \/ b[1] = Identity
  THEN None
  ELSE <<[ak |-> b[1], nk |-> b[2], ovk |-> b[3]]>>
WriteFvk(f) == <<f.ak, f.nk, f.ovk>>

-----------------------------------------------------------------------------
(* ZIP 32 *)

FromIndex(i) ==
  IF i >= HardBit THEN [hard |-> TRUE, n |-> i - HardBit]
                  ELSE [hard |-> FALSE, n |-> i]
ToIndex(c) == IF c.hard THEN c.n + HardBit ELSE c.n

FvkTag(fvk) == <<"tag", fvk>>
MasterTag == <<"zero">>

MasterKey(seed) ==
  LET i == <<"master", seed>> IN
  [depth |-> 0, tag |-> MasterTag, child |-> FromIndex(0),
   chain |-> <<"right", i>>,
   key |-> ExpandedSpendingKey(<<"left", i>>),
   dk |-> PrfExpand(<<"left", i>>, 16, << >>)]

ToFvk(xsk) == [xsk EXCEPT !.key = FullViewingKey(xsk.key)]

\* What both derivations share once I is known; key is what the parent's key
\* becomes.
Child(parent, fvk, i, seed, key) ==
  [depth |-> parent.depth + 1, tag |-> FvkTag(fvk), child |-> i,
   chain |-> <<"right", seed>>, key |-> key,
   dk |-> PrfExpand(<<"left", seed>>, 22, parent.dk)]
ChildOvk(il, ovk) == PrfExpand(il, 21, ovk)

SoftSeed(parent, fvk, i) ==
  PrfExpand(parent.chain, 18, <<WriteFvk(fvk), parent.dk, ToIndex(i)>>)

\* depth + 1 is computed in a u8.
DeriveSk(xsk, i) ==
  LET fvk == FullViewingKey(xsk.key)
      seed == IF i.hard
              THEN PrfExpand(xsk.chain, 17,
                     <<WriteExpsk(xsk.key), xsk.dk, ToIndex(i)>>)
              ELSE SoftSeed(xsk, fvk, i)
      il == <<"left", seed>> IN
  IF xsk.depth = MaxDepth THEN None
  ELSE <<Child(xsk, fvk, i, seed,
           [ask |-> Scalar(PrfExpand(il, 19, << >>)) (+) xsk.key.ask,
            nsk |-> Scalar(PrfExpand(il, 20, << >>)) (+) xsk.key.nsk,
            ovk |-> ChildOvk(il, xsk.key.ovk)])>>

\* Mutant: the outgoing key of the parent is kept.
MutantDeriveFvk(xfvk, i) ==
  LET fvk == xfvk.key
      seed == SoftSeed(xfvk, fvk, i)
      il == <<"left", seed>> IN
  IF i.hard \/ xfvk.depth = MaxDepth THEN None
  ELSE <<Child(xfvk, fvk, i, seed,
           [ak |-> Plus(Times(SpendingGenerator,
                              Scalar(PrfExpand(il, 19, << >>))), fvk.ak),
            nk |-> Plus(Times(ProofGenerator,
                              Scalar(PrfExpand(il, 20, << >>))), fvk.nk),
            ovk |-> fvk.ovk])>>

DeriveFvk(xfvk, i) ==
  LET fvk == xfvk.key
      seed == SoftSeed(xfvk, fvk, i)
      il == <<"left", seed>> IN
  IF i.hard \/ xfvk.depth = MaxDepth THEN None
  ELSE <<Child(xfvk, fvk, i, seed,
           [ak |-> Plus(Times(SpendingGenerator,
                              Scalar(PrfExpand(il, 19, << >>))), fvk.ak),
            nk |-> Plus(Times(ProofGenerator,
                              Scalar(PrfExpand(il, 20, << >>))), fvk.nk),
            ovk |-> ChildOvk(il, fvk.ovk)])>>

FromPath(xsk, path) ==
  LET after[n \in 0 .. Len(path)] ==
        IF n = 0 THEN <<xsk>>
        ELSE IF after[n - 1] = None THEN None
        ELSE DeriveSk(after[n - 1][1], path[n])
  IN after[Len(path)]

ReadHeader(b) ==
  [depth |-> b[1], tag |-> b[2], child |-> FromIndex(b[3]), chain |-> b[4],
   key |-> << >>, dk |-> b[8]]
WriteXsk(x) ==
  <<x.depth, x.tag, ToIndex(x.child), x.chain>> \o WriteExpsk(x.key) \o <<x.dk>>
WriteXfvk(x) ==
  <<x.depth, x.tag, ToIndex(x.child), x.chain>> \o WriteFvk(x.key) \o <<x.dk>>
ReadXsk(b) ==
  IF Len(b) < 8 \/ ReadExpsk(SubSeq(b, 5, 7)) = None THEN None
  ELSE <<[ReadHeader(b) EXCEPT !.key = ReadExpsk(SubSeq(b, 5, 7))[1]]>>
ReadXfvk(b) ==
  IF Len(b) < 8 \/ ReadFvk(SubSeq(b, 5, 7)) = None THEN None
  ELSE <<[ReadHeader(b) EXCEPT !.key = ReadFvk(SubSeq(b, 5, 7))[1]]>>

-----------------------------------------------------------------------------
(* Diversifiers *)

ZeroIndex == [k \in 1 .. IndexBytes |-> 0]

\* The bytes that wrap to zero and the one the carry stops at; None when every
\* byte wraps.
Increment(j) ==
  LET stop == {k \in 1 .. IndexBytes : j[k] # IndexBase - 1} IN
  IF stop = {} THEN None
  ELSE LET at == CHOOSE k \in stop : \A l \in stop : k <= l IN
       <<[k \in 1 .. IndexBytes |->
            IF k < at THEN 0 ELSE IF k = at THEN j[k] + 1 ELSE j[k]]>>

IndexValue(j) ==
  LET sum[k \in 0 .. IndexBytes] ==
        IF k = 0 THEN 0 ELSE sum[k - 1] + j[k] * IndexBase ^ (k - 1)
  IN sum[IndexBytes]

\* FF1 under the diversifier key permutes the indices (encrypt); the first
\* index from j0 whose diversifier hashes to a point is taken.
FindDiversifier(encrypt, j0) ==
  LET try[j \in [1 .. IndexBytes -> 0 .. IndexBase - 1]] ==
        IF GD(encrypt[j]) # None THEN <<[j |-> j, d |-> encrypt[j]]>>
        ELSE IF Increment(j) = None THEN None
        ELSE try[Increment(j)[1]]
  IN try[j0]

AddressAt(fvk, encrypt, j) ==
  LET found == FindDiversifier(encrypt, j) IN
  IF found = None THEN None
  ELSE LET a == ToPaymentAddress(Ivk(fvk), found[1].d) IN
       IF a = None THEN None ELSE <<[j |-> found[1].j, to |-> a[1]]>>
DefaultAddress(fvk, encrypt) == AddressAt(fvk, encrypt, ZeroIndex)
=============================================================================
