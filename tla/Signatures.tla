------------------------------ MODULE Signatures ------------------------------
(***************************************************************************)
(* RedJubjub: the signatures of redjubjub.rs and the spend authorisation   *)
(* signature of sapling.rs, over a small curve.                            *)
(*                                                                         *)
(* A point is its component in the prime-order subgroup, as a multiple of  *)
(* the base point, and its component in the small subgroup.  Curve bytes   *)
(* that decode to no point are Invalid, and a scalar's bytes are a number  *)
(* that is a scalar only below the order.                                  *)
(***************************************************************************)
EXTENDS Integers, Sequences

CONSTANTS
  Order,        \* the order of the prime-order subgroup
  Cofactor,     \* the order of the small subgroup: 8
  ScalarReps,   \* the numbers the bytes of a scalar can hold
  HStar(_, _),  \* the hash of two byte strings to a scalar
  Invalid       \* the bytes of no point

Scalars == 0 .. Order - 1
Points == Scalars \X (0 .. Cofactor - 1)
Identity == <<0, 0>>
PlusPoint(p, q) == <<(p[1] + q[1]) % Order, (p[2] + q[2]) % Cofactor>>
Times(p, k) == <<(p[1] * k) % Order, (p[2] * k) % Cofactor>>
Base(k) == <<k % Order, 0>>
Minus(k) == (Order - k) % Order

ReadScalar(n) == IF n \in Scalars THEN <<n>> ELSE << >>
PublicKey(sk) == Base(sk)
RandomizeKey(sk, alpha) == (sk + alpha) % Order
RandomizePublic(vk, alpha) == PlusPoint(Base(alpha), vk)
\* PublicKey::read: any point of the curve.
ReadPublicKey(bytes) == IF bytes = Invalid THEN << >> ELSE <<bytes>>

\* sign, with the random bytes T.
Sign(sk, msg, t) ==
  LET r == HStar(t, msg) IN
  [rbar |-> Base(r), sbar |-> (HStar(Base(r), msg) * sk + r) % Order]

SpendSig(ask, ar, sighash, t) ==
  LET rsk == RandomizeKey(ask, ar) IN
  Sign(rsk, <<PublicKey(rsk), sighash>>, t)

IsSmall(p) == Times(p, Cofactor) = Identity
Readable(sig) == sig.rbar # Invalid /\ ReadScalar(sig.sbar) # << >>

\* Mutant: the small subgroup is not cleared.
MutantVerify(vk, msg, sig) ==
  Readable(sig) /\
  PlusPoint(PlusPoint(Times(vk, HStar(sig.rbar, msg)), sig.rbar),
            Base(Minus(sig.sbar))) = Identity

Verify(vk, msg, sig) ==
  Readable(sig) /\
  IsSmall(PlusPoint(PlusPoint(Times(vk, HStar(sig.rbar, msg)), sig.rbar),
                    Base(Minus(sig.sbar))))

\* batch_verify, with the random scalar z of every entry.
BatchVerify(batch, z) ==
  LET term(i) ==
        LET e == batch[i] IN
        PlusPoint(PlusPoint(Times(e.sig.rbar, z[i]),
                            Times(e.vk, (HStar(e.sig.rbar, e.msg) * z[i]) % Order)),
                  Base(Minus((e.sig.sbar * z[i]) % Order)))
      acc[i \in 0 .. Len(batch)] ==
        IF i = 0 THEN Identity ELSE PlusPoint(acc[i - 1], term(i)) IN
  (\A i \in 1 .. Len(batch) : Readable(batch[i].sig)) /\ IsSmall(acc[Len(batch)])
=============================================================================
