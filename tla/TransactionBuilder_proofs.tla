---------------------- MODULE TransactionBuilder_proofs ----------------------
(* Proofs about the transaction builder, for every wallet of notes and coins, *)
(* every sequence of calls, every shuffle and all the prover's randomness: a  *)
(* built transaction conserves value, verifies, and is where its metadata     *)
(* says.  In order: sums and permutations; what a signature hash does not     *)
(* depend on; the invariant of the calls; what build makes of them.           *)
EXTENDS TransactionBuilder, WellFoundedInduction, FiniteSetTheorems, TLAPS

(* Every set of numbers has a least one.                                      *)
LEMMA LeastNumber ==
  ASSUME NEW S, S \subseteq Nat, S # {}
  PROVE  \E n \in S : \A m \in S : n <= m
<1>1. PICK n \in S : \A m \in S : ~(<<m, n>> \in OpToRel(<, Nat))
  BY NatLessThanWellFounded, WFMin
<1>2. \A m \in S : ~(m < n)
  BY <1>1 DEF OpToRel
<1> QED BY <1>2

(* So what holds of zero and of the next holds of all.                        *)
LEMMA Induction ==
  ASSUME NEW S, 0 \in S, \A n \in Nat : n \in S => n + 1 \in S
  PROVE  Nat \subseteq S
<1> SUFFICES ASSUME Nat \ S # {} PROVE FALSE
  OBVIOUS
<1>1. PICK n \in Nat \ S : \A m \in Nat \ S : n <= m
  BY LeastNumber
<1>2. n # 0 /\ n - 1 \in Nat /\ ~(n <= n - 1) /\ (n - 1) + 1 = n
  OBVIOUS
<1>3. n - 1 \in S
  BY <1>1, <1>2
<1> QED BY <1>2, <1>3

-----------------------------------------------------------------------------
(* Sums of sequences.                                                         *)
First(s, n) == [i \in 1 .. n |-> s[i]]
Adds(f, s) == f = [i \in 0 .. Len(s) |-> IF i = 0 THEN 0 ELSE f[i - 1] + s[i]]

(* The function that adds a sequence up exists.                               *)
LEMMA AddsExists ==
  ASSUME NEW s \in Seq(Int)
  PROVE  \E f : Adds(f, s)
<1> DEFINE Is(f, n) == f = [i \in 0 .. n |-> IF i = 0 THEN 0 ELSE f[i - 1] + s[i]]
           Bad == {n \in Nat : ~\E f : Is(f, n)}
<1>1. Bad = {}
  <2> SUFFICES ASSUME Bad # {} PROVE FALSE
    OBVIOUS
  <2>1. PICK n \in Bad : \A m \in Bad : n <= m
    BY LeastNumber
  <2>2. n # 0
    <3>1. Is([i \in 0 .. 0 |-> 0], 0)
      OBVIOUS
    <3> QED BY <3>1
  <2>3. PICK f : Is(f, n - 1)
    <3>1. n \in Nat /\ n - 1 \in Nat /\ ~(n <= n - 1)
      BY <2>1, <2>2
    <3>2. n - 1 \notin Bad
      BY <2>1, <3>1
    <3> HIDE DEF Is
    <3> QED BY <3>1, <3>2
  <2> DEFINE g == [i \in 0 .. n |-> IF i = n THEN f[n - 1] + s[n] ELSE f[i]]
  <2>4. ASSUME NEW i \in 0 .. n
        PROVE  g[i] = IF i = 0 THEN 0 ELSE g[i - 1] + s[i]
    <3>1. n \in Nat /\ n # 0
      BY <2>2
    <3>2. CASE i = n
      <4>1. g[n - 1] = f[n - 1] /\ g[n] = f[n - 1] + s[n]
        BY <3>1
      <4> QED BY <3>1, <3>2, <4>1
    <3>3. CASE i # n
      <4>1. i \in 0 .. n - 1 /\ g[i] = f[i]
        BY <3>1, <3>3
      <4>2. f[i] = IF i = 0 THEN 0 ELSE f[i - 1] + s[i]
        BY <2>3, <4>1
      <4>3. i # 0 => g[i - 1] = f[i - 1]
        BY <3>1, <3>3
      <4> QED BY <4>1, <4>2, <4>3
    <3> QED BY <3>2, <3>3
  <2>5. Is(g, n)
    <3>1. g = [i \in 0 .. n |-> g[i]]
      OBVIOUS
    <3> HIDE DEF g
    <3> QED BY <2>4, <3>1
  <2> QED BY <2>5
<1>2. Len(s) \in Nat
  OBVIOUS
<1> QED BY <1>1, <1>2 DEF Adds

(* Total is the last value of that function.                                  *)
LEMMA TotalIsLast ==
  ASSUME NEW s \in Seq(Int)
  PROVE  \E f : Adds(f, s) /\ Total(s) = f[Len(s)]
<1> DEFINE sum == CHOOSE f : f = [i \in 0 .. Len(s) |-> IF i = 0 THEN 0 ELSE f[i - 1] + s[i]]
<1>1. \E f : f = [i \in 0 .. Len(s) |-> IF i = 0 THEN 0 ELSE f[i - 1] + s[i]]
  BY AddsExists DEF Adds
<1>2. sum = [i \in 0 .. Len(s) |-> IF i = 0 THEN 0 ELSE sum[i - 1] + s[i]]
  BY <1>1
<1>3. Total(s) = sum[Len(s)]
  BY DEF Total
<1> HIDE DEF sum
<1> QED BY <1>2, <1>3 DEF Adds

LEMMA AddsStep ==
  ASSUME NEW s \in Seq(Int), NEW f, Adds(f, s)
  PROVE  f[0] = 0 /\ \A i \in 1 .. Len(s) : f[i] = f[i - 1] + s[i]
BY DEF Adds

(* Two sequences that begin alike add up alike so far.                        *)
LEMMA AddsAgree ==
  ASSUME NEW s \in Seq(Int), NEW t \in Seq(Int), NEW f, NEW g, Adds(f, s), Adds(g, t),
         NEW n \in Nat, n <= Len(s), n <= Len(t), \A i \in 1 .. n : s[i] = t[i]
  PROVE  f[n] = g[n] /\ f[n] \in Int
<1> DEFINE Bad == {m \in 0 .. n : ~(f[m] = g[m] /\ f[m] \in Int)}
<1> SUFFICES ASSUME Bad # {} PROVE FALSE
  OBVIOUS
<1>1. PICK m \in Bad : \A k \in Bad : m <= k
  <2>1. Bad \subseteq Nat
    OBVIOUS
  <2> HIDE DEF Bad
  <2> QED BY <2>1, LeastNumber
<1>2. f[0] = 0 /\ g[0] = 0
  BY AddsStep
<1>3. m \in 1 .. n /\ m - 1 \in 0 .. n /\ ~(m <= m - 1)
  BY <1>2
<1>4. m - 1 \notin Bad
  BY <1>1, <1>3
<1>5. f[m] = f[m - 1] + s[m] /\ g[m] = g[m - 1] + t[m] /\ s[m] = t[m] /\ s[m] \in Int
  BY <1>3, AddsStep
<1> QED BY <1>1, <1>3, <1>4, <1>5

LEMMA FirstIs ==
  ASSUME NEW S, NEW s \in Seq(S), NEW n \in 0 .. Len(s)
  PROVE  First(s, n) \in Seq(S) /\ Len(First(s, n)) = n /\ \A i \in 1 .. n : First(s, n)[i] = s[i]
BY DEF First

(* The last term is added to the sum of the others.                           *)
LEMMA TotalOf ==
  ASSUME NEW s \in Seq(Int)
  PROVE  /\ Total(s) \in Int
         /\ Len(s) = 0 => Total(s) = 0
         /\ Len(s) > 0 => Total(s) = Total(First(s, Len(s) - 1)) + s[Len(s)]
<1>1. PICK f : Adds(f, s) /\ Total(s) = f[Len(s)]
  BY TotalIsLast
<1>2. Len(s) \in Nat
  OBVIOUS
<1>3. Total(s) \in Int
  BY <1>1, <1>2, AddsAgree
<1>4. f[0] = 0 /\ \A i \in 1 .. Len(s) : f[i] = f[i - 1] + s[i]
  BY <1>1, AddsStep
<1>5. ASSUME Len(s) > 0
      PROVE  Total(s) = Total(First(s, Len(s) - 1)) + s[Len(s)]
  <2> DEFINE n == Len(s) - 1
             t == First(s, n)
  <2>1. n \in Nat /\ n \in 0 .. Len(s) /\ n <= Len(s) /\ Len(s) \in 1 .. Len(s)
    BY <1>2, <1>5
  <2>2. t \in Seq(Int) /\ Len(t) = n /\ \A i \in 1 .. n : s[i] = t[i]
    BY <2>1, FirstIs
  <2>3. PICK g : Adds(g, t) /\ Total(t) = g[n]
    BY <2>2, TotalIsLast
  <2> HIDE DEF t, n
  <2>4. f[n] = g[n]
    BY <1>1, <2>1, <2>2, <2>3, AddsAgree
  <2>5. f[Len(s)] = f[n] + s[Len(s)]
    BY <1>4, <2>1 DEF n
  <2>6. Total(s) = Total(t) + s[Len(s)]
    BY <1>1, <2>3, <2>4, <2>5
  <2> QED BY <2>6 DEF t, n
<1> QED BY <1>1, <1>3, <1>4, <1>5

(* One more term.                                                             *)
LEMMA TotalAppend ==
  ASSUME NEW s \in Seq(Int), NEW x \in Int
  PROVE  Total(Append(s, x)) = Total(s) + x
<1> DEFINE t == Append(s, x)
<1>1. t \in Seq(Int) /\ Len(t) = Len(s) + 1 /\ Len(s) \in Nat /\ t[Len(t)] = x
  OBVIOUS
<1>2. First(t, Len(t) - 1) = s
  BY <1>1 DEF First
<1> HIDE DEF t
<1>3. Total(t) = Total(First(t, Len(t) - 1)) + t[Len(t)]
  BY <1>1, TotalOf
<1>4. Total(t) = Total(s) + x
  BY <1>1, <1>2, <1>3
<1> QED BY <1>4 DEF t

(* Five terms, those of the change.                                           *)
LEMMA TotalOfFive ==
  ASSUME NEW a \in Int, NEW b \in Int, NEW c \in Int, NEW d \in Int, NEW e \in Int
  PROVE  Total(<<a, b, c, d, e>>) = a + b + c + d + e
<1> DEFINE s == <<a, b, c, d, e>>
<1>1. /\ s \in Seq(Int) /\ Len(s) = 5
      /\ s[1] = a /\ s[2] = b /\ s[3] = c /\ s[4] = d /\ s[5] = e
  OBVIOUS
<1> HIDE DEF s
<1>2. PICK f : Adds(f, s) /\ Total(s) = f[5]
  BY <1>1, TotalIsLast
<1>3. f[0] = 0 /\ \A i \in 1 .. 5 : f[i] = f[i - 1] + s[i]
  BY <1>1, <1>2, AddsStep
<1>4. f[1] = a /\ f[2] = f[1] + b /\ f[3] = f[2] + c /\ f[4] = f[3] + d /\ f[5] = f[4] + e
  BY <1>1, <1>3
<1>5. Total(s) = a + b + c + d + e
  BY <1>2, <1>4
<1> QED BY <1>5 DEF s

(* One term replaced.                                                         *)
LEMMA ReplacedIs ==
  ASSUME NEW s \in Seq(Int), NEW k \in 1 .. Len(s), NEW x \in Int
  PROVE  /\ [s EXCEPT ![k] = x] \in Seq(Int) /\ Len([s EXCEPT ![k] = x]) = Len(s)
         /\ \A i \in 1 .. Len(s) : [s EXCEPT ![k] = x][i] = IF i = k THEN x ELSE s[i]
  OBVIOUS

LEMMA SameFirst ==
  ASSUME NEW s, NEW t, NEW n \in Nat, \A i \in 1 .. n : s[i] = t[i]
  PROVE  First(s, n) = First(t, n)
  BY DEF First

Replaces(n) ==
  \A s \in Seq(Int) : Len(s) = n =>
    \A k \in 1 .. n, x \in Int : Total([s EXCEPT ![k] = x]) = Total(s) - s[k] + x

(* Replacing one term changes the sum by the difference.                      *)
LEMMA ReplacesOneMore ==
  ASSUME NEW n \in Nat, Replaces(n)
  PROVE  Replaces(n + 1)
<1> SUFFICES ASSUME NEW s \in Seq(Int), Len(s) = n + 1, NEW k \in 1 .. n + 1, NEW x \in Int
             PROVE  Total([s EXCEPT ![k] = x]) = Total(s) - s[k] + x
  BY DEF Replaces
<1> DEFINE u == [s EXCEPT ![k] = x]
           r == First(s, n)
<1>1. /\ u \in Seq(Int) /\ Len(u) = n + 1
      /\ \A i \in 1 .. n + 1 : u[i] = IF i = k THEN x ELSE s[i]
  BY ReplacedIs
<1>2. r \in Seq(Int) /\ Len(r) = n /\ \A i \in 1 .. n : r[i] = s[i]
  <2>1. n \in 0 .. Len(s)
    OBVIOUS
  <2> QED BY <2>1, FirstIs
<1> HIDE DEF u, r
<1>3. Total(u) = Total(First(u, n)) + u[n + 1]
  <2>1. Len(u) > 0 /\ Len(u) - 1 = n
    BY <1>1
  <2> QED BY <1>1, <2>1, TotalOf
<1>4. Total(s) = Total(r) + s[n + 1]
  <2>1. Len(s) > 0 /\ Len(s) - 1 = n
    OBVIOUS
  <2> QED BY <2>1, TotalOf DEF r
<1>5. Total(r) \in Int /\ s[n + 1] \in Int /\ s[k] \in Int
  BY <1>2, TotalOf
<1>6. CASE k = n + 1
  <2>1. First(u, n) = r
    <3>1. \A i \in 1 .. n : u[i] = s[i]
      BY <1>1, <1>6
    <3> QED BY <3>1, SameFirst DEF r
  <2>2. u[n + 1] = x /\ s[k] = s[n + 1]
    BY <1>1, <1>6
  <2>3. Total(u) = Total(s) - s[k] + x
    BY <1>3, <1>4, <1>5, <2>1, <2>2
  <2> QED BY <2>3 DEF u
<1>7. CASE k # n + 1
  <2>1. k \in 1 .. n
    BY <1>7
  <2> DEFINE v == [r EXCEPT ![k] = x]
  <2>2. v \in Seq(Int) /\ Len(v) = n /\ \A i \in 1 .. n : v[i] = IF i = k THEN x ELSE r[i]
    BY <1>2, <2>1, ReplacedIs
  <2>3. Total(v) = Total(r) - r[k] + x
    BY <1>2, <2>1 DEF Replaces
  <2> HIDE DEF v
  <2>4. First(u, n) = First(v, n)
    <3>1. ASSUME NEW i \in 1 .. n
          PROVE  u[i] = v[i]
      <4>1. i \in 1 .. n + 1
        OBVIOUS
      <4>2. u[i] = IF i = k THEN x ELSE s[i]
        BY <1>1, <4>1
      <4>3. v[i] = IF i = k THEN x ELSE r[i]
        BY <2>2
      <4>4. r[i] = s[i]
        BY <1>2
      <4> QED BY <4>2, <4>3, <4>4
    <3> QED BY <3>1, SameFirst
  <2>5. First(v, n) = v
    BY <2>2 DEF First
  <2>6. u[n + 1] = s[n + 1] /\ r[k] = s[k]
    BY <1>1, <1>2, <1>7, <2>1
  <2>7. Total(u) = Total(s) - s[k] + x
    BY <1>3, <1>4, <1>5, <2>3, <2>4, <2>5, <2>6
  <2> QED BY <2>7 DEF u
<1> QED BY <1>6, <1>7

LEMMA TotalReplace ==
  ASSUME NEW s \in Seq(Int), NEW k \in 1 .. Len(s), NEW x \in Int
  PROVE  Total([s EXCEPT ![k] = x]) = Total(s) - s[k] + x
<1> DEFINE S == {n \in Nat : Replaces(n)}
<1>1. 0 \in S
  BY DEF Replaces
<1>2. \A n \in Nat : n \in S => n + 1 \in S
  BY ReplacesOneMore
<1> HIDE DEF S
<1>3. Nat \subseteq S
  BY <1>1, <1>2, Induction
<1>4. Len(s) \in Nat
  OBVIOUS
<1>5. Replaces(Len(s))
  BY <1>3, <1>4 DEF S
<1> QED BY <1>5 DEF Replaces

(* Terms of zero at the end.                                                  *)
LEMMA TotalOfPadded ==
  ASSUME NEW s \in Seq(Int), NEW t \in Seq(Int), Len(s) <= Len(t),
         \A i \in 1 .. Len(t) : t[i] = IF i <= Len(s) THEN s[i] ELSE 0
  PROVE  Total(t) = Total(s)
<1> DEFINE S == {n \in Nat : Len(s) + n <= Len(t) => Total(First(t, Len(s) + n)) = Total(s)}
<1>1. Len(s) \in Nat /\ Len(t) \in Nat /\ Total(s) \in Int
  BY TotalOf
<1>2. 0 \in S
  <2>1. First(t, Len(s)) = s
    <3>1. \A i \in 1 .. Len(s) : t[i] = s[i]
      BY <1>1
    <3>2. s = [i \in 1 .. Len(s) |-> s[i]]
      OBVIOUS
    <3> QED BY <3>1, <3>2 DEF First
  <2> QED BY <1>1, <2>1
<1>3. ASSUME NEW n \in Nat, n \in S
      PROVE  n + 1 \in S
  <2> DEFINE m == Len(s) + n
             u == First(t, m + 1)
  <2> SUFFICES ASSUME m + 1 <= Len(t) PROVE Total(u) = Total(s)
    BY <1>1
  <2>1. m \in Nat /\ m <= Len(t) /\ m \in 0 .. Len(t) /\ m + 1 \in 0 .. Len(t) /\ m + 1 > Len(s)
    BY <1>1
  <2>2. Total(First(t, m)) = Total(s)
    BY <1>3, <2>1
  <2> HIDE DEF m
  <2>3. u \in Seq(Int) /\ Len(u) = m + 1 /\ \A i \in 1 .. m + 1 : u[i] = t[i]
    BY <2>1, FirstIs
  <2>4. u[m + 1] = 0 /\ Len(u) > 0 /\ Len(u) - 1 = m
    BY <1>1, <2>1, <2>3
  <2> HIDE DEF u
  <2>5. First(u, m) = First(t, m)
    <3>1. \A i \in 1 .. m : i \in 1 .. m + 1
      BY <2>1
    <3>2. \A i \in 1 .. m : u[i] = t[i]
      BY <2>3, <3>1
    <3> QED BY <2>1, <3>2, SameFirst
  <2>6. Total(u) = Total(First(u, m)) + u[m + 1]
    BY <2>3, <2>4, TotalOf
  <2> QED BY <1>1, <2>2, <2>4, <2>5, <2>6
<1> HIDE DEF S
<1>4. Nat \subseteq S
  BY <1>2, <1>3, Induction
<1>5. Len(t) - Len(s) \in S /\ Len(s) + (Len(t) - Len(s)) = Len(t)
  BY <1>1, <1>4
<1>6. First(t, Len(t)) = t
  BY DEF First
<1> QED BY <1>1, <1>5, <1>6 DEF S

(* A permutation of 1 .. n.                                                   *)
Arranges(p, n) ==
  /\ p \in [1 .. n -> 1 .. n]
  /\ \A i, j \in 1 .. n : p[i] = p[j] => i = j
  /\ \A j \in 1 .. n : \E i \in 1 .. n : p[i] = j

(* The orders of a shuffle are permutations, and the index of a position      *)
(* leads to it.                                                               *)
LEMMA OrderArranges ==
  ASSUME NEW n \in Nat, NEW p \in Orders(n)
  PROVE  Arranges(p, n)
<1> DEFINE image == {p[i] : i \in 1 .. n}
<1>1. p \in [1 .. n -> 1 .. n] /\ Cardinality(image) = n
  BY DEF Orders
<1>2. IsFiniteSet(1 .. n) /\ Cardinality(1 .. n) = n
  BY FS_Interval
<1>3. image \subseteq 1 .. n
  BY <1>1
<1>4. image = 1 .. n
  <2> HIDE DEF image
  <2> QED BY <1>1, <1>2, <1>3, FS_Subset
<1>5. \A j \in 1 .. n : \E i \in 1 .. n : p[i] = j
  BY <1>4
<1>6. p \in Surjection(1 .. n, 1 .. n)
  BY <1>1, <1>5 DEF Surjection
<1>7. p \in Injection(1 .. n, 1 .. n)
  <2>1. Cardinality(1 .. n) = Cardinality(1 .. n)
    OBVIOUS
  <2> QED BY <1>2, <1>6, <2>1, FS_Surjection
<1>8. \A i, j \in 1 .. n : p[i] = p[j] => i = j
  BY <1>7 DEF Injection, IsInjective
<1> QED BY <1>1, <1>5, <1>8 DEF Arranges

(* IndexOf inverts a shuffle.                                                 *)
LEMMA IndexLeadsTo ==
  ASSUME NEW n \in Nat, NEW p \in Orders(n), NEW i \in 1 .. n
  PROVE  IndexOf(p, i) \in 1 .. n /\ p[IndexOf(p, i)] = i
<1>1. DOMAIN p = 1 .. n /\ \E j \in 1 .. n : p[j] = i
  BY OrderArranges DEF Arranges
<1> QED BY <1>1 DEF IndexOf

-----------------------------------------------------------------------------
(* A sum does not depend on the order of its terms.                           *)
Shuffled(s, p) == [i \in 1 .. Len(s) |-> s[p[i]]]

Permutes(n) ==
  \A s \in Seq(Int) : Len(s) = n =>
    \A p : Arranges(p, n) => Total(Shuffled(s, p)) = Total(s)

LEMMA ShuffledIs ==
  ASSUME NEW s \in Seq(Int), NEW p, Arranges(p, Len(s))
  PROVE  /\ Shuffled(s, p) \in Seq(Int) /\ Len(Shuffled(s, p)) = Len(s)
         /\ \A i \in 1 .. Len(s) : Shuffled(s, p)[i] = s[p[i]]
<1>1. Len(s) \in Nat /\ \A i \in 1 .. Len(s) : p[i] \in 1 .. Len(s)
  BY DEF Arranges
<1>2. \A i \in 1 .. Len(s) : s[p[i]] \in Int
  BY <1>1
<1> QED BY <1>1, <1>2 DEF Shuffled

(* Without the position that leads to the last one.                           *)
LEMMA ArrangesOneLess ==
  ASSUME NEW n \in Nat, NEW p, Arranges(p, n + 1), NEW k \in 1 .. n + 1, p[k] = n + 1
  PROVE  Arranges([i \in 1 .. n |-> IF i = k THEN p[n + 1] ELSE p[i]], n)
<1> DEFINE q == [i \in 1 .. n |-> IF i = k THEN p[n + 1] ELSE p[i]]
<1>1. /\ \A i \in 1 .. n + 1 : p[i] \in 1 .. n + 1
      /\ \A i, j \in 1 .. n + 1 : p[i] = p[j] => i = j
      /\ \A j \in 1 .. n + 1 : \E i \in 1 .. n + 1 : p[i] = j
  BY DEF Arranges
<1>2. \A i \in 1 .. n : i \in 1 .. n + 1 /\ i # n + 1
  OBVIOUS
<1>3. n + 1 \in 1 .. n + 1 /\ \A i \in 1 .. n + 1 : i # n + 1 => i \in 1 .. n
  OBVIOUS
<1>4. ASSUME NEW i \in 1 .. n
      PROVE  q[i] \in 1 .. n
  <2>1. CASE i = k
    <3>1. p[n + 1] # n + 1
      BY <1>1, <1>2, <1>3, <2>1
    <3> QED BY <1>1, <1>3, <2>1, <3>1
  <2>2. CASE i # k
    <3>1. p[i] # n + 1
      BY <1>1, <1>2, <2>2
    <3> QED BY <1>1, <1>2, <1>3, <2>2, <3>1
  <2> QED BY <2>1, <2>2
<1>5. ASSUME NEW i \in 1 .. n, NEW j \in 1 .. n, q[i] = q[j]
      PROVE  i = j
  <2>1. q[i] = (IF i = k THEN p[n + 1] ELSE p[i]) /\ q[j] = (IF j = k THEN p[n + 1] ELSE p[j])
    OBVIOUS
  <2> HIDE DEF q
  <2> QED BY <1>1, <1>2, <1>3, <1>5, <2>1
<1>6. ASSUME NEW j \in 1 .. n
      PROVE  \E i \in 1 .. n : q[i] = j
  <2>1. PICK i \in 1 .. n + 1 : p[i] = j
    BY <1>1, <1>2
  <2>2. i # k
    BY <1>2, <2>1
  <2>3. CASE i = n + 1
    <3>1. k \in 1 .. n /\ q[k] = j
      BY <1>3, <2>1, <2>2, <2>3
    <3> QED BY <3>1
  <2>4. CASE i # n + 1
    <3>1. i \in 1 .. n /\ q[i] = j
      BY <1>3, <2>1, <2>2, <2>4
    <3> QED BY <3>1
  <2> QED BY <2>3, <2>4
<1>7. q \in [1 .. n -> 1 .. n]
  <2>1. q = [i \in 1 .. n |-> q[i]]
    OBVIOUS
  <2> HIDE DEF q
  <2> QED BY <1>4, <2>1
<1> HIDE DEF q
<1>8. Arranges(q, n)
  BY <1>5, <1>6, <1>7 DEF Arranges
<1> QED BY <1>8 DEF q

(* One term more: without its last term the sequence is shuffled as well.     *)
LEMMA PermutesOneMore ==
  ASSUME NEW n \in Nat, Permutes(n)
  PROVE  Permutes(n + 1)
<1> SUFFICES ASSUME NEW s \in Seq(Int), Len(s) = n + 1, NEW p, Arranges(p, n + 1)
             PROVE  Total(Shuffled(s, p)) = Total(s)
  BY DEF Permutes
<1> DEFINE t == Shuffled(s, p)
<1> HIDE DEF t
<1>1. t \in Seq(Int) /\ Len(t) = n + 1 /\ \A i \in 1 .. n + 1 : t[i] = s[p[i]]
  <2>1. Arranges(p, Len(s))
    OBVIOUS
  <2>2. t \in Seq(Int) /\ Len(t) = Len(s) /\ \A i \in 1 .. Len(s) : t[i] = s[p[i]]
    BY <2>1, ShuffledIs DEF t
  <2> QED BY <2>2
<1> DEFINE r == First(s, n)
           w == First(t, n)
<1>2. r \in Seq(Int) /\ Len(r) = n /\ \A i \in 1 .. n : r[i] = s[i]
  <2>1. n \in 0 .. Len(s)
    OBVIOUS
  <2> QED BY <2>1, FirstIs
<1>3. w \in Seq(Int) /\ Len(w) = n /\ \A i \in 1 .. n : w[i] = t[i]
  <2>1. n \in 0 .. Len(t)
    BY <1>1
  <2> QED BY <1>1, <2>1, FirstIs
<1>4. Total(t) = Total(w) + t[n + 1] /\ Total(w) \in Int
  <2>1. Len(t) > 0 /\ Len(t) - 1 = n
    BY <1>1
  <2> HIDE DEF w
  <2> QED BY <1>1, <1>3, <2>1, TotalOf DEF w
<1>5. Total(s) = Total(r) + s[n + 1] /\ Total(r) \in Int
  <2>1. Len(s) > 0 /\ Len(s) - 1 = n
    OBVIOUS
  <2> HIDE DEF r
  <2> QED BY <1>2, <2>1, TotalOf DEF r
<1>6. PICK k \in 1 .. n + 1 : p[k] = n + 1
  <2>1. n + 1 \in 1 .. n + 1
    OBVIOUS
  <2> QED BY <2>1 DEF Arranges
<1> DEFINE q == [i \in 1 .. n |-> IF i = k THEN p[n + 1] ELSE p[i]]
<1>7. Arranges(q, n)
  BY <1>6, ArrangesOneLess
<1>8. \A i \in 1 .. n : q[i] = IF i = k THEN p[n + 1] ELSE p[i]
  OBVIOUS
<1> HIDE DEF q, r, w
<1>9. Total(Shuffled(r, q)) = Total(r)
  BY <1>2, <1>7 DEF Permutes
<1>10. ASSUME NEW i \in 1 .. n
       PROVE  Shuffled(r, q)[i] = IF i = k THEN t[n + 1] ELSE t[i]
  <2>1. q[i] \in 1 .. n
    BY <1>7 DEF Arranges
  <2>2. Shuffled(r, q)[i] = s[q[i]]
    <3>1. Arranges(q, Len(r))
      BY <1>2, <1>7
    <3>2. Shuffled(r, q)[i] = r[q[i]]
      BY <1>2, <3>1, ShuffledIs
    <3> QED BY <1>2, <2>1, <3>2
  <2>3. i \in 1 .. n + 1 /\ n + 1 \in 1 .. n + 1
    OBVIOUS
  <2> QED BY <1>1, <1>8, <2>2, <2>3
<1>11. Shuffled(r, q) \in Seq(Int) /\ Len(Shuffled(r, q)) = n
  BY <1>2, <1>7, ShuffledIs
<1>12. t[n + 1] \in Int /\ s[n + 1] \in Int /\ t[k] = s[n + 1]
  BY <1>1, <1>6
<1>13. CASE k = n + 1
  <2>1. \A i \in 1 .. n : Shuffled(r, q)[i] = w[i]
    BY <1>3, <1>10, <1>13
  <2>2. Shuffled(r, q) = w
    BY <1>3, <1>11, <2>1
  <2> QED BY <1>4, <1>5, <1>9, <1>12, <1>13, <2>2 DEF t
<1>14. CASE k # n + 1
  <2>1. k \in 1 .. n
    BY <1>14
  <2> DEFINE v == [w EXCEPT ![k] = t[n + 1]]
  <2>2. /\ v \in Seq(Int) /\ Len(v) = n
        /\ \A i \in 1 .. n : v[i] = IF i = k THEN t[n + 1] ELSE w[i]
    BY <1>3, <1>12, <2>1, ReplacedIs
  <2>3. Total(v) = Total(w) - w[k] + t[n + 1]
    BY <1>3, <1>12, <2>1, TotalReplace
  <2> HIDE DEF v
  <2>4. \A i \in 1 .. n : Shuffled(r, q)[i] = v[i]
    BY <1>3, <1>10, <2>2
  <2>5. Shuffled(r, q) = v
    BY <1>11, <2>2, <2>4
  <2>6. w[k] = s[n + 1]
    BY <1>3, <1>12, <2>1
  <2> QED BY <1>4, <1>5, <1>9, <1>12, <2>3, <2>5, <2>6 DEF t
<1> QED BY <1>13, <1>14

(* The sum of a shuffled sequence is that of the sequence.                    *)
LEMMA TotalShuffled ==
  ASSUME NEW s \in Seq(Int), NEW p \in Orders(Len(s))
  PROVE  Total(Shuffled(s, p)) = Total(s)
<1> DEFINE S == {n \in Nat : Permutes(n)}
<1>1. 0 \in S
  <2>1. ASSUME NEW t \in Seq(Int), Len(t) = 0, NEW q, Arranges(q, 0)
        PROVE  Total(Shuffled(t, q)) = Total(t)
    <3>1. Shuffled(t, q) \in Seq(Int) /\ Len(Shuffled(t, q)) = 0
      BY <2>1, ShuffledIs
    <3> QED BY <2>1, <3>1, TotalOf
  <2> QED BY <2>1 DEF Permutes
<1>2. \A n \in Nat : n \in S => n + 1 \in S
  BY PermutesOneMore
<1> HIDE DEF S
<1>3. Nat \subseteq S
  BY <1>1, <1>2, Induction
<1>4. Len(s) \in Nat
  OBVIOUS
<1>5. Permutes(Len(s)) /\ Arranges(p, Len(s))
  BY <1>3, <1>4, OrderArranges DEF S
<1> QED BY <1>5 DEF Permutes

-----------------------------------------------------------------------------
(* Sums of commitments: the sum of the values and that of the randomness.     *)
CommitTo(G, v, r, t) ==
  /\ v \in Seq(Int) /\ r \in Seq(Int) /\ t \in Seq(Int)
  /\ Len(r) = Len(v) /\ Len(t) = Len(v)
  /\ \A i \in 1 .. Len(v) : t[i] = v[i] * G + r[i]

LEMMA OneMoreCommitment ==
  ASSUME NEW G \in Int, NEW v, NEW r, NEW t, CommitTo(G, v, r, t), Len(v) > 0
  PROVE  LET n == Len(v) - 1
         IN  /\ CommitTo(G, First(v, n), First(r, n), First(t, n)) /\ Len(First(v, n)) = n
             /\ n \in Nat
             /\ Total(First(t, n)) = Total(First(v, n)) * G + Total(First(r, n)) =>
                  Total(t) = Total(v) * G + Total(r)
<1> DEFINE n == Len(v) - 1
<1>1. /\ v \in Seq(Int) /\ r \in Seq(Int) /\ t \in Seq(Int)
      /\ Len(r) = Len(v) /\ Len(t) = Len(v) /\ Len(v) \in Nat
      /\ \A i \in 1 .. Len(v) : t[i] = v[i] * G + r[i]
  BY DEF CommitTo
<1>2. n \in Nat /\ n \in 0 .. Len(v) /\ Len(v) \in 1 .. Len(v) /\ \A i \in 1 .. n : i \in 1 .. Len(v)
  BY <1>1
<1> HIDE DEF n
<1>3. /\ First(v, n) \in Seq(Int) /\ Len(First(v, n)) = n /\ \A i \in 1 .. n : First(v, n)[i] = v[i]
      /\ First(r, n) \in Seq(Int) /\ Len(First(r, n)) = n /\ \A i \in 1 .. n : First(r, n)[i] = r[i]
      /\ First(t, n) \in Seq(Int) /\ Len(First(t, n)) = n /\ \A i \in 1 .. n : First(t, n)[i] = t[i]
  <2>1. n \in 0 .. Len(v) /\ n \in 0 .. Len(r) /\ n \in 0 .. Len(t)
    BY <1>1, <1>2
  <2>2. First(v, n) \in Seq(Int) /\ Len(First(v, n)) = n /\ \A i \in 1 .. n : First(v, n)[i] = v[i]
    BY <1>1, <2>1, FirstIs
  <2>3. First(r, n) \in Seq(Int) /\ Len(First(r, n)) = n /\ \A i \in 1 .. n : First(r, n)[i] = r[i]
    BY <1>1, <2>1, FirstIs
  <2>4. First(t, n) \in Seq(Int) /\ Len(First(t, n)) = n /\ \A i \in 1 .. n : First(t, n)[i] = t[i]
    BY <1>1, <2>1, FirstIs
  <2> QED BY <2>2, <2>3, <2>4
<1>4. CommitTo(G, First(v, n), First(r, n), First(t, n))
  BY <1>1, <1>2, <1>3 DEF CommitTo
<1>5. /\ Total(v) = Total(First(v, n)) + v[Len(v)] /\ Total(r) = Total(First(r, n)) + r[Len(v)]
      /\ Total(t) = Total(First(t, n)) + t[Len(v)]
  BY <1>1, TotalOf DEF n
<1>6. /\ Total(First(v, n)) \in Int /\ Total(First(r, n)) \in Int /\ Total(First(t, n)) \in Int
      /\ v[Len(v)] \in Int /\ r[Len(v)] \in Int /\ t[Len(v)] = v[Len(v)] * G + r[Len(v)]
  BY <1>1, <1>2, <1>3, TotalOf
<1>7. ASSUME Total(First(t, n)) = Total(First(v, n)) * G + Total(First(r, n))
      PROVE  Total(t) = Total(v) * G + Total(r)
  <2> DEFINE a == Total(First(v, n))
             x == v[Len(v)]
             b == Total(First(r, n))
             y == r[Len(v)]
  <2>1. a \in Int /\ x \in Int /\ b \in Int /\ y \in Int
    BY <1>6
  <2>2. Total(v) = a + x /\ Total(r) = b + y /\ Total(t) = (a * G + b) + (x * G + y)
    BY <1>5, <1>6, <1>7
  <2> HIDE DEF a, x, b, y
  <2>3. (a * G + b) + (x * G + y) = (a + x) * G + (b + y)
    BY <2>1
  <2> QED BY <2>2, <2>3
<1> QED BY <1>2, <1>3, <1>4, <1>7 DEF n

LEMMA TotalOfCommitments ==
  ASSUME NEW G \in Int, NEW v, NEW r, NEW t, CommitTo(G, v, r, t)
  PROVE  Total(t) = Total(v) * G + Total(r)
<1> DEFINE S == {n \in Nat : \A x, y, z : CommitTo(G, x, y, z) /\ Len(x) = n =>
                   Total(z) = Total(x) * G + Total(y)}
<1>1. 0 \in S
  <2> SUFFICES ASSUME NEW x, NEW y, NEW z, CommitTo(G, x, y, z), Len(x) = 0
               PROVE  Total(z) = Total(x) * G + Total(y)
    OBVIOUS
  <2>1. Total(x) = 0 /\ Total(y) = 0 /\ Total(z) = 0
    BY TotalOf DEF CommitTo
  <2> QED BY <2>1
<1>2. \A n \in Nat : n \in S => n + 1 \in S
  <2> SUFFICES ASSUME NEW n \in Nat, n \in S, NEW x, NEW y, NEW z, CommitTo(G, x, y, z),
                      Len(x) = n + 1
               PROVE  Total(z) = Total(x) * G + Total(y)
    OBVIOUS
  <2>1. /\ CommitTo(G, First(x, n), First(y, n), First(z, n)) /\ Len(First(x, n)) = n
        /\ Total(First(z, n)) = Total(First(x, n)) * G + Total(First(y, n)) =>
             Total(z) = Total(x) * G + Total(y)
    <3>1. Len(x) > 0 /\ Len(x) - 1 = n
      OBVIOUS
    <3> HIDE DEF S
    <3> QED BY <3>1, OneMoreCommitment
  <2> QED BY <2>1
<1> HIDE DEF S
<1>3. Nat \subseteq S
  BY <1>1, <1>2, Induction
<1>4. Len(v) \in Nat
  BY DEF CommitTo
<1> QED BY <1>3, <1>4 DEF S

-----------------------------------------------------------------------------
(* A commitment determines its value, as long as the randomness stays below   *)
(* the generator.                                                             *)
LEMMA CommitsTo ==
  ASSUME NEW G \in Nat \ {0}, NEW v \in Int, NEW r \in 0 .. G - 1
  PROVE  (v * G + r) \div G = v
<1> DEFINE n == v * G + r
           q == n \div G
           m == n % G
<1>1. v * G \in Int /\ n \in Int
  OBVIOUS
<1> HIDE DEF n
<1>2. q \in Int /\ m \in 0 .. G - 1 /\ n = G * q + m
  BY <1>1
<1> HIDE DEF q, m
<1>3. G * (v - q) = m - r
  BY <1>1, <1>2 DEF n
<1>4. v - q \in Int /\ (v - q >= 1 => G * (v - q) >= G) /\ (v - q <= -1 => G * (v - q) <= -G)
  BY <1>2
<1>5. m - r < G /\ m - r > -G
  BY <1>2
<1> QED BY <1>2, <1>3, <1>4, <1>5 DEF q, n

-----------------------------------------------------------------------------
(* What a signature hash depends on.                                          *)

(* Structures with the same fields are written the same.                      *)
LEMMA SameStruct ==
  ASSUME NEW e, NEW d, NEW fields, \A i \in DOMAIN fields : e[fields[i]] = d[fields[i]]
  PROVE  WriteStruct(e, fields) = WriteStruct(d, fields)
<1>1. [i \in DOMAIN fields |-> WriteField(fields[i], e[fields[i]])]
        = [i \in DOMAIN fields |-> WriteField(fields[i], d[fields[i]])]
  OBVIOUS
<1> QED BY <1>1 DEF WriteStruct, WriteArray

LEMMA SameDigest ==
  ASSUME NEW name, NEW es, NEW ds, NEW fields, DOMAIN es = DOMAIN ds,
         \A i \in DOMAIN es : \A j \in DOMAIN fields : es[i][fields[j]] = ds[i][fields[j]]
  PROVE  Digest(name, es, fields) = Digest(name, ds, fields)
<1>1. \A i \in DOMAIN es : WriteStruct(es[i], fields) = WriteStruct(ds[i], fields)
  BY SameStruct
<1>2. [i \in DOMAIN es |-> WriteStruct(es[i], fields)]
        = [i \in DOMAIN ds |-> WriteStruct(ds[i], fields)]
  BY <1>1
<1> QED BY <1>2 DEF Digest

(* Two transactions that differ in signatures alone.                          *)
SameInputs(tx, ty) ==
  /\ DOMAIN tx.vin = DOMAIN ty.vin
  /\ \A i \in DOMAIN tx.vin : /\ tx.vin[i].hash = ty.vin[i].hash /\ tx.vin[i].n = ty.vin[i].n
                              /\ tx.vin[i].sequence = ty.vin[i].sequence
SameSpends(tx, ty) ==
  /\ DOMAIN tx.spends = DOMAIN ty.spends /\ (tx.spends = << >>) = (ty.spends = << >>)
  /\ \A i \in DOMAIN tx.spends :
       \A f \in {"cv", "anchor", "nullifier", "rk", "zkproof"} : tx.spends[i][f] = ty.spends[i][f]
SameEffects(tx, ty) ==
  /\ SameInputs(tx, ty) /\ SameSpends(tx, ty)
  /\ tx.version = ty.version /\ tx.vout = ty.vout /\ tx.outputs = ty.outputs
  /\ tx.joinsplits = ty.joinsplits /\ tx.joinsplitPubkey = ty.joinsplitPubkey
  /\ tx.lockTime = ty.lockTime /\ tx.expiryHeight = ty.expiryHeight
  /\ tx.valueBalance = ty.valueBalance /\ tx.version # ZFuture

LEMMA SameInputDigests ==
  ASSUME NEW tx, NEW ty, SameInputs(tx, ty)
  PROVE  /\ Digest("prevouts", tx.vin, <<"hash", "n">>) = Digest("prevouts", ty.vin, <<"hash", "n">>)
         /\ Digest("sequence", tx.vin, <<"sequence">>) = Digest("sequence", ty.vin, <<"sequence">>)
<1>1. \A i \in DOMAIN tx.vin, j \in DOMAIN <<"hash", "n">> :
        tx.vin[i][<<"hash", "n">>[j]] = ty.vin[i][<<"hash", "n">>[j]]
  BY DEF SameInputs
<1>2. \A i \in DOMAIN tx.vin, j \in DOMAIN <<"sequence">> :
        tx.vin[i][<<"sequence">>[j]] = ty.vin[i][<<"sequence">>[j]]
  BY DEF SameInputs
<1>3. DOMAIN tx.vin = DOMAIN ty.vin
  BY DEF SameInputs
<1>4. Digest("prevouts", tx.vin, <<"hash", "n">>) = Digest("prevouts", ty.vin, <<"hash", "n">>)
  BY <1>1, <1>3, SameDigest
<1>5. Digest("sequence", tx.vin, <<"sequence">>) = Digest("sequence", ty.vin, <<"sequence">>)
  BY <1>2, <1>3, SameDigest
<1> QED BY <1>4, <1>5

LEMMA SameSpendDigest ==
  ASSUME NEW tx, NEW ty, SameSpends(tx, ty)
  PROVE  Digest("spends", tx.spends, SpendEffects) = Digest("spends", ty.spends, SpendEffects)
<1>1. \A j \in DOMAIN SpendEffects : SpendEffects[j] \in {"cv", "anchor", "nullifier", "rk", "zkproof"}
  BY DEF SpendEffects
<1>2. \A i \in DOMAIN tx.spends, j \in DOMAIN SpendEffects :
        tx.spends[i][SpendEffects[j]] = ty.spends[i][SpendEffects[j]]
  BY <1>1 DEF SameSpends
<1>3. DOMAIN tx.spends = DOMAIN ty.spends
  BY DEF SameSpends
<1> QED BY <1>2, <1>3, SameDigest

(* They have the same signature hashes.                                       *)
LEMMA SameHash ==
  ASSUME NEW tx, NEW ty, SameEffects(tx, ty), NEW branch
  PROVE  /\ SignatureHash(tx, branch, SighashAll, ShieldedInput)
              = SignatureHash(ty, branch, SighashAll, ShieldedInput)
         /\ \A i \in DOMAIN tx.vin : \A script, value :
              SignatureHash(tx, branch, SighashAll, TransparentInput(i, script, value))
                = SignatureHash(ty, branch, SighashAll, TransparentInput(i, script, value))
<1>1. /\ Digest("prevouts", tx.vin, <<"hash", "n">>) = Digest("prevouts", ty.vin, <<"hash", "n">>)
      /\ Digest("sequence", tx.vin, <<"sequence">>) = Digest("sequence", ty.vin, <<"sequence">>)
      /\ Digest("spends", tx.spends, SpendEffects) = Digest("spends", ty.spends, SpendEffects)
  BY SameInputDigests, SameSpendDigest DEF SameEffects
<1>2. /\ tx.version = ty.version /\ tx.vout = ty.vout /\ tx.outputs = ty.outputs
      /\ tx.joinsplits = ty.joinsplits /\ tx.joinsplitPubkey = ty.joinsplitPubkey
      /\ tx.lockTime = ty.lockTime /\ tx.expiryHeight = ty.expiryHeight
      /\ tx.valueBalance = ty.valueBalance /\ (tx.spends = << >>) = (ty.spends = << >>)
      /\ ~HasTze(tx.version) /\ ~HasTze(ty.version)
  BY DEF SameEffects, SameSpends, HasTze
<1>3. JoinsplitsHash(tx) = JoinsplitsHash(ty) /\ ShieldedOutputsHash(tx) = ShieldedOutputsHash(ty)
  BY <1>2 DEF JoinsplitsHash, ShieldedOutputsHash
<1>4. \A i \in DOMAIN tx.vin : /\ tx.vin[i].hash = ty.vin[i].hash /\ tx.vin[i].n = ty.vin[i].n
                               /\ tx.vin[i].sequence = ty.vin[i].sequence
  BY DEF SameEffects, SameInputs
<1>5. BaseType(SighashAll) \notin {SighashSingle, SighashNone}
  BY DEF BaseType, SighashAll, SighashSingle, SighashNone
<1> HIDE DEF Digest
<1>6. SignatureHash(tx, branch, SighashAll, ShieldedInput)
        = SignatureHash(ty, branch, SighashAll, ShieldedInput)
  BY <1>1, <1>2, <1>3, <1>5 DEF SignatureHash, ShieldedInput, DigestIf
<1>7. ASSUME NEW i \in DOMAIN tx.vin, NEW script, NEW value
      PROVE  SignatureHash(tx, branch, SighashAll, TransparentInput(i, script, value))
               = SignatureHash(ty, branch, SighashAll, TransparentInput(i, script, value))
  <2> DEFINE input == TransparentInput(i, script, value)
  <2>1. input.kind = "transparent" /\ input.index = i /\ input.script = script /\ input.value = value
    BY DEF TransparentInput
  <2> HIDE DEF input
  <2>2. SignatureHash(tx, branch, SighashAll, input) = SignatureHash(ty, branch, SighashAll, input)
    BY <1>1, <1>2, <1>3, <1>4, <1>5, <2>1 DEF SignatureHash, DigestIf
  <2> QED BY <2>2 DEF input
<1> QED BY <1>6, <1>7

-----------------------------------------------------------------------------
(* The calls before build: the types of the builder, and its balance.         *)

Spends == [key : Keys, note : Notes]
Recipients == Keys \cup {BadAddress} \cup {note.owner : note \in Notes}
Payments == [to : Recipients, value : Int]
CoinSpends == [key : Keys, coin : TransparentCoins]
NoteValues(spends) == [i \in DOMAIN spends |-> spends[i].note.value]

(* The transaction and the builder before build.                              *)
VinType == [hash : {0}, n : {coin.n : coin \in TransparentCoins}, scriptSig : {<< >>}, sequence : {9999}]
VoutType == [value : Int, scriptPubkey : {<<1>>}]
TzeInType == [hash : {0}, n : Nat, extensionId : {0}, mode : {0}, payload : {<< >>}]
TzeOutType == [value : Int, extensionId : {0}, mode : {0}, payload : {<<7>>}]
Drafts ==
  [version : Versions, lockTime : {0}, expiryHeight : {Height + DEFAULT_TX_EXPIRY_DELTA},
   vin : Seq(VinType), vout : Seq(VoutType), tzeInputs : Seq(TzeInType),
   tzeOutputs : Seq(TzeOutType), valueBalance : Int, spends : {<< >>}, outputs : {<< >>}, joinsplits : {<< >>},
   joinsplitPubkey : {None}, joinsplitSig : {None}, bindingSig : {None}]
Anchors == {NoAnchor} \cup {note.anchor : note \in Notes}
Witnesses == [value : Int, mode : {0, 1}]
ChangeTo == {None} \cup {<<to>> : to \in Keys \cup {BadAddress}}
Builders ==
  [calls : 0 .. MaxCalls, tx : Drafts, anchor : Anchors, spends : Seq(Spends),
   outputs : Seq(Payments), coins : Seq(CoinSpends), tze : Seq(Witnesses), change : ChangeTo]

(* The balance is what the notes leave, each coin is spent by its owner, and  *)
(* only the transactions of a test network have extensions.                   *)
Sound(b, calls) ==
  /\ b.tx.valueBalance = Total(NoteValues(b.spends)) - Total(ValuesOf(b.outputs))
  /\ Len(b.spends) + Len(b.outputs) <= calls
  /\ Len(b.tx.vin) = Len(b.coins)
  /\ \A i \in DOMAIN b.coins : b.coins[i].key = b.coins[i].coin.owner
  /\ b.tx.version # ZFuture =>
       b.tze = << >> /\ b.tx.tzeInputs = << >> /\ b.tx.tzeOutputs = << >>
BuilderIsSound == builder \in Builders /\ Sound(builder, builder.calls)

(* A new builder is sound.                                                    *)
LEMMA InitIsSound == ASSUME BuilderInit PROVE BuilderIsSound
<1>1. PICK v \in Versions :
        builder = [calls |-> 0, tx |-> [EmptyTx(v) EXCEPT
                                          !.expiryHeight = Height + DEFAULT_TX_EXPIRY_DELTA],
                   anchor |-> NoAnchor, spends |-> << >>, outputs |-> << >>,
                   coins |-> << >>, tze |-> << >>, change |-> None]
  BY DEF BuilderInit
<1> DEFINE tx == [EmptyTx(v) EXCEPT !.expiryHeight = Height + DEFAULT_TX_EXPIRY_DELTA]
<1>2. tx \in Drafts
  <2> DEFINE h == Height + DEFAULT_TX_EXPIRY_DELTA
  <2>1. tx = [version |-> v, vin |-> << >>, vout |-> << >>, tzeInputs |-> << >>,
              tzeOutputs |-> << >>, lockTime |-> 0, expiryHeight |-> h, valueBalance |-> 0,
              spends |-> << >>, outputs |-> << >>, joinsplits |-> << >>, joinsplitPubkey |-> None,
              joinsplitSig |-> None, bindingSig |-> None]
    BY DEF EmptyTx
  <2> HIDE DEF tx
  <2>2. h = Height + DEFAULT_TX_EXPIRY_DELTA
    OBVIOUS
  <2> HIDE DEF h
  <2> QED BY <2>1, <2>2 DEF Drafts
<1>3. /\ tx.valueBalance = 0 /\ tx.vin = << >> /\ tx.tzeInputs = << >> /\ tx.tzeOutputs = << >>
  BY DEF EmptyTx
<1>4. builder.tx = tx
  BY <1>1
<1> HIDE DEF tx
<1>5. /\ builder.calls = 0 /\ builder.spends = << >> /\ builder.outputs = << >>
      /\ builder.coins = << >> /\ builder.tze = << >>
  BY <1>1
<1>6. builder \in Builders
  BY <1>1, <1>2, <1>4, BuilderAssumption DEF Builders, Anchors, ChangeTo
<1>7. Total(<< >>) = 0 /\ NoteValues(<< >>) = << >> /\ ValuesOf(<< >>) = << >>
  <2>1. << >> \in Seq(Int) /\ Len(<< >>) = 0
    OBVIOUS
  <2>2. NoteValues(<< >>) = << >> /\ ValuesOf(<< >>) = << >>
    BY DEF NoteValues, ValuesOf
  <2> QED BY <2>1, <2>2, TotalOf
<1> QED BY <1>3, <1>4, <1>5, <1>6, <1>7 DEF BuilderIsSound, Sound

(* An answered call is counted.                                               *)
LEMMA AnswerIsSound ==
  ASSUME builder \in Builders, TakesCalls, NEW o, NEW b \in Builders,
         b.calls = builder.calls, Sound(b, b.calls + 1), Answer(o, b)
  PROVE  BuilderIsSound' /\ built' = built
<1>1. builder' = [b EXCEPT !.calls = @ + 1] /\ built' = built
  BY DEF Answer
<1>2. b.calls \in Int /\ b.calls < MaxCalls /\ b.calls + 1 \in 0 .. MaxCalls
  BY BuilderAssumption DEF Builders, TakesCalls
<1>3. builder' \in Builders
  BY <1>1, <1>2 DEF Builders
<1>4. /\ builder'.calls = b.calls + 1 /\ builder'.tx = b.tx /\ builder'.spends = b.spends
      /\ builder'.outputs = b.outputs /\ builder'.coins = b.coins /\ builder'.tze = b.tze
  BY <1>1 DEF Builders
<1>5. Sound(builder', builder'.calls)
  BY <1>4 DEF Sound
<1> QED BY <1>1, <1>3, <1>5 DEF BuilderIsSound

(* Lists of values.                                                           *)
LEMMA ListIs ==
  ASSUME NEW S, NEW n \in Nat, NEW f, f = [i \in 1 .. n |-> f[i]], \A i \in 1 .. n : f[i] \in S
  PROVE  f \in Seq(S) /\ Len(f) = n
OBVIOUS

LEMMA ValuesIs ==
  ASSUME NEW S, \A e \in S : e.value \in Int, NEW s \in Seq(S)
  PROVE  /\ ValuesOf(s) \in Seq(Int) /\ Len(ValuesOf(s)) = Len(s)
         /\ \A i \in 1 .. Len(s) : ValuesOf(s)[i] = s[i].value
<1>1. Len(s) \in Nat /\ DOMAIN s = 1 .. Len(s) /\ \A i \in 1 .. Len(s) : s[i] \in S
  OBVIOUS
<1>2. ValuesOf(s) = [i \in 1 .. Len(s) |-> s[i].value]
  BY <1>1 DEF ValuesOf
<1>3. /\ \A i \in 1 .. Len(s) : ValuesOf(s)[i] = s[i].value
      /\ ValuesOf(s) = [i \in 1 .. Len(s) |-> ValuesOf(s)[i]]
  BY <1>2
<1> QED BY <1>1, <1>3, ListIs

LEMMA NoteValuesIs ==
  ASSUME NEW s \in Seq(Spends)
  PROVE  /\ NoteValues(s) \in Seq(Int) /\ Len(NoteValues(s)) = Len(s)
         /\ \A i \in 1 .. Len(s) : NoteValues(s)[i] = s[i].note.value
<1>1. Len(s) \in Nat /\ DOMAIN s = 1 .. Len(s) /\ \A i \in 1 .. Len(s) : s[i] \in Spends
  OBVIOUS
<1>2. NoteValues(s) = [i \in 1 .. Len(s) |-> s[i].note.value]
  BY <1>1 DEF NoteValues
<1>3. /\ \A i \in 1 .. Len(s) : NoteValues(s)[i] = s[i].note.value
      /\ NoteValues(s) = [i \in 1 .. Len(s) |-> NoteValues(s)[i]]
  BY <1>2
<1>4. \A i \in 1 .. Len(s) : s[i].note.value \in Int
  BY <1>1, BuilderAssumption DEF Spends
<1> QED BY <1>1, <1>3, <1>4, ListIs

LEMMA PaymentsAdd ==
  ASSUME NEW s \in Seq(Payments), NEW e \in Payments
  PROVE  /\ Total(ValuesOf(s)) \in Int
         /\ Total(ValuesOf(Append(s, e))) = Total(ValuesOf(s)) + e.value
<1>1. (\A p \in Payments : p.value \in Int) /\ Append(s, e) \in Seq(Payments)
  BY DEF Payments
<1>2. /\ ValuesOf(s) \in Seq(Int) /\ Len(ValuesOf(s)) = Len(s)
      /\ \A i \in 1 .. Len(s) : ValuesOf(s)[i] = s[i].value
  BY <1>1, ValuesIs
<1>3. /\ ValuesOf(Append(s, e)) \in Seq(Int) /\ Len(ValuesOf(Append(s, e))) = Len(s) + 1
      /\ \A i \in 1 .. Len(s) + 1 : ValuesOf(Append(s, e))[i] = Append(s, e)[i].value
  <2>1. Len(Append(s, e)) = Len(s) + 1
    OBVIOUS
  <2> QED BY <1>1, <2>1, ValuesIs
<1>4. e.value \in Int
  BY <1>1
<1>5. ValuesOf(Append(s, e)) = Append(ValuesOf(s), e.value)
  BY <1>2, <1>3, <1>4
<1> QED BY <1>2, <1>4, <1>5, TotalOf, TotalAppend

LEMMA SpendsAdd ==
  ASSUME NEW s \in Seq(Spends), NEW e \in Spends
  PROVE  /\ Total(NoteValues(s)) \in Int
         /\ Total(NoteValues(Append(s, e))) = Total(NoteValues(s)) + e.note.value
<1>1. /\ NoteValues(s) \in Seq(Int) /\ Len(NoteValues(s)) = Len(s)
      /\ \A i \in 1 .. Len(s) : NoteValues(s)[i] = s[i].note.value
  BY NoteValuesIs
<1>2. /\ NoteValues(Append(s, e)) \in Seq(Int) /\ Len(NoteValues(Append(s, e))) = Len(s) + 1
      /\ \A i \in 1 .. Len(s) + 1 : NoteValues(Append(s, e))[i] = Append(s, e)[i].note.value
  <2>1. Append(s, e) \in Seq(Spends) /\ Len(Append(s, e)) = Len(s) + 1
    OBVIOUS
  <2> QED BY <2>1, NoteValuesIs
<1>3. e.note.value \in Int
  BY BuilderAssumption DEF Spends
<1>4. NoteValues(Append(s, e)) = Append(NoteValues(s), e.note.value)
  <2> DEFINE t == NoteValues(s)
             u == NoteValues(Append(s, e))
             v == e.note.value
  <2>1. t \in Seq(Int) /\ Len(t) = Len(s) /\ u \in Seq(Int) /\ Len(u) = Len(s) + 1 /\ v \in Int
    BY <1>1, <1>2, <1>3
  <2>2. u[Len(s) + 1] = v /\ \A i \in 1 .. Len(s) : u[i] = t[i]
    BY <1>1, <1>2
  <2> HIDE DEF t, u, v
  <2>3. u = Append(t, v)
    BY <2>1, <2>2
  <2> QED BY <2>3 DEF t, u, v
<1> QED BY <1>1, <1>3, <1>4, TotalOf, TotalAppend

(* What is sound for fewer calls.                                             *)
LEMMA StaysSound ==
  ASSUME NEW b, NEW c, NEW n \in Nat, b.spends \in Seq(Spends), b.outputs \in Seq(Payments),
         Sound(b, n), c.tx = b.tx, c.spends = b.spends, c.outputs = b.outputs,
         c.coins = b.coins, c.tze = b.tze
  PROVE  Sound(c, n + 1)
<1> DEFINE m == Len(b.spends) + Len(b.outputs)
<1>1. m \in Nat
  <2> DEFINE i == Len(b.spends)
             j == Len(b.outputs)
  <2>1. i \in Nat /\ j \in Nat
    OBVIOUS
  <2> HIDE DEF i, j
  <2>2. i + j \in Nat
    BY <2>1
  <2> QED BY <2>2 DEF i, j
<1>2. m <= n
  BY DEF Sound
<1> HIDE DEF m
<1>3. m <= n + 1
  BY <1>1, <1>2
<1>4. Len(c.spends) + Len(c.outputs) <= n + 1
  BY <1>3 DEF m
<1> QED BY <1>4 DEF Sound

(* A draft or a builder with some of its fields set.                          *)
SetValueBalance(tx, x) == [tx EXCEPT !.valueBalance = x]
SetVin(tx, x) == [tx EXCEPT !.vin = x]
SetVout(tx, x) == [tx EXCEPT !.vout = x]
SetTzeInputs(tx, x) == [tx EXCEPT !.tzeInputs = x]
SetTzeOutputs(tx, x) == [tx EXCEPT !.tzeOutputs = x]
SetAnchor(b, a) == [b EXCEPT !.anchor = a]
SetSpends(b, t, s) == [b EXCEPT !.tx = t, !.spends = s]
SetOutputs(b, t, s) == [b EXCEPT !.tx = t, !.outputs = s]
SetCoins(b, t, s) == [b EXCEPT !.tx = t, !.coins = s]
SetTx(b, t) == [b EXCEPT !.tx = t]
SetTze(b, t, s) == [b EXCEPT !.tx = t, !.tze = s]
SetChange(b, to) == [b EXCEPT !.change = to]

(* What setting a field leaves alone.                                         *)
LEMMA DraftBalance ==
  ASSUME NEW tx \in Drafts, NEW x \in Int
  PROVE  /\ SetValueBalance(tx, x) \in Drafts /\ SetValueBalance(tx, x).valueBalance = x
         /\ SetValueBalance(tx, x).version = tx.version /\ SetValueBalance(tx, x).vin = tx.vin
         /\ SetValueBalance(tx, x).vout = tx.vout /\ SetValueBalance(tx, x).tzeInputs = tx.tzeInputs
         /\ SetValueBalance(tx, x).tzeOutputs = tx.tzeOutputs
<1>1. SetValueBalance(tx, x) \in Drafts
  BY DEF SetValueBalance, Drafts
<1>2. SetValueBalance(tx, x).valueBalance = x
  BY DEF SetValueBalance, Drafts
<1>3. /\ SetValueBalance(tx, x).version = tx.version /\ SetValueBalance(tx, x).vin = tx.vin
      /\ SetValueBalance(tx, x).vout = tx.vout /\ SetValueBalance(tx, x).tzeInputs = tx.tzeInputs
      /\ SetValueBalance(tx, x).tzeOutputs = tx.tzeOutputs
  BY DEF SetValueBalance, Drafts
<1> QED BY <1>1, <1>2, <1>3

LEMMA DraftVin ==
  ASSUME NEW tx \in Drafts, NEW x \in Seq(VinType)
  PROVE  /\ SetVin(tx, x) \in Drafts /\ SetVin(tx, x).vin = x
         /\ SetVin(tx, x).version = tx.version /\ SetVin(tx, x).vout = tx.vout
         /\ SetVin(tx, x).tzeInputs = tx.tzeInputs /\ SetVin(tx, x).tzeOutputs = tx.tzeOutputs
         /\ SetVin(tx, x).valueBalance = tx.valueBalance
<1>1. SetVin(tx, x) \in Drafts
  BY DEF SetVin, Drafts
<1>2. SetVin(tx, x).vin = x
  BY DEF SetVin, Drafts
<1>3. /\ SetVin(tx, x).version = tx.version /\ SetVin(tx, x).vout = tx.vout
      /\ SetVin(tx, x).tzeInputs = tx.tzeInputs /\ SetVin(tx, x).tzeOutputs = tx.tzeOutputs
      /\ SetVin(tx, x).valueBalance = tx.valueBalance
  BY DEF SetVin, Drafts
<1> QED BY <1>1, <1>2, <1>3

LEMMA DraftVout ==
  ASSUME NEW tx \in Drafts, NEW x \in Seq(VoutType)
  PROVE  /\ SetVout(tx, x) \in Drafts /\ SetVout(tx, x).vout = x
         /\ SetVout(tx, x).version = tx.version /\ SetVout(tx, x).vin = tx.vin
         /\ SetVout(tx, x).tzeInputs = tx.tzeInputs /\ SetVout(tx, x).tzeOutputs = tx.tzeOutputs
         /\ SetVout(tx, x).valueBalance = tx.valueBalance
<1>1. SetVout(tx, x) \in Drafts
  BY DEF SetVout, Drafts
<1>2. SetVout(tx, x).vout = x
  BY DEF SetVout, Drafts
<1>3. /\ SetVout(tx, x).version = tx.version /\ SetVout(tx, x).vin = tx.vin
      /\ SetVout(tx, x).tzeInputs = tx.tzeInputs /\ SetVout(tx, x).tzeOutputs = tx.tzeOutputs
      /\ SetVout(tx, x).valueBalance = tx.valueBalance
  BY DEF SetVout, Drafts
<1> QED BY <1>1, <1>2, <1>3

LEMMA DraftTzeInputs ==
  ASSUME NEW tx \in Drafts, NEW x \in Seq(TzeInType)
  PROVE  /\ SetTzeInputs(tx, x) \in Drafts /\ SetTzeInputs(tx, x).tzeInputs = x
         /\ SetTzeInputs(tx, x).version = tx.version /\ SetTzeInputs(tx, x).vin = tx.vin
         /\ SetTzeInputs(tx, x).vout = tx.vout /\ SetTzeInputs(tx, x).tzeOutputs = tx.tzeOutputs
         /\ SetTzeInputs(tx, x).valueBalance = tx.valueBalance
<1>1. SetTzeInputs(tx, x) \in Drafts
  BY DEF SetTzeInputs, Drafts
<1>2. SetTzeInputs(tx, x).tzeInputs = x
  BY DEF SetTzeInputs, Drafts
<1>3. /\ SetTzeInputs(tx, x).version = tx.version /\ SetTzeInputs(tx, x).vin = tx.vin
      /\ SetTzeInputs(tx, x).vout = tx.vout /\ SetTzeInputs(tx, x).tzeOutputs = tx.tzeOutputs
      /\ SetTzeInputs(tx, x).valueBalance = tx.valueBalance
  BY DEF SetTzeInputs, Drafts
<1> QED BY <1>1, <1>2, <1>3

LEMMA DraftTzeOutputs ==
  ASSUME NEW tx \in Drafts, NEW x \in Seq(TzeOutType)
  PROVE  /\ SetTzeOutputs(tx, x) \in Drafts /\ SetTzeOutputs(tx, x).tzeOutputs = x
         /\ SetTzeOutputs(tx, x).version = tx.version /\ SetTzeOutputs(tx, x).vin = tx.vin
         /\ SetTzeOutputs(tx, x).vout = tx.vout /\ SetTzeOutputs(tx, x).tzeInputs = tx.tzeInputs
         /\ SetTzeOutputs(tx, x).valueBalance = tx.valueBalance
<1>1. SetTzeOutputs(tx, x) \in Drafts
  BY DEF SetTzeOutputs, Drafts
<1>2. SetTzeOutputs(tx, x).tzeOutputs = x
  BY DEF SetTzeOutputs, Drafts
<1>3. /\ SetTzeOutputs(tx, x).version = tx.version /\ SetTzeOutputs(tx, x).vin = tx.vin
      /\ SetTzeOutputs(tx, x).vout = tx.vout /\ SetTzeOutputs(tx, x).tzeInputs = tx.tzeInputs
      /\ SetTzeOutputs(tx, x).valueBalance = tx.valueBalance
  BY DEF SetTzeOutputs, Drafts
<1> QED BY <1>1, <1>2, <1>3

LEMMA BuilderAnchor ==
  ASSUME NEW b \in Builders, NEW a \in Anchors
  PROVE  /\ SetAnchor(b, a) \in Builders
         /\ SetAnchor(b, a).anchor = a /\ SetAnchor(b, a).calls = b.calls /\ SetAnchor(b, a).tx = b.tx
         /\ SetAnchor(b, a).spends = b.spends /\ SetAnchor(b, a).outputs = b.outputs /\ SetAnchor(b, a).coins = b.coins
         /\ SetAnchor(b, a).tze = b.tze /\ SetAnchor(b, a).change = b.change
<1>1. SetAnchor(b, a) \in Builders
  BY DEF SetAnchor, Builders
<1>2. /\ SetAnchor(b, a).anchor = a /\ SetAnchor(b, a).calls = b.calls /\ SetAnchor(b, a).tx = b.tx
      /\ SetAnchor(b, a).spends = b.spends /\ SetAnchor(b, a).outputs = b.outputs /\ SetAnchor(b, a).coins = b.coins
      /\ SetAnchor(b, a).tze = b.tze /\ SetAnchor(b, a).change = b.change
  BY DEF SetAnchor, Builders
<1> QED BY <1>1, <1>2

LEMMA BuilderSpends ==
  ASSUME NEW b \in Builders, NEW t \in Drafts, NEW s \in Seq(Spends)
  PROVE  /\ SetSpends(b, t, s) \in Builders
         /\ SetSpends(b, t, s).tx = t /\ SetSpends(b, t, s).spends = s /\ SetSpends(b, t, s).calls = b.calls
         /\ SetSpends(b, t, s).anchor = b.anchor /\ SetSpends(b, t, s).outputs = b.outputs /\ SetSpends(b, t, s).coins = b.coins
         /\ SetSpends(b, t, s).tze = b.tze /\ SetSpends(b, t, s).change = b.change
<1>1. SetSpends(b, t, s) \in Builders
  BY DEF SetSpends, Builders
<1>2. /\ SetSpends(b, t, s).tx = t /\ SetSpends(b, t, s).spends = s /\ SetSpends(b, t, s).calls = b.calls
      /\ SetSpends(b, t, s).anchor = b.anchor /\ SetSpends(b, t, s).outputs = b.outputs /\ SetSpends(b, t, s).coins = b.coins
      /\ SetSpends(b, t, s).tze = b.tze /\ SetSpends(b, t, s).change = b.change
  BY DEF SetSpends, Builders
<1> QED BY <1>1, <1>2

LEMMA BuilderOutputs ==
  ASSUME NEW b \in Builders, NEW t \in Drafts, NEW s \in Seq(Payments)
  PROVE  /\ SetOutputs(b, t, s) \in Builders
         /\ SetOutputs(b, t, s).tx = t /\ SetOutputs(b, t, s).outputs = s /\ SetOutputs(b, t, s).calls = b.calls
         /\ SetOutputs(b, t, s).anchor = b.anchor /\ SetOutputs(b, t, s).spends = b.spends /\ SetOutputs(b, t, s).coins = b.coins
         /\ SetOutputs(b, t, s).tze = b.tze /\ SetOutputs(b, t, s).change = b.change
<1>1. SetOutputs(b, t, s) \in Builders
  BY DEF SetOutputs, Builders
<1>2. /\ SetOutputs(b, t, s).tx = t /\ SetOutputs(b, t, s).outputs = s /\ SetOutputs(b, t, s).calls = b.calls
      /\ SetOutputs(b, t, s).anchor = b.anchor /\ SetOutputs(b, t, s).spends = b.spends /\ SetOutputs(b, t, s).coins = b.coins
      /\ SetOutputs(b, t, s).tze = b.tze /\ SetOutputs(b, t, s).change = b.change
  BY DEF SetOutputs, Builders
<1> QED BY <1>1, <1>2

LEMMA BuilderCoins ==
  ASSUME NEW b \in Builders, NEW t \in Drafts, NEW s \in Seq(CoinSpends)
  PROVE  /\ SetCoins(b, t, s) \in Builders
         /\ SetCoins(b, t, s).tx = t /\ SetCoins(b, t, s).coins = s /\ SetCoins(b, t, s).calls = b.calls
         /\ SetCoins(b, t, s).anchor = b.anchor /\ SetCoins(b, t, s).spends = b.spends /\ SetCoins(b, t, s).outputs = b.outputs
         /\ SetCoins(b, t, s).tze = b.tze /\ SetCoins(b, t, s).change = b.change
<1>1. SetCoins(b, t, s) \in Builders
  BY DEF SetCoins, Builders
<1>2. /\ SetCoins(b, t, s).tx = t /\ SetCoins(b, t, s).coins = s /\ SetCoins(b, t, s).calls = b.calls
      /\ SetCoins(b, t, s).anchor = b.anchor /\ SetCoins(b, t, s).spends = b.spends /\ SetCoins(b, t, s).outputs = b.outputs
      /\ SetCoins(b, t, s).tze = b.tze /\ SetCoins(b, t, s).change = b.change
  BY DEF SetCoins, Builders
<1> QED BY <1>1, <1>2

LEMMA BuilderTx ==
  ASSUME NEW b \in Builders, NEW t \in Drafts
  PROVE  /\ SetTx(b, t) \in Builders
         /\ SetTx(b, t).tx = t /\ SetTx(b, t).calls = b.calls /\ SetTx(b, t).anchor = b.anchor
         /\ SetTx(b, t).spends = b.spends /\ SetTx(b, t).outputs = b.outputs /\ SetTx(b, t).coins = b.coins
         /\ SetTx(b, t).tze = b.tze /\ SetTx(b, t).change = b.change
<1>1. SetTx(b, t) \in Builders
  BY DEF SetTx, Builders
<1>2. /\ SetTx(b, t).tx = t /\ SetTx(b, t).calls = b.calls /\ SetTx(b, t).anchor = b.anchor
      /\ SetTx(b, t).spends = b.spends /\ SetTx(b, t).outputs = b.outputs /\ SetTx(b, t).coins = b.coins
      /\ SetTx(b, t).tze = b.tze /\ SetTx(b, t).change = b.change
  BY DEF SetTx, Builders
<1> QED BY <1>1, <1>2

LEMMA BuilderTze ==
  ASSUME NEW b \in Builders, NEW t \in Drafts, NEW s \in Seq(Witnesses)
  PROVE  /\ SetTze(b, t, s) \in Builders
         /\ SetTze(b, t, s).tx = t /\ SetTze(b, t, s).tze = s /\ SetTze(b, t, s).calls = b.calls
         /\ SetTze(b, t, s).anchor = b.anchor /\ SetTze(b, t, s).spends = b.spends /\ SetTze(b, t, s).outputs = b.outputs
         /\ SetTze(b, t, s).coins = b.coins /\ SetTze(b, t, s).change = b.change
<1>1. SetTze(b, t, s) \in Builders
  BY DEF SetTze, Builders
<1>2. /\ SetTze(b, t, s).tx = t /\ SetTze(b, t, s).tze = s /\ SetTze(b, t, s).calls = b.calls
      /\ SetTze(b, t, s).anchor = b.anchor /\ SetTze(b, t, s).spends = b.spends /\ SetTze(b, t, s).outputs = b.outputs
      /\ SetTze(b, t, s).coins = b.coins /\ SetTze(b, t, s).change = b.change
  BY DEF SetTze, Builders
<1> QED BY <1>1, <1>2

LEMMA BuilderChange ==
  ASSUME NEW b \in Builders, NEW to \in ChangeTo
  PROVE  /\ SetChange(b, to) \in Builders
         /\ SetChange(b, to).change = to /\ SetChange(b, to).calls = b.calls /\ SetChange(b, to).tx = b.tx
         /\ SetChange(b, to).anchor = b.anchor /\ SetChange(b, to).spends = b.spends /\ SetChange(b, to).outputs = b.outputs
         /\ SetChange(b, to).coins = b.coins /\ SetChange(b, to).tze = b.tze
<1>1. SetChange(b, to) \in Builders
  BY DEF SetChange, Builders
<1>2. /\ SetChange(b, to).change = to /\ SetChange(b, to).calls = b.calls /\ SetChange(b, to).tx = b.tx
      /\ SetChange(b, to).anchor = b.anchor /\ SetChange(b, to).spends = b.spends /\ SetChange(b, to).outputs = b.outputs
      /\ SetChange(b, to).coins = b.coins /\ SetChange(b, to).tze = b.tze
  BY DEF SetChange, Builders
<1> QED BY <1>1, <1>2

(* Each call leaves a sound builder.                                          *)
LEMMA SpendIsSound ==
  ASSUME BuilderIsSound, NEW key \in Keys, NEW note \in Notes,
         AddSaplingSpend(key, note)
  PROVE  BuilderIsSound' /\ built' = built
<1> DEFINE b == [builder EXCEPT !.anchor = IF @ = NoAnchor THEN note.anchor ELSE @]
           balance == builder.tx.valueBalance + note.value
           e == [key |-> key, note |-> note]
           c == [b EXCEPT !.tx.valueBalance = balance, !.spends = Append(@, e)]
<1>1. builder \in Builders /\ Sound(builder, builder.calls) /\ builder.calls \in Nat
  BY DEF BuilderIsSound, Builders
<1>2. builder.tx \in Drafts /\ builder.tx.valueBalance \in Int /\ note.value \in Int
      /\ builder.spends \in Seq(Spends) /\ builder.outputs \in Seq(Payments) /\ e \in Spends
  BY <1>1, BuilderAssumption DEF Builders, Drafts, Spends
<1>3. b \in Builders /\ b.calls = builder.calls /\ b.tx = builder.tx /\ b.spends = builder.spends
      /\ b.outputs = builder.outputs /\ b.coins = builder.coins /\ b.tze = builder.tze
  <2>1. note.anchor \in Anchors /\ builder.anchor \in Anchors
    BY <1>1 DEF Anchors, Builders
  <2> DEFINE a == IF builder.anchor = NoAnchor THEN note.anchor ELSE builder.anchor
  <2>2. a \in Anchors
    BY <2>1
  <2>3. b = SetAnchor(builder, a)
    BY DEF SetAnchor
  <2> HIDE DEF a, b
  <2> QED BY <1>1, <2>2, <2>3, BuilderAnchor
<1>4. Sound(b, b.calls + 1) /\ Sound(builder, builder.calls + 1)
  BY <1>1, <1>2, <1>3, StaysSound
<1> HIDE DEF b
<1> DEFINE tx == SetValueBalance(builder.tx, balance)
           s == Append(builder.spends, e)
<1>5. /\ tx \in Drafts /\ tx.valueBalance = balance /\ tx.vin = builder.tx.vin
      /\ tx.version = builder.tx.version /\ tx.tzeInputs = builder.tx.tzeInputs
      /\ tx.tzeOutputs = builder.tx.tzeOutputs
  <2>1. balance \in Int
    BY <1>2
  <2> HIDE DEF balance
  <2> QED BY <1>2, <2>1, DraftBalance
<1>6. c = SetSpends(b, tx, s)
  BY <1>3 DEF Builders, SetSpends, SetValueBalance
<1> HIDE DEF tx, c, s, e, balance
<1>7. /\ c \in Builders /\ c.calls = builder.calls /\ c.tx = tx /\ c.spends = s
      /\ c.outputs = builder.outputs /\ c.coins = builder.coins /\ c.tze = builder.tze
  <2>1. s \in Seq(Spends)
    BY <1>2 DEF s
  <2> QED BY <1>3, <1>5, <1>6, <2>1, BuilderSpends
<1>8. Sound(c, c.calls + 1)
  <2>1. Total(NoteValues(c.spends)) = Total(NoteValues(builder.spends)) + e.note.value
        /\ Total(NoteValues(builder.spends)) \in Int /\ Total(ValuesOf(builder.outputs)) \in Int
    <3>1. Total(ValuesOf(builder.outputs)) \in Int
      BY <1>2, ValuesIs, TotalOf DEF Payments
    <3> QED BY <1>2, <1>7, <3>1, SpendsAdd DEF s
  <2>2. e.note.value = note.value
    BY DEF e
  <2>3. Len(c.spends) = Len(builder.spends) + 1
    BY <1>2, <1>7 DEF s
  <2>4. c.tx.valueBalance = Total(NoteValues(c.spends)) - Total(ValuesOf(c.outputs))
    BY <1>1, <1>2, <1>5, <1>7, <2>1, <2>2 DEF Sound, balance
  <2>5. Len(c.spends) + Len(c.outputs) <= c.calls + 1
    <3>1. Len(builder.spends) \in Nat /\ Len(builder.outputs) \in Nat
      BY <1>2
    <3>2. Len(builder.spends) + Len(builder.outputs) <= builder.calls
      BY <1>1 DEF Sound
    <3> DEFINE m == Len(builder.spends)
               n == Len(builder.outputs)
    <3>3. m \in Nat /\ n \in Nat /\ builder.calls \in Nat /\ m + n <= builder.calls
      BY <1>1, <3>1, <3>2
    <3>4. Len(c.spends) = m + 1 /\ Len(c.outputs) = n /\ c.calls = builder.calls
      BY <1>7, <2>3
    <3> HIDE DEF m, n
    <3> QED BY <3>3, <3>4
  <2> QED BY <1>1, <1>5, <1>7, <2>4, <2>5 DEF Sound
<1>9. TakesCalls /\ \E o : Answer(o, builder) \/ Answer(o, b) \/ Answer(o, c)
  BY DEF AddSaplingSpend, b, c, e, balance
<1> QED BY <1>1, <1>3, <1>4, <1>7, <1>8, <1>9, AnswerIsSound

(* What a sound builder has.                                                  *)
LEMMA SoundHas ==
  ASSUME BuilderIsSound
  PROVE  /\ builder \in Builders /\ Sound(builder, builder.calls) /\ builder.calls \in Nat
         /\ builder.tx \in Drafts /\ builder.tx.valueBalance \in Int
         /\ builder.tx.vin \in Seq(VinType) /\ builder.tx.vout \in Seq(VoutType)
         /\ builder.tx.tzeInputs \in Seq(TzeInType) /\ builder.tx.tzeOutputs \in Seq(TzeOutType)
         /\ builder.spends \in Seq(Spends) /\ builder.outputs \in Seq(Payments)
         /\ builder.coins \in Seq(CoinSpends) /\ builder.tze \in Seq(Witnesses)
         /\ Total(NoteValues(builder.spends)) \in Int /\ Total(ValuesOf(builder.outputs)) \in Int
         /\ Sound(builder, builder.calls + 1)
<1>1. builder \in Builders /\ Sound(builder, builder.calls)
  BY DEF BuilderIsSound
<1>2. /\ builder.calls \in Nat /\ builder.tx \in Drafts /\ builder.spends \in Seq(Spends)
      /\ builder.outputs \in Seq(Payments) /\ builder.coins \in Seq(CoinSpends)
      /\ builder.tze \in Seq(Witnesses)
  BY <1>1 DEF Builders
<1>3. /\ builder.tx.valueBalance \in Int
      /\ builder.tx.vin \in Seq(VinType) /\ builder.tx.vout \in Seq(VoutType)
      /\ builder.tx.tzeInputs \in Seq(TzeInType) /\ builder.tx.tzeOutputs \in Seq(TzeOutType)
  BY <1>2 DEF Drafts
<1>4. Total(NoteValues(builder.spends)) \in Int
  BY <1>2, NoteValuesIs, TotalOf
<1>5. Total(ValuesOf(builder.outputs)) \in Int
  BY <1>2, ValuesIs, TotalOf DEF Payments
<1>6. Sound(builder, builder.calls + 1)
  BY <1>1, <1>2, StaysSound
<1> QED BY <1>1, <1>2, <1>3, <1>4, <1>5, <1>6

(* What leaves the value, the coins and the extensions as they are.           *)
LEMMA KeepsSound ==
  ASSUME BuilderIsSound, NEW c,
         c.calls = builder.calls, c.spends = builder.spends, c.outputs = builder.outputs,
         c.tx.valueBalance = builder.tx.valueBalance, Len(c.tx.vin) = Len(c.coins),
         \A i \in DOMAIN c.coins : c.coins[i].key = c.coins[i].coin.owner,
         c.tx.version # ZFuture =>
           c.tze = << >> /\ c.tx.tzeInputs = << >> /\ c.tx.tzeOutputs = << >>
  PROVE  Sound(c, c.calls + 1)
BY SoundHas DEF Sound

LEMMA OutputIsSound ==
  ASSUME BuilderIsSound, NEW to \in Keys \cup {BadAddress}, NEW value \in Values,
         AddSaplingOutput(to, value)
  PROVE  BuilderIsSound' /\ built' = built
<1> DEFINE balance == builder.tx.valueBalance - value
           e == [to |-> to, value |-> value]
           tx == SetValueBalance(builder.tx, balance)
           s == Append(builder.outputs, e)
           c == SetOutputs(builder, tx, s)
<1>1. value \in Int /\ e \in Payments /\ e.value = value
  BY BuilderAssumption DEF Payments, Recipients
<1>2. TakesCalls /\ \E o : Answer(o, builder) \/ Answer(o, c)
  <2>1. c = [builder EXCEPT !.tx.valueBalance = @ - value, !.outputs = Append(@, e)]
    <3>1. builder \in Builders
      BY SoundHas
    <3> QED BY <3>1 DEF Builders, SetOutputs, SetValueBalance
  <2> HIDE DEF c, s, tx
  <2> QED BY <2>1 DEF AddSaplingOutput
<1> HIDE DEF c, s, e
<1>3. /\ tx \in Drafts /\ tx.valueBalance = balance /\ tx.vin = builder.tx.vin
      /\ tx.version = builder.tx.version /\ tx.tzeInputs = builder.tx.tzeInputs
      /\ tx.tzeOutputs = builder.tx.tzeOutputs
  <2>1. balance \in Int
    BY <1>1, SoundHas
  <2> HIDE DEF balance
  <2> QED BY <2>1, SoundHas, DraftBalance
<1> HIDE DEF tx, balance
<1>4. s \in Seq(Payments) /\ Len(s) = Len(builder.outputs) + 1
  BY <1>1, SoundHas DEF s
<1>5. /\ c \in Builders /\ c.calls = builder.calls /\ c.tx = tx /\ c.outputs = s
      /\ c.spends = builder.spends /\ c.coins = builder.coins /\ c.tze = builder.tze
  BY <1>3, <1>4, SoundHas, BuilderOutputs DEF c
<1>6. Sound(c, c.calls + 1)
  <2>1. Total(ValuesOf(s)) = Total(ValuesOf(builder.outputs)) + value
    BY <1>1, SoundHas, PaymentsAdd DEF s
  <2>2. c.tx.valueBalance = Total(NoteValues(c.spends)) - Total(ValuesOf(c.outputs))
    BY <1>1, <1>3, <1>5, <2>1, SoundHas DEF Sound, balance
  <2>3. Len(c.spends) + Len(c.outputs) <= c.calls + 1
    <3> DEFINE m == Len(builder.spends)
               n == Len(builder.outputs)
    <3>1. m \in Nat /\ n \in Nat
      BY SoundHas
    <3>2. builder.calls \in Nat /\ m + n <= builder.calls
      BY SoundHas DEF Sound
    <3>3. Len(c.spends) = m /\ Len(c.outputs) = n + 1 /\ c.calls = builder.calls
      BY <1>4, <1>5
    <3> HIDE DEF m, n
    <3> QED BY <3>1, <3>2, <3>3
  <2> QED BY <1>3, <1>5, <2>2, <2>3, SoundHas DEF Sound
<1> QED BY <1>2, <1>5, <1>6, SoundHas, AnswerIsSound

LEMMA CoinIsSound ==
  ASSUME BuilderIsSound, NEW key \in Keys, NEW coin \in TransparentCoins,
         AddTransparentInput(key, coin)
  PROVE  BuilderIsSound' /\ built' = built
<1> DEFINE e == [key |-> key, coin |-> coin]
           v == [hash |-> 0, n |-> coin.n, scriptSig |-> << >>, sequence |-> 9999]
           tx == SetVin(builder.tx, Append(builder.tx.vin, v))
           s == Append(builder.coins, e)
           c == SetCoins(builder, tx, s)
<1>1. e \in CoinSpends /\ v \in VinType
  BY DEF CoinSpends, VinType
<1>2. CASE coin.owner = key
  <2>1. TakesCalls /\ \E o : Answer(o, builder) \/ Answer(o, c)
    <3>1. c = [builder EXCEPT !.coins = Append(@, e), !.tx.vin = Append(@, v)]
      <4>1. builder \in Builders
        BY SoundHas
      <4> HIDE DEF e, v
      <4> QED BY <4>1 DEF Builders, SetCoins, SetVin
    <3> HIDE DEF c, s, tx
    <3> QED BY <3>1 DEF AddTransparentInput
  <2> HIDE DEF c, e, v
  <2>2. /\ tx \in Drafts /\ tx.vin = Append(builder.tx.vin, v)
        /\ tx.valueBalance = builder.tx.valueBalance
        /\ tx.version = builder.tx.version /\ tx.tzeInputs = builder.tx.tzeInputs
        /\ tx.tzeOutputs = builder.tx.tzeOutputs
    <3> DEFINE vin == Append(builder.tx.vin, v)
    <3>1. vin \in Seq(VinType)
      BY <1>1, SoundHas
    <3> HIDE DEF vin
    <3>2. /\ SetVin(builder.tx, vin) \in Drafts /\ SetVin(builder.tx, vin).vin = vin
          /\ SetVin(builder.tx, vin).valueBalance = builder.tx.valueBalance
          /\ SetVin(builder.tx, vin).version = builder.tx.version
          /\ SetVin(builder.tx, vin).tzeInputs = builder.tx.tzeInputs
          /\ SetVin(builder.tx, vin).tzeOutputs = builder.tx.tzeOutputs
      BY <3>1, SoundHas, DraftVin
    <3> QED BY <3>2 DEF vin
  <2> HIDE DEF tx, s
  <2>3. s \in Seq(CoinSpends) /\ Len(s) = Len(builder.coins) + 1
        /\ s[Len(builder.coins) + 1] = e
        /\ \A i \in 1 .. Len(builder.coins) : s[i] = builder.coins[i]
    BY <1>1, SoundHas DEF s
  <2>4. /\ c \in Builders /\ c.calls = builder.calls /\ c.tx = tx /\ c.coins = s
        /\ c.spends = builder.spends /\ c.outputs = builder.outputs /\ c.tze = builder.tze
    BY <2>2, <2>3, SoundHas, BuilderCoins DEF c
  <2>5. Len(c.tx.vin) = Len(c.coins)
    <3>1. Len(tx.vin) = Len(builder.tx.vin) + 1
      BY <2>2, SoundHas
    <3> QED BY <2>3, <2>4, <3>1, SoundHas DEF Sound
  <2>6. ASSUME NEW i \in DOMAIN c.coins
        PROVE  c.coins[i].key = c.coins[i].coin.owner
    <3>1. Len(builder.coins) \in Nat /\ i \in 1 .. Len(builder.coins) + 1
          /\ DOMAIN builder.coins = 1 .. Len(builder.coins)
      BY <2>3, <2>4, SoundHas
    <3>2. CASE i = Len(builder.coins) + 1
      BY <1>2, <2>3, <2>4, <3>2 DEF e
    <3>3. CASE i # Len(builder.coins) + 1
      <4>1. i \in DOMAIN builder.coins /\ c.coins[i] = builder.coins[i]
        BY <2>3, <2>4, <3>1, <3>3
      <4> QED BY <4>1, SoundHas DEF Sound
    <3> QED BY <3>2, <3>3
  <2>7. c.tx.version # ZFuture =>
          c.tze = << >> /\ c.tx.tzeInputs = << >> /\ c.tx.tzeOutputs = << >>
    BY <2>2, <2>4, SoundHas DEF Sound
  <2>8. Sound(c, c.calls + 1)
    BY <2>2, <2>4, <2>5, <2>6, <2>7, KeepsSound
  <2> QED BY <2>1, <2>4, <2>8, SoundHas, AnswerIsSound
<1>3. CASE coin.owner # key
  <2>1. TakesCalls /\ \E o : Answer(o, builder)
    BY <1>3 DEF AddTransparentInput
  <2> QED BY <2>1, SoundHas, AnswerIsSound
<1> QED BY <1>2, <1>3

LEMMA PaymentIsSound ==
  ASSUME BuilderIsSound, NEW value \in Values, AddTransparentOutput(1, value)
  PROVE  BuilderIsSound' /\ built' = built
<1> DEFINE v == [value |-> value, scriptPubkey |-> <<1>>]
           vout == Append(builder.tx.vout, v)
           tx == SetVout(builder.tx, vout)
           c == SetTx(builder, tx)
<1>1. TakesCalls /\ \E o : Answer(o, builder) \/ Answer(o, c)
  <2>1. c = [builder EXCEPT !.tx.vout = Append(@, v)]
    <3>1. builder \in Builders
      BY SoundHas
    <3> QED BY <3>1 DEF Builders, SetTx, SetVout
  <2> HIDE DEF c
  <2> QED BY <2>1 DEF AddTransparentOutput
<1> HIDE DEF c
<1>2. vout \in Seq(VoutType)
  <2>1. v \in VoutType
    BY BuilderAssumption DEF VoutType
  <2> HIDE DEF v
  <2> QED BY <2>1, SoundHas
<1> HIDE DEF vout
<1>3. /\ tx \in Drafts /\ tx.valueBalance = builder.tx.valueBalance /\ tx.vin = builder.tx.vin
      /\ tx.version = builder.tx.version /\ tx.tzeInputs = builder.tx.tzeInputs
      /\ tx.tzeOutputs = builder.tx.tzeOutputs
  BY <1>2, SoundHas, DraftVout
<1> HIDE DEF tx
<1>4. /\ c \in Builders /\ c.calls = builder.calls /\ c.tx = tx /\ c.coins = builder.coins
      /\ c.spends = builder.spends /\ c.outputs = builder.outputs /\ c.tze = builder.tze
  BY <1>3, SoundHas, BuilderTx DEF c
<1>5. Sound(c, c.calls + 1)
  BY <1>3, <1>4, SoundHas DEF Sound
<1> QED BY <1>1, <1>4, <1>5, SoundHas, AnswerIsSound

LEMMA ChangeIsSound ==
  ASSUME BuilderIsSound, NEW to \in Keys \cup {BadAddress}, SendChangeTo(to)
  PROVE  BuilderIsSound' /\ built' = built
<1> DEFINE c == SetChange(builder, <<to>>)
<1>1. TakesCalls /\ Answer("ok", c)
  BY DEF SendChangeTo, SetChange
<1> HIDE DEF c
<1>2. /\ c \in Builders /\ c.calls = builder.calls /\ c.tx = builder.tx /\ c.coins = builder.coins
      /\ c.spends = builder.spends /\ c.outputs = builder.outputs /\ c.tze = builder.tze
  <2>1. <<to>> \in ChangeTo
    BY DEF ChangeTo
  <2> QED BY <2>1, SoundHas, BuilderChange DEF c
<1>3. Sound(c, c.calls + 1)
  BY <1>2, SoundHas, StaysSound
<1> QED BY <1>1, <1>2, <1>3, SoundHas, AnswerIsSound

LEMMA TzeInputIsSound ==
  ASSUME BuilderIsSound, builder.tx.version = ZFuture,
         NEW value \in Values, NEW mode \in {0, 1}, AddTzeInput(value, 0, mode)
  PROVE  BuilderIsSound' /\ built' = built
<1> DEFINE e == [value |-> value, mode |-> mode]
           v == [hash |-> 0, n |-> Len(builder.tze), extensionId |-> 0, mode |-> 0,
                 payload |-> << >>]
           inputs == Append(builder.tx.tzeInputs, v)
           tx == SetTzeInputs(builder.tx, inputs)
           s == Append(builder.tze, e)
           c == SetTze(builder, tx, s)
<1>1. TakesCalls /\ Answer("ok", c)
  <2>1. c = [builder EXCEPT !.tze = Append(@, e), !.tx.tzeInputs = Append(@, v)]
    <3>1. builder \in Builders
      BY SoundHas
    <3> QED BY <3>1 DEF Builders, SetTze, SetTzeInputs
  <2> HIDE DEF c
  <2> QED BY <2>1 DEF AddTzeInput
<1> HIDE DEF c
<1>2. inputs \in Seq(TzeInType)
  <2>1. v \in TzeInType
    <3>1. Len(builder.tze) \in Nat
      BY SoundHas
    <3> QED BY <3>1 DEF TzeInType
  <2> HIDE DEF v
  <2> QED BY <2>1, SoundHas
<1>3. s \in Seq(Witnesses)
  <2>1. e \in Witnesses
    BY BuilderAssumption DEF Witnesses
  <2> HIDE DEF e
  <2> QED BY <2>1, SoundHas
<1> HIDE DEF inputs, s
<1>4. /\ tx \in Drafts /\ tx.valueBalance = builder.tx.valueBalance /\ tx.vin = builder.tx.vin
      /\ tx.version = builder.tx.version
  BY <1>2, SoundHas, DraftTzeInputs
<1> HIDE DEF tx
<1>5. /\ c \in Builders /\ c.calls = builder.calls /\ c.tx = tx /\ c.coins = builder.coins
      /\ c.spends = builder.spends /\ c.outputs = builder.outputs
  BY <1>3, <1>4, SoundHas, BuilderTze DEF c
<1>6. Sound(c, c.calls + 1)
  BY <1>4, <1>5, SoundHas DEF Sound
<1> QED BY <1>1, <1>5, <1>6, SoundHas, AnswerIsSound

LEMMA TzeOutputIsSound ==
  ASSUME BuilderIsSound, builder.tx.version = ZFuture,
         NEW value \in Values, AddTzeOutput(value, 0)
  PROVE  BuilderIsSound' /\ built' = built
<1> DEFINE v == [value |-> value, extensionId |-> 0, mode |-> 0, payload |-> <<7>>]
           outs == Append(builder.tx.tzeOutputs, v)
           tx == SetTzeOutputs(builder.tx, outs)
           c == SetTx(builder, tx)
<1>1. TakesCalls /\ \E o : Answer(o, builder) \/ Answer(o, c)
  <2>1. c = [builder EXCEPT !.tx.tzeOutputs = Append(@, v)]
    <3>1. builder \in Builders
      BY SoundHas
    <3> QED BY <3>1 DEF Builders, SetTx, SetTzeOutputs
  <2> HIDE DEF c
  <2> QED BY <2>1 DEF AddTzeOutput
<1> HIDE DEF c
<1>2. outs \in Seq(TzeOutType)
  <2>1. v \in TzeOutType
    BY BuilderAssumption DEF TzeOutType
  <2> HIDE DEF v
  <2> QED BY <2>1, SoundHas
<1> HIDE DEF outs
<1>3. /\ tx \in Drafts /\ tx.valueBalance = builder.tx.valueBalance /\ tx.vin = builder.tx.vin
      /\ tx.version = builder.tx.version
  BY <1>2, SoundHas, DraftTzeOutputs
<1> HIDE DEF tx
<1>4. /\ c \in Builders /\ c.calls = builder.calls /\ c.tx = tx /\ c.coins = builder.coins
      /\ c.spends = builder.spends /\ c.outputs = builder.outputs /\ c.tze = builder.tze
  BY <1>3, SoundHas, BuilderTx DEF c
<1>5. Sound(c, c.calls + 1)
  BY <1>3, <1>4, SoundHas DEF Sound
<1> QED BY <1>1, <1>4, <1>5, SoundHas, AnswerIsSound

-----------------------------------------------------------------------------
(* The transaction build makes, step by step: with its descriptions, its      *)
(* shielded signatures, its witnesses and its transparent signatures.         *)
ProvedSpends(c, spendOrder, rcv) ==
  [i \in 1 .. Len(c.spends) |-> SpendOf(c.spends[spendOrder[i]], c.anchor, rcv[i])]
ProvedOutputs(c, outputOrder, rcv) ==
  [i \in 1 .. Len(Padded(c)) |-> OutputOf(Padded(c)[outputOrder[i]], rcv[Len(c.spends) + i])]
Witnessed(tx) == [tx EXCEPT !.tzeInputs = [i \in DOMAIN @ |-> [@[i] EXCEPT !.payload = <<7>>]]]
Final(c, p, spendOrder) == WithTransparentSignatures(c, Witnessed(Signed(c, p, spendOrder)))

DraftFields == {"version", "vin", "vout", "tzeInputs", "tzeOutputs", "lockTime", "expiryHeight",
                "valueBalance", "spends", "outputs", "joinsplits", "joinsplitPubkey",
                "joinsplitSig", "bindingSig"}
SameBut(t, tx, fields) ==
  /\ DOMAIN t = DraftFields /\ DOMAIN tx = DraftFields
  /\ \A f \in DraftFields \ fields : t[f] = tx[f]

LEMMA DraftHasFields == ASSUME NEW tx \in Drafts PROVE DOMAIN tx = DraftFields
BY DEF Drafts, DraftFields

LEMMA SameButChain ==
  ASSUME NEW t, NEW u, NEW v, NEW F, NEW G, SameBut(u, v, F), SameBut(t, u, G)
  PROVE  SameBut(t, v, F \cup G)
BY DEF SameBut

LEMMA ProvedIs ==
  ASSUME NEW c, DOMAIN c.tx = DraftFields, NEW spendOrder, NEW outputOrder, NEW rcv,
         NEW p, p = Proved(c, spendOrder, outputOrder, rcv)
  PROVE  /\ p.tx.spends = ProvedSpends(c, spendOrder, rcv)
         /\ p.tx.outputs = ProvedOutputs(c, outputOrder, rcv)
         /\ SameBut(p.tx, c.tx, {"spends", "outputs"})
<1> DEFINE S == ProvedSpends(c, spendOrder, rcv)
           O == ProvedOutputs(c, outputOrder, rcv)
           t == [c.tx EXCEPT !.spends = S, !.outputs = O]
<1>1. p.tx = t
  BY DEF Proved, ProvedSpends, ProvedOutputs
<1> HIDE DEF S, O
<1>2. t.spends = S /\ t.outputs = O /\ DOMAIN t = DraftFields
  BY DEF DraftFields
<1>3. \A f \in DraftFields \ {"spends", "outputs"} : t[f] = c.tx[f]
  OBVIOUS
<1>4. SameBut(t, c.tx, {"spends", "outputs"})
  BY <1>2, <1>3 DEF SameBut
<1> HIDE DEF t
<1> QED BY <1>1, <1>2, <1>4 DEF S, O

(* Signatures of spends.                                                      *)
ShieldedHash(tx) == SignatureHash(tx, Branch, SighashAll, ShieldedInput)
SignedSpends(c, tx, spendOrder) ==
  [i \in DOMAIN tx.spends |-> [tx.spends[i] EXCEPT
     !.spendAuthSig = <<[key |-> 300 + c.spends[spendOrder[i]].key, hash |-> ShieldedHash(tx)]>>]]

LEMMA SignedIs ==
  ASSUME NEW c, NEW p, DOMAIN p.tx = DraftFields, NEW spendOrder,
         NEW t, t = Signed(c, p, spendOrder)
  PROVE  /\ t.spends = SignedSpends(c, p.tx, spendOrder)
         /\ t.bindingSig = IF Shielded(p.tx) THEN <<[key |-> p.bsk, hash |-> ShieldedHash(p.tx)]>>
                           ELSE None
         /\ SameBut(t, p.tx, {"spends", "bindingSig"})
<1> DEFINE S == SignedSpends(c, p.tx, spendOrder)
           B == IF Shielded(p.tx) THEN <<[key |-> p.bsk, hash |-> ShieldedHash(p.tx)]>> ELSE None
           u == [p.tx EXCEPT !.spends = S, !.bindingSig = B]
<1>1. t = u
  BY DEF Signed, SignedSpends, ShieldedHash
<1> HIDE DEF S, B
<1>2. u.spends = S /\ u.bindingSig = B /\ DOMAIN u = DraftFields
  BY DEF DraftFields
<1>3. \A f \in DraftFields \ {"spends", "bindingSig"} : u[f] = p.tx[f]
  OBVIOUS
<1>4. SameBut(u, p.tx, {"spends", "bindingSig"})
  BY <1>2, <1>3 DEF SameBut
<1> HIDE DEF u
<1> QED BY <1>1, <1>2, <1>4 DEF S, B

LEMMA WitnessedIs ==
  ASSUME NEW tx, DOMAIN tx = DraftFields
  PROVE  SameBut(Witnessed(tx), tx, {"tzeInputs"})
<1> DEFINE I == [i \in DOMAIN tx.tzeInputs |-> [tx.tzeInputs[i] EXCEPT !.payload = <<7>>]]
           t == [tx EXCEPT !.tzeInputs = I]
<1>1. Witnessed(tx) = t
  BY DEF Witnessed
<1> HIDE DEF I
<1>2. DOMAIN t = DraftFields
  OBVIOUS
<1>3. \A f \in DraftFields \ {"tzeInputs"} : t[f] = tx[f]
  OBVIOUS
<1> QED BY <1>1, <1>2, <1>3 DEF SameBut

(* Signatures of transparent inputs.                                          *)
CoinHash(tx, i, coin) ==
  SignatureHash(tx, Branch, SighashAll, TransparentInput(i, coin.owner, coin.value))
SignedVin(c, tx) ==
  [i \in DOMAIN tx.vin |-> [tx.vin[i] EXCEPT
     !.scriptSig = <<[key |-> c.coins[i].key, hash |-> CoinHash(tx, i, c.coins[i].coin)]>>]]

LEMMA TransparentIs ==
  ASSUME NEW c, NEW tx, DOMAIN tx = DraftFields, NEW t, t = WithTransparentSignatures(c, tx)
  PROVE  t.vin = SignedVin(c, tx) /\ SameBut(t, tx, {"vin"})
<1> DEFINE V == SignedVin(c, tx)
           u == [tx EXCEPT !.vin = V]
<1>1. t = u
  BY DEF WithTransparentSignatures, SignedVin, CoinHash
<1> HIDE DEF V
<1>2. u.vin = V /\ DOMAIN u = DraftFields
  BY DEF DraftFields
<1>3. \A f \in DraftFields \ {"vin"} : u[f] = tx[f]
  OBVIOUS
<1>4. SameBut(u, tx, {"vin"})
  BY <1>2, <1>3 DEF SameBut
<1> HIDE DEF u
<1> QED BY <1>1, <1>2, <1>4 DEF V

(* What the final transaction consists of.                                    *)
LEMMA FinalIs ==
  ASSUME NEW c, DOMAIN c.tx = DraftFields, NEW spendOrder, NEW outputOrder, NEW rcv,
         NEW p, p = Proved(c, spendOrder, outputOrder, rcv),
         NEW final, final = Final(c, p, spendOrder)
  PROVE  \E signed, witnessed :
           /\ p.tx.spends = ProvedSpends(c, spendOrder, rcv)
           /\ p.tx.outputs = ProvedOutputs(c, outputOrder, rcv)
           /\ signed.bindingSig =
                IF Shielded(p.tx) THEN <<[key |-> p.bsk, hash |-> ShieldedHash(p.tx)]>> ELSE None
           /\ signed.spends = SignedSpends(c, p.tx, spendOrder)
           /\ SameBut(p.tx, c.tx, {"spends", "outputs"})
           /\ SameBut(signed, p.tx, {"spends", "bindingSig"})
           /\ SameBut(witnessed, signed, {"tzeInputs"})
           /\ SameBut(final, witnessed, {"vin"})
           /\ final.vin = SignedVin(c, witnessed)
<1> DEFINE signed == Signed(c, p, spendOrder)
           witnessed == Witnessed(signed)
<1>1. /\ p.tx.spends = ProvedSpends(c, spendOrder, rcv)
      /\ p.tx.outputs = ProvedOutputs(c, outputOrder, rcv)
      /\ SameBut(p.tx, c.tx, {"spends", "outputs"})
  BY ProvedIs
<1>2. /\ signed.spends = SignedSpends(c, p.tx, spendOrder)
      /\ signed.bindingSig =
           IF Shielded(p.tx) THEN <<[key |-> p.bsk, hash |-> ShieldedHash(p.tx)]>> ELSE None
      /\ SameBut(signed, p.tx, {"spends", "bindingSig"})
  <2>1. DOMAIN p.tx = DraftFields
    BY <1>1 DEF SameBut
  <2> QED BY <2>1, SignedIs
<1> HIDE DEF signed
<1>3. SameBut(witnessed, signed, {"tzeInputs"})
  BY <1>2, WitnessedIs DEF SameBut
<1>4. final = WithTransparentSignatures(c, witnessed)
  BY DEF Final, signed
<1> HIDE DEF witnessed
<1>5. final.vin = SignedVin(c, witnessed) /\ SameBut(final, witnessed, {"vin"})
  BY <1>3, <1>4, TransparentIs DEF SameBut
<1> QED BY <1>1, <1>2, <1>3, <1>5

-----------------------------------------------------------------------------
(* The change.                                                                *)
LEMMA CoinValuesIs ==
  ASSUME NEW s \in Seq(CoinSpends)
  PROVE  CoinValues(s) \in Seq(Int) /\ Total(CoinValues(s)) \in Int
<1>1. Len(s) \in Nat /\ DOMAIN s = 1 .. Len(s) /\ \A i \in 1 .. Len(s) : s[i] \in CoinSpends
  OBVIOUS
<1>2. CoinValues(s) = [i \in 1 .. Len(s) |-> s[i].coin.value]
  BY <1>1 DEF CoinValues
<1>3. /\ \A i \in 1 .. Len(s) : CoinValues(s)[i] = s[i].coin.value
      /\ CoinValues(s) = [i \in 1 .. Len(s) |-> CoinValues(s)[i]]
  BY <1>2
<1>4. \A i \in 1 .. Len(s) : s[i].coin.value \in Int
  BY <1>1, BuilderAssumption DEF CoinSpends
<1>5. CoinValues(s) \in Seq(Int)
  BY <1>1, <1>3, <1>4, ListIs
<1> QED BY <1>5, TotalOf

(* Change is a number: the balance less the fee, and what coins leave.        *)
LEMMA ChangeIs ==
  ASSUME BuilderIsSound
  PROVE  /\ Change(builder) \in Int /\ Total(CoinValues(builder.coins)) \in Int
         /\ Total(ValuesOf(builder.tx.vout)) \in Int
         /\ builder.tx.version # ZFuture =>
              Change(builder) = builder.tx.valueBalance - Fee + Total(CoinValues(builder.coins))
                                - Total(ValuesOf(builder.tx.vout))
<1> DEFINE coins == Total(CoinValues(builder.coins))
           vout == Total(ValuesOf(builder.tx.vout))
           tze == Total(ValuesOf(builder.tze))
           tzeOutputs == Total(ValuesOf(builder.tx.tzeOutputs))
           balance == builder.tx.valueBalance
<1>1. coins \in Int
  BY SoundHas, CoinValuesIs
<1>2. vout \in Int
  BY SoundHas, ValuesIs, TotalOf DEF VoutType
<1>3. tze \in Int
  BY SoundHas, ValuesIs, TotalOf DEF Witnesses
<1>4. tzeOutputs \in Int
  BY SoundHas, ValuesIs, TotalOf DEF TzeOutType
<1>5. Fee \in Int /\ balance \in Int
  BY SoundHas, BuilderAssumption
<1>6. Change(builder) = balance + Total(<<-Fee, coins, -vout, tze, -tzeOutputs>>)
  BY DEF Change, ChangeTerms
<1>7. ASSUME builder.tx.version # ZFuture
      PROVE  tze = 0 /\ tzeOutputs = 0
  <2>1. << >> \in Seq(Int) /\ Len(<< >>) = 0 /\ ValuesOf(<< >>) = << >>
    BY DEF ValuesOf
  <2>2. builder.tze = << >> /\ builder.tx.tzeOutputs = << >>
    BY <1>7, SoundHas DEF Sound
  <2> QED BY <2>1, <2>2, TotalOf
<1> HIDE DEF coins, vout, tze, tzeOutputs, balance
<1>8. Total(<<-Fee, coins, -vout, tze, -tzeOutputs>>) = -Fee + coins + (-vout) + tze + (-tzeOutputs)
  <2> DEFINE a == -Fee
             b == -vout
             d == -tzeOutputs
  <2>1. a \in Int /\ coins \in Int /\ b \in Int /\ tze \in Int /\ d \in Int
    BY <1>1, <1>2, <1>3, <1>4, <1>5
  <2> HIDE DEF a, b, d
  <2>2. Total(<<a, coins, b, tze, d>>) = a + coins + b + tze + d
    BY <2>1, TotalOfFive
  <2> QED BY <2>2 DEF a, b, d
<1>9. Change(builder) = balance - Fee + coins - vout + tze - tzeOutputs
  BY <1>1, <1>2, <1>3, <1>4, <1>5, <1>6, <1>8
<1>10. Change(builder) \in Int
  BY <1>1, <1>2, <1>3, <1>4, <1>5, <1>9
<1>11. builder.tx.version # ZFuture => Change(builder) = balance - Fee + coins - vout
  BY <1>1, <1>2, <1>5, <1>7, <1>9
<1> QED BY <1>1, <1>2, <1>10, <1>11 DEF coins, vout, balance

(* A build that goes on has met no error.                                     *)
LEMMA NoError ==
  ASSUME NEW b, NEW c, BuildError(b, c) = "ok", Change(b) \in Int
  PROVE  /\ Change(b) >= 0 /\ (Change(b) # 0 => ChangeAddress(b) # None)
         /\ \A i \in DOMAIN b.spends : SpendProves(b.spends[i], b.anchor)
<1>1. ~(Change(b) < 0)
  BY DEF BuildError
<1>2. ~(Change(b) > 0 /\ ChangeAddress(b) = None)
  BY DEF BuildError
<1>3. \A i \in DOMAIN b.spends : SpendProves(b.spends[i], b.anchor)
  BY DEF BuildError
<1> QED BY <1>1, <1>2, <1>3

LEMMA NoBuiltError ==
  ASSUME NEW b, NEW c
  PROVE  BuildError(b, c) # "built"
BY DEF BuildError, OutputError

(* What is paid: the calls, with the change.                                  *)
LEMMA PaidIs ==
  ASSUME BuilderIsSound, NEW c, c = WithChange(builder),
         BuildError(builder, c) = "ok"
  PROVE  /\ c \in Builders /\ c.spends = builder.spends /\ c.coins = builder.coins
         /\ c.anchor = builder.anchor /\ c.tx.vin = builder.tx.vin /\ c.tx.vout = builder.tx.vout
         /\ c.tx.version = builder.tx.version
         /\ Len(c.outputs) <= Len(builder.outputs) + 1
         /\ Total(ValuesOf(c.outputs)) = Total(ValuesOf(builder.outputs)) + Change(builder)
         /\ c.tx.valueBalance = builder.tx.valueBalance - Change(builder)
<1>1. /\ Change(builder) \in Int /\ Change(builder) >= 0
      /\ Change(builder) # 0 => ChangeAddress(builder) # None
  BY ChangeIs, NoError
<1>2. CASE Change(builder) = 0
  <2>1. c = builder
    BY <1>2 DEF WithChange
  <2>2. Len(builder.outputs) \in Nat
    BY SoundHas
  <2> QED BY <1>2, <2>1, <2>2, SoundHas
<1>3. CASE Change(builder) # 0
  <2> DEFINE e == [to |-> ChangeAddress(builder)[1], value |-> Change(builder)]
             balance == builder.tx.valueBalance - Change(builder)
             t == SetValueBalance(builder.tx, balance)
             s == Append(builder.outputs, e)
  <2>1. c = SetOutputs(builder, t, s)
    <3>1. builder \in Builders
      BY SoundHas
    <3>2. c = [builder EXCEPT !.tx.valueBalance = @ - Change(builder), !.outputs = Append(@, e)]
      BY <1>3 DEF WithChange
    <3> HIDE DEF e
    <3> QED BY <3>1, <3>2 DEF Builders, SetOutputs, SetValueBalance
  <2>2. ChangeAddress(builder)[1] \in Recipients
    <3>1. CASE builder.change # None
      <4>1. builder.change \in ChangeTo
        BY SoundHas DEF Builders
      <4>2. PICK to \in Keys \cup {BadAddress} : builder.change = <<to>>
        BY <3>1, <4>1 DEF ChangeTo
      <4> QED BY <3>1, <4>2 DEF ChangeAddress, Recipients
    <3>2. CASE builder.change = None
      <4>1. builder.spends # << >> /\ ChangeAddress(builder)[1] = builder.spends[1].note.owner
        BY <1>1, <1>3, <3>2 DEF ChangeAddress
      <4>2. builder.spends[1] \in Spends
        BY <4>1, SoundHas
      <4> QED BY <4>1, <4>2 DEF Spends, Recipients
    <3> QED BY <3>1, <3>2
  <2>3. e \in Payments /\ e.value = Change(builder)
    BY <1>1, <2>2 DEF Payments
  <2>4. balance \in Int
    BY <1>1, SoundHas
  <2> HIDE DEF e, balance
  <2>5. /\ t \in Drafts /\ t.vin = builder.tx.vin /\ t.vout = builder.tx.vout
        /\ t.version = builder.tx.version /\ t.valueBalance = balance
    BY <2>4, SoundHas, DraftBalance
  <2>6. s \in Seq(Payments) /\ Len(s) = Len(builder.outputs) + 1 /\ Len(builder.outputs) \in Nat
    BY <2>3, SoundHas
  <2>7. Total(ValuesOf(s)) = Total(ValuesOf(builder.outputs)) + Change(builder)
    BY <2>3, SoundHas, PaymentsAdd
  <2> HIDE DEF t, s
  <2>8. /\ c \in Builders /\ c.tx = t /\ c.outputs = s /\ c.spends = builder.spends
        /\ c.coins = builder.coins /\ c.anchor = builder.anchor
    BY <2>1, <2>5, <2>6, SoundHas, BuilderOutputs
  <2> QED BY <2>5, <2>6, <2>7, <2>8 DEF balance
<1> QED BY <1>2, <1>3

(* The outputs with the dummies.                                              *)
Outputs == Payments \cup {Dummy}

(* The padding adds zeros, and only after the outputs that were asked for.    *)
LEMMA PaddedIs ==
  ASSUME NEW c \in Builders
  PROVE  /\ Padded(c) \in Seq(Outputs) /\ Len(Padded(c)) >= Len(c.outputs)
         /\ \A i \in 1 .. Len(c.outputs) : Padded(c)[i] = c.outputs[i]
         /\ Total(ValuesOf(Padded(c))) = Total(ValuesOf(c.outputs))
         /\ c.spends # << >> => Len(Padded(c)) >= 2
         /\ Len(Padded(c)) > Len(c.outputs) => c.spends # << >> /\ Len(Padded(c)) = 2
<1>1. c.outputs \in Seq(Payments) /\ Len(c.outputs) \in Nat
  BY DEF Builders
<1>2. \A e \in Outputs : e.value \in Int
  BY DEF Outputs, Payments, Dummy
<1>3. CASE c.spends = << >> \/ Len(c.outputs) >= 2
  <2>1. Padded(c) = c.outputs
    BY <1>3 DEF Padded, MIN_SHIELDED_OUTPUTS
  <2>2. c.outputs \in Seq(Outputs)
    BY <1>1 DEF Outputs
  <2> QED BY <1>1, <1>3, <2>1, <2>2
<1>4. CASE ~(c.spends = << >> \/ Len(c.outputs) >= 2)
  <2> DEFINE n == Len(c.outputs)
             d == [i \in 1 .. 2 - n |-> Dummy]
             s == c.outputs
  <2>1. Padded(c) = s \o d
    BY <1>4 DEF Padded, MIN_SHIELDED_OUTPUTS
  <2>2. n \in 0 .. 1
    <3>1. n \in Nat /\ ~(n >= 2)
      BY <1>1, <1>4
    <3> HIDE DEF n
    <3> QED BY <3>1
  <2>3. d \in Seq(Outputs) /\ Len(d) = 2 - n /\ \A i \in 1 .. 2 - n : d[i] = Dummy
    <3> HIDE DEF n
    <3> DEFINE k == 2 - n
    <3>1. k \in Nat
      BY <2>2
    <3>2. Dummy \in Outputs
      BY DEF Outputs
    <3> HIDE DEF k
    <3>3. \A i \in 1 .. k : [j \in 1 .. k |-> Dummy][i] = Dummy
      OBVIOUS
    <3>4. [j \in 1 .. k |-> Dummy] \in Seq(Outputs) /\ Len([j \in 1 .. k |-> Dummy]) = k
      BY <3>1, <3>2
    <3> QED BY <3>3, <3>4 DEF k
  <2>4. s \in Seq(Outputs) /\ Len(s) = n /\ s \in Seq(Payments)
    BY <1>1 DEF Outputs
  <2> HIDE DEF d, s, n
  <2> DEFINE t == s \o d
  <2>5. /\ t \in Seq(Outputs) /\ Len(t) = 2
        /\ \A i \in 1 .. 2 : t[i] = IF i <= n THEN s[i] ELSE Dummy
    BY <2>2, <2>3, <2>4
  <2> HIDE DEF t
  <2>6. Total(ValuesOf(t)) = Total(ValuesOf(s))
    <3>1. /\ ValuesOf(s) \in Seq(Int) /\ Len(ValuesOf(s)) = n
          /\ \A i \in 1 .. n : ValuesOf(s)[i] = s[i].value
      BY <1>2, <2>4, ValuesIs
    <3>2. /\ ValuesOf(t) \in Seq(Int) /\ Len(ValuesOf(t)) = 2
          /\ \A i \in 1 .. 2 : ValuesOf(t)[i] = t[i].value
      BY <1>2, <2>5, ValuesIs
    <3>3. \A i \in 1 .. Len(ValuesOf(t)) :
            ValuesOf(t)[i] = IF i <= Len(ValuesOf(s)) THEN ValuesOf(s)[i] ELSE 0
      BY <2>2, <2>5, <3>1, <3>2 DEF Dummy
    <3>4. Len(ValuesOf(s)) <= Len(ValuesOf(t))
      BY <2>2, <3>1, <3>2
    <3> QED BY <3>1, <3>2, <3>3, <3>4, TotalOfPadded
  <2>7. \A i \in 1 .. n : t[i] = s[i]
    BY <2>2, <2>5
  <2> QED BY <1>4, <2>1, <2>2, <2>4, <2>5, <2>6, <2>7 DEF t, s, n
<1> QED BY <1>3, <1>4

-----------------------------------------------------------------------------
(* What a build does that meets no error, up to the proofs.                   *)
IsProved(c, spendOrder, outputOrder, rcv, p) ==
  /\ c = WithChange(builder) /\ BuildError(builder, c) = "ok"
  /\ spendOrder \in Orders(Len(c.spends)) /\ outputOrder \in Orders(Len(Padded(c)))
  /\ rcv \in Randomness /\ p = Proved(c, spendOrder, outputOrder, rcv)

(* The shuffles are permutations, and there is randomness for every           *)
(* description, below the generator.                                          *)
Drawn(c, spendOrder, outputOrder, rcv) ==
  LET m == Len(c.spends)
      n == Len(Padded(c))
  IN  /\ m \in Nat /\ n \in Nat
      /\ Arranges(spendOrder, m) /\ Arranges(outputOrder, n)
      /\ \A i \in 1 .. m : rcv[i] \in 0 .. ValueGenerator - 1
      /\ \A i \in 1 .. n : rcv[m + i] \in 0 .. ValueGenerator - 1

LEMMA RandomnessSuffices ==
  ASSUME BuilderIsSound, NEW c, NEW spendOrder, NEW outputOrder, NEW rcv, NEW p,
         IsProved(c, spendOrder, outputOrder, rcv, p)
  PROVE  Drawn(c, spendOrder, outputOrder, rcv)
<1> DEFINE m == Len(c.spends)
           n == Len(Padded(c))
<1>1. /\ c \in Builders /\ c.spends = builder.spends
      /\ Len(c.outputs) <= Len(builder.outputs) + 1
  BY PaidIs DEF IsProved
<1>2. /\ Padded(c) \in Seq(Outputs)
      /\ n > Len(c.outputs) => c.spends # << >> /\ n = 2
      /\ n >= Len(c.outputs)
  BY <1>1, PaddedIs
<1>3. /\ m \in Nat /\ n \in Nat /\ Len(c.outputs) \in Nat /\ Len(builder.outputs) \in Nat
      /\ c.spends # << >> => m >= 1
  BY <1>1, <1>2, SoundHas DEF Builders
<1>4. Arranges(spendOrder, m) /\ Arranges(outputOrder, n)
  BY <1>3, OrderArranges DEF IsProved
<1>5. m + n <= MaxCalls + 2
  <2>1. m + Len(builder.outputs) <= MaxCalls
    <3>1. m + Len(builder.outputs) <= builder.calls
      BY <1>1, SoundHas DEF Sound
    <3>2. builder.calls \in 0 .. MaxCalls /\ MaxCalls \in Nat
      BY SoundHas, BuilderAssumption DEF Builders
    <3> DEFINE k == m + Len(builder.outputs)
    <3>3. k \in Nat
      <4> DEFINE j == Len(builder.outputs)
      <4>1. m \in Nat /\ j \in Nat
        BY <1>3
      <4> HIDE DEF m, j
      <4>2. m + j \in Nat
        BY <4>1
      <4> QED BY <4>2 DEF j
    <3> HIDE DEF k
    <3>4. k <= builder.calls => k <= MaxCalls
      BY <3>2, <3>3
    <3> QED BY <3>1, <3>4 DEF k
  <2>2. MaxCalls \in Nat
    BY BuilderAssumption
  <2> DEFINE i == Len(builder.outputs)
             j == Len(c.outputs)
  <2>3. m + i <= MaxCalls /\ j <= i + 1 /\ i \in Nat /\ j \in Nat /\ m \in Nat /\ n \in Nat
    BY <1>1, <1>3, <2>1
  <2>4. (n > j => m >= 1 /\ n = 2) /\ n >= j
    BY <1>2, <1>3
  <2> HIDE DEF i, j, m, n
  <2> QED BY <2>2, <2>3, <2>4
<1>6. rcv \in Seq(0 .. (ValueGenerator - 1)) /\ Len(rcv) >= MaxCalls + 2 /\ MaxCalls \in Nat
  BY BuilderAssumption DEF IsProved
<1> HIDE DEF m, n
<1>7. ASSUME NEW i \in 1 .. m
      PROVE  rcv[i] \in 0 .. ValueGenerator - 1
  <2>1. i \in 1 .. Len(rcv)
    BY <1>3, <1>5, <1>6
  <2> DEFINE R == 0 .. (ValueGenerator - 1)
  <2>2. rcv \in Seq(R)
    BY <1>6
  <2> HIDE DEF R
  <2>3. rcv[i] \in R
    BY <2>1, <2>2
  <2> QED BY <2>3 DEF R
<1>8. ASSUME NEW i \in 1 .. n
      PROVE  rcv[m + i] \in 0 .. ValueGenerator - 1
  <2>1. m + i \in 1 .. Len(rcv)
    BY <1>3, <1>5, <1>6
  <2> DEFINE R == 0 .. (ValueGenerator - 1)
  <2>2. rcv \in Seq(R)
    BY <1>6
  <2> HIDE DEF R
  <2>3. rcv[m + i] \in R
    BY <2>1, <2>2
  <2> QED BY <2>3 DEF R
<1> QED BY <1>3, <1>4, <1>7, <1>8 DEF m, n, Drawn

LEMMA OutputHas ==
  ASSUME NEW o, NEW r
  PROVE  /\ OutputOf(o, r).cv = ValueCommitmentOf(o.value, r) /\ OutputOf(o, r).encNote = o.to
         /\ OutputAccepted(OutputOf(o, r))
BY DEF OutputOf, OutputAccepted

(* The commitments of the spends, and those of the outputs, sum up to their   *)
(* values and their randomness.                                               *)
SpendKeys(c, rcv) == [i \in 1 .. Len(c.spends) |-> rcv[i]]
OutputKeys(c, rcv) == [i \in 1 .. Len(Padded(c)) |-> rcv[Len(c.spends) + i]]

LEMMA SpendCommitments ==
  ASSUME BuilderIsSound, NEW c, NEW spendOrder, NEW outputOrder, NEW rcv, NEW p,
         IsProved(c, spendOrder, outputOrder, rcv, p)
  PROVE  /\ Total(Cvs(ProvedSpends(c, spendOrder, rcv)))
              = Total(NoteValues(c.spends)) * ValueGenerator + Total(SpendKeys(c, rcv))
         /\ Total(SpendKeys(c, rcv)) \in Int
<1> DEFINE m == Len(c.spends)
           s == NoteValues(c.spends)
           v == Shuffled(s, spendOrder)
           r == SpendKeys(c, rcv)
           t == Cvs(ProvedSpends(c, spendOrder, rcv))
<1>1. /\ m \in Nat /\ Arranges(spendOrder, m) /\ ValueGenerator \in Nat
      /\ \A i \in 1 .. m : rcv[i] \in 0 .. ValueGenerator - 1
  BY RandomnessSuffices, BuilderAssumption DEF Drawn
<1>2. /\ s \in Seq(Int) /\ Len(s) = m /\ \A i \in 1 .. m : s[i] = c.spends[i].note.value
  <2>1. c.spends \in Seq(Spends)
    BY PaidIs DEF IsProved, Builders
  <2> QED BY <2>1, NoteValuesIs
<1>3. spendOrder \in Orders(m)
  BY DEF IsProved
<1>4. r = [i \in 1 .. m |-> rcv[i]]
  BY DEF SpendKeys
<1>5. t = [i \in 1 .. m |-> SpendOf(c.spends[spendOrder[i]], c.anchor, rcv[i]).cv]
  BY DEF Cvs, ProvedSpends
<1> HIDE DEF m, s, r, t
<1>6. v \in Seq(Int) /\ Len(v) = m /\ \A i \in 1 .. m : v[i] = s[spendOrder[i]] /\ v[i] \in Int
  <2>1. Arranges(spendOrder, Len(s)) /\ s \in Seq(Int) /\ Len(s) = m
    BY <1>1, <1>2
  <2>2. v \in Seq(Int) /\ Len(v) = Len(s) /\ \A i \in 1 .. Len(s) : v[i] = s[spendOrder[i]]
    BY <2>1, ShuffledIs
  <2> HIDE DEF v
  <2>3. v \in Seq(Int) /\ Len(v) = m /\ \A i \in 1 .. m : v[i] = s[spendOrder[i]]
    BY <2>1, <2>2
  <2> QED BY <2>3
<1> HIDE DEF v
<1>7. r \in Seq(Int) /\ Len(r) = m /\ \A i \in 1 .. m : r[i] = rcv[i] /\ r[i] \in Int
  <2>1. \A i \in 1 .. m : rcv[i] \in Int
    BY <1>1
  <2> QED BY <1>1, <1>4, <2>1, ListIs
<1>8. ASSUME NEW i \in 1 .. m
      PROVE  t[i] = v[i] * ValueGenerator + r[i]
  <2>1. spendOrder[i] \in 1 .. m
    BY <1>1 DEF Arranges
  <2>2. t[i] = ValueCommitmentOf(c.spends[spendOrder[i]].note.value, rcv[i])
    BY <1>5 DEF SpendOf
  <2>3. c.spends[spendOrder[i]].note.value = v[i]
    BY <1>2, <1>6, <2>1
  <2> QED BY <1>7, <2>2, <2>3 DEF ValueCommitmentOf
<1>9. t \in Seq(Int) /\ Len(t) = m
  <2>1. \A i \in 1 .. m : t[i] \in Int
    BY <1>1, <1>6, <1>7, <1>8
  <2> QED BY <1>1, <1>5, <2>1, ListIs
<1>10. CommitTo(ValueGenerator, v, r, t)
  BY <1>6, <1>7, <1>8, <1>9 DEF CommitTo
<1>11. Total(t) = Total(v) * ValueGenerator + Total(r)
  BY <1>1, <1>10, TotalOfCommitments
<1>12. Total(v) = Total(s) /\ Total(r) \in Int
  BY <1>2, <1>3, <1>7, TotalShuffled, TotalOf DEF v
<1> QED BY <1>11, <1>12 DEF t, s, r

LEMMA OutputCommitments ==
  ASSUME BuilderIsSound, NEW c, NEW spendOrder, NEW outputOrder, NEW rcv, NEW p,
         IsProved(c, spendOrder, outputOrder, rcv, p)
  PROVE  /\ Total(Cvs(ProvedOutputs(c, outputOrder, rcv)))
              = Total(ValuesOf(c.outputs)) * ValueGenerator + Total(OutputKeys(c, rcv))
         /\ Total(OutputKeys(c, rcv)) \in Int
<1> DEFINE m == Len(c.spends)
           n == Len(Padded(c))
           s == ValuesOf(Padded(c))
           v == Shuffled(s, outputOrder)
           r == OutputKeys(c, rcv)
           t == Cvs(ProvedOutputs(c, outputOrder, rcv))
<1>1. /\ n \in Nat /\ Arranges(outputOrder, n) /\ ValueGenerator \in Nat
      /\ \A i \in 1 .. n : rcv[m + i] \in 0 .. ValueGenerator - 1
  BY RandomnessSuffices, BuilderAssumption DEF Drawn
<1>2. c \in Builders
  BY PaidIs DEF IsProved
<1>3. Padded(c) \in Seq(Outputs) /\ Total(s) = Total(ValuesOf(c.outputs))
  BY <1>2, PaddedIs
<1>4. /\ s \in Seq(Int) /\ Len(s) = n /\ \A i \in 1 .. n : s[i] = Padded(c)[i].value
  <2>1. \A e \in Outputs : e.value \in Int
    BY DEF Outputs, Payments, Dummy
  <2> QED BY <1>3, <2>1, ValuesIs
<1>5. outputOrder \in Orders(n)
  BY DEF IsProved
<1>6. r = [i \in 1 .. n |-> rcv[m + i]]
  BY DEF OutputKeys
<1>7. t = [i \in 1 .. n |-> OutputOf(Padded(c)[outputOrder[i]], rcv[m + i]).cv]
  BY DEF Cvs, ProvedOutputs
<1> HIDE DEF m, n, s, r, t
<1>8. v \in Seq(Int) /\ Len(v) = n /\ \A i \in 1 .. n : v[i] = s[outputOrder[i]] /\ v[i] \in Int
  <2>1. Arranges(outputOrder, Len(s)) /\ s \in Seq(Int) /\ Len(s) = n
    BY <1>1, <1>4
  <2>2. v \in Seq(Int) /\ Len(v) = Len(s) /\ \A i \in 1 .. Len(s) : v[i] = s[outputOrder[i]]
    BY <2>1, ShuffledIs
  <2> HIDE DEF v
  <2>3. v \in Seq(Int) /\ Len(v) = n /\ \A i \in 1 .. n : v[i] = s[outputOrder[i]]
    BY <2>1, <2>2
  <2> QED BY <2>3
<1> HIDE DEF v
<1>9. r \in Seq(Int) /\ Len(r) = n /\ \A i \in 1 .. n : r[i] = rcv[m + i] /\ r[i] \in Int
  <2>1. \A i \in 1 .. n : rcv[m + i] \in Int
    BY <1>1
  <2> QED BY <1>1, <1>6, <2>1, ListIs
<1>10. ASSUME NEW i \in 1 .. n
       PROVE  t[i] = v[i] * ValueGenerator + r[i]
  <2>1. outputOrder[i] \in 1 .. n
    BY <1>1 DEF Arranges
  <2>2. t[i] = ValueCommitmentOf(Padded(c)[outputOrder[i]].value, rcv[m + i])
    BY <1>7, OutputHas
  <2>3. Padded(c)[outputOrder[i]].value = v[i]
    BY <1>4, <1>8, <2>1
  <2> QED BY <1>9, <2>2, <2>3 DEF ValueCommitmentOf
<1>11. t \in Seq(Int) /\ Len(t) = n
  <2>1. \A i \in 1 .. n : t[i] \in Int
    BY <1>1, <1>8, <1>9, <1>10
  <2> QED BY <1>1, <1>7, <2>1, ListIs
<1>12. CommitTo(ValueGenerator, v, r, t)
  BY <1>8, <1>9, <1>10, <1>11 DEF CommitTo
<1>13. Total(t) = Total(v) * ValueGenerator + Total(r)
  BY <1>1, <1>12, TotalOfCommitments
<1>14. Total(v) = Total(s) /\ Total(r) \in Int
  BY <1>4, <1>5, <1>9, TotalShuffled, TotalOf DEF v
<1> QED BY <1>3, <1>13, <1>14 DEF t, r

(* The keys the prover sums up are the key that the commitments and the       *)
(* value balance leave: it never refuses to sign.                             *)
LEMMA BindingKeyIs ==
  ASSUME BuilderIsSound, NEW c, NEW spendOrder, NEW outputOrder, NEW rcv, NEW p,
         IsProved(c, spendOrder, outputOrder, rcv, p)
  PROVE  p.bsk = Bvk(p.tx)
<1> DEFINE notes == Total(NoteValues(c.spends))
           outs == Total(ValuesOf(builder.outputs))
           paid == Total(ValuesOf(c.outputs))
           balance == c.tx.valueBalance
           R == Total(SpendKeys(c, rcv))
           S == Total(OutputKeys(c, rcv))
           G == ValueGenerator
<1>1. /\ c \in Builders /\ c.spends = builder.spends
      /\ paid = outs + Change(builder)
      /\ balance = builder.tx.valueBalance - Change(builder)
      /\ Change(builder) \in Int
  BY PaidIs, ChangeIs DEF IsProved
<1>2. builder.tx.valueBalance = notes - outs /\ notes \in Int /\ outs \in Int
  BY <1>1, SoundHas DEF Sound
<1>3. DOMAIN c.tx = DraftFields
  BY <1>1, DraftHasFields DEF Builders
<1>4. /\ p.tx.spends = ProvedSpends(c, spendOrder, rcv)
      /\ p.tx.outputs = ProvedOutputs(c, outputOrder, rcv)
      /\ p.tx.valueBalance = balance
  <2>1. /\ p.tx.spends = ProvedSpends(c, spendOrder, rcv)
        /\ p.tx.outputs = ProvedOutputs(c, outputOrder, rcv)
        /\ SameBut(p.tx, c.tx, {"spends", "outputs"})
    BY <1>3, ProvedIs DEF IsProved
  <2>2. "valueBalance" \in DraftFields \ {"spends", "outputs"}
    BY DEF DraftFields
  <2> QED BY <2>1, <2>2 DEF SameBut
<1>5. p.bsk = R - S
  BY DEF IsProved, Proved, SpendKeys, OutputKeys
<1>6. /\ Total(Cvs(p.tx.spends)) = notes * G + R /\ R \in Int
      /\ Total(Cvs(p.tx.outputs)) = paid * G + S /\ S \in Int
  BY <1>4, SpendCommitments, OutputCommitments
<1>7. Bvk(p.tx) = ((notes * G + R) - (paid * G + S)) - (balance * G + 0)
  BY <1>4, <1>6 DEF Bvk, CvSum, ValueCommitmentOf
<1>8. G \in Int
  BY BuilderAssumption
<1> DEFINE change == Change(builder)
<1> HIDE DEF notes, outs, paid, balance, R, S, G, change
<1>9. paid \in Int /\ balance \in Int /\ notes = paid + balance
  <2>1. paid = outs + change /\ balance = (notes - outs) - change /\ change \in Int
    BY <1>1, <1>2 DEF change
  <2> QED BY <1>2, <2>1
<1>10. notes * G = paid * G + balance * G
  BY <1>8, <1>9
<1>11. /\ notes * G \in Int /\ paid * G \in Int /\ balance * G \in Int
  BY <1>2, <1>8, <1>9
<1> DEFINE a == notes * G
           b == paid * G
           d == balance * G
<1>12. a = b + d /\ a \in Int /\ b \in Int /\ d \in Int /\ Bvk(p.tx) = ((a + R) - (b + S)) - (d + 0)
  BY <1>7, <1>10, <1>11
<1> HIDE DEF a, b, d
<1>13. Bvk(p.tx) = R - S
  BY <1>6, <1>12
<1> QED BY <1>5, <1>13

(* What a build that ends well has done.                                      *)
IsBuilt(final, c, spendOrder, outputOrder, rcv, p) ==
  /\ IsProved(c, spendOrder, outputOrder, rcv, p)
  /\ final = Final(c, p, spendOrder) /\ ~CannotFreeze(final)

(* A step of Build that ends with "built" is of that kind.                    *)
LEMMA BuildIsBuilt ==
  ASSUME BuildTransaction, outcome' = "built"
  PROVE  \E final, c, spendOrder, outputOrder, rcv, p :
           /\ IsBuilt(final, c, spendOrder, outputOrder, rcv, p)
           /\ built' = <<[tx |-> final, paid |-> c,
                          metadata |-> Metadata(c, spendOrder, outputOrder)]>>
<1> DEFINE c == WithChange(builder)
<1>1. BuildError(builder, c) # "built"
  BY NoBuiltError
<1>2. BuildError(builder, c) = "ok"
  BY <1>1 DEF BuildTransaction
<1>3. PICK spendOrder \in Orders(Len(c.spends)), outputOrder \in Orders(Len(Padded(c))),
           rcv \in Randomness :
        LET p == Proved(c, spendOrder, outputOrder, rcv)
            final == Final(c, p, spendOrder)
        IN  /\ ~CannotFreeze(final)
            /\ built' = <<[tx |-> final, paid |-> c,
                           metadata |-> Metadata(c, spendOrder, outputOrder)]>>
  BY <1>2 DEF BuildTransaction, Final, Witnessed
<1> QED BY <1>2, <1>3 DEF IsBuilt, IsProved

(* The fields of the transaction it makes.                                    *)
HasFields(final, c, spendOrder, outputOrder, rcv, p) ==
  /\ p.tx.spends = ProvedSpends(c, spendOrder, rcv)
  /\ p.tx.outputs = ProvedOutputs(c, outputOrder, rcv)
  /\ final.spends = SignedSpends(c, p.tx, spendOrder)
  /\ final.outputs = ProvedOutputs(c, outputOrder, rcv)
  /\ final.bindingSig =
       IF Shielded(p.tx) THEN <<[key |-> p.bsk, hash |-> ShieldedHash(p.tx)]>> ELSE None
  /\ SameBut(final, p.tx, {"spends", "bindingSig", "tzeInputs", "vin"})
  /\ SameBut(p.tx, c.tx, {"spends", "outputs"})
  /\ \E witnessed : /\ final.vin = SignedVin(c, witnessed)
                    /\ SameBut(final, witnessed, {"vin"})
                    /\ witnessed.vin = c.tx.vin
  /\ c.tx.version # ZFuture

LEMMA BuiltIs ==
  ASSUME BuilderIsSound, NEW final, NEW c, NEW spendOrder, NEW outputOrder,
         NEW rcv, NEW p, IsBuilt(final, c, spendOrder, outputOrder, rcv, p)
  PROVE  HasFields(final, c, spendOrder, outputOrder, rcv, p)
<1>1. c \in Builders /\ c = WithChange(builder)
  BY PaidIs DEF IsBuilt, IsProved
<1>2. DOMAIN c.tx = DraftFields
  BY <1>1, DraftHasFields DEF Builders
<1>3. PICK signed, witnessed :
           /\ p.tx.spends = ProvedSpends(c, spendOrder, rcv)
           /\ p.tx.outputs = ProvedOutputs(c, outputOrder, rcv)
           /\ signed.bindingSig =
                IF Shielded(p.tx) THEN <<[key |-> p.bsk, hash |-> ShieldedHash(p.tx)]>> ELSE None
           /\ signed.spends = SignedSpends(c, p.tx, spendOrder)
           /\ SameBut(p.tx, c.tx, {"spends", "outputs"})
           /\ SameBut(signed, p.tx, {"spends", "bindingSig"})
           /\ SameBut(witnessed, signed, {"tzeInputs"})
           /\ SameBut(final, witnessed, {"vin"})
           /\ final.vin = SignedVin(c, witnessed)
  BY <1>2, FinalIs DEF IsBuilt, IsProved
<1>4. /\ final.spends = signed.spends /\ final.bindingSig = signed.bindingSig
      /\ final.outputs = p.tx.outputs
  <2>1. \A f \in {"spends", "bindingSig", "outputs"} :
          f \in DraftFields \ {"vin"} /\ f \in DraftFields \ {"tzeInputs"}
    BY DEF DraftFields
  <2>2. "outputs" \in DraftFields \ {"spends", "bindingSig"}
    BY DEF DraftFields
  <2> QED BY <1>3, <2>1, <2>2 DEF SameBut
<1>5. SameBut(final, p.tx, {"spends", "bindingSig", "tzeInputs", "vin"})
  BY <1>3 DEF SameBut
<1>6. witnessed.vin = c.tx.vin
  <2>1. /\ "vin" \in DraftFields \ {"tzeInputs"} /\ "vin" \in DraftFields \ {"spends", "bindingSig"}
        /\ "vin" \in DraftFields \ {"spends", "outputs"}
    BY DEF DraftFields
  <2> QED BY <1>3, <2>1 DEF SameBut
<1>7. c.tx.version # ZFuture
  <2>1. final.version # ZFuture
    BY DEF IsBuilt, IsProved, CannotFreeze
  <2>2. /\ "version" \in DraftFields \ {"spends", "bindingSig", "tzeInputs", "vin"}
        /\ "version" \in DraftFields \ {"spends", "outputs"}
    BY DEF DraftFields
  <2>3. final.version = c.tx.version
    BY <1>3, <1>5, <2>2 DEF SameBut
  <2> QED BY <2>1, <2>3
<1> QED BY <1>3, <1>4, <1>5, <1>6, <1>7 DEF HasFields

(* The descriptions: each stands for the spend or the output the order leads  *)
(* to, with randomness below the generator.                                   *)
Describes(final, c, spendOrder, outputOrder, rcv, p) ==
  LET m == Len(c.spends)
      n == Len(Padded(c))
  IN  /\ m \in Nat /\ n \in Nat
      /\ Arranges(spendOrder, m) /\ Arranges(outputOrder, n)
      /\ DOMAIN final.spends = 1 .. m /\ DOMAIN final.outputs = 1 .. n
      /\ \A i \in 1 .. m : rcv[i] \in 0 .. ValueGenerator - 1
      /\ \A i \in 1 .. n : rcv[m + i] \in 0 .. ValueGenerator - 1
      /\ \A i \in 1 .. m :
           final.spends[i] =
             [SpendOf(c.spends[spendOrder[i]], c.anchor, rcv[i]) EXCEPT
                !.spendAuthSig = <<[key |-> 300 + c.spends[spendOrder[i]].key,
                                    hash |-> ShieldedHash(p.tx)]>>]
      /\ \A i \in 1 .. n : final.outputs[i] = OutputOf(Padded(c)[outputOrder[i]], rcv[m + i])

LEMMA DescriptionsAre ==
  ASSUME BuilderIsSound, NEW final, NEW c, NEW spendOrder, NEW outputOrder,
         NEW rcv, NEW p, IsBuilt(final, c, spendOrder, outputOrder, rcv, p)
  PROVE  Describes(final, c, spendOrder, outputOrder, rcv, p)
<1> DEFINE m == Len(c.spends)
           n == Len(Padded(c))
<1>1. /\ m \in Nat /\ n \in Nat
      /\ Arranges(spendOrder, m) /\ Arranges(outputOrder, n)
      /\ \A i \in 1 .. m : rcv[i] \in 0 .. ValueGenerator - 1
      /\ \A i \in 1 .. n : rcv[m + i] \in 0 .. ValueGenerator - 1
  BY RandomnessSuffices DEF IsBuilt, IsProved, Drawn
<1>2. HasFields(final, c, spendOrder, outputOrder, rcv, p)
  BY BuiltIs
<1> HIDE DEF m, n
<1>3. DOMAIN final.spends = 1 .. m /\ \A i \in 1 .. m :
        final.spends[i] =
          [SpendOf(c.spends[spendOrder[i]], c.anchor, rcv[i]) EXCEPT
             !.spendAuthSig = <<[key |-> 300 + c.spends[spendOrder[i]].key,
                                 hash |-> ShieldedHash(p.tx)]>>]
  <2>1. p.tx.spends = ProvedSpends(c, spendOrder, rcv)
        /\ final.spends = SignedSpends(c, p.tx, spendOrder)
    BY <1>2 DEF HasFields
  <2>2. /\ DOMAIN p.tx.spends = 1 .. m
        /\ \A i \in 1 .. m : p.tx.spends[i] = SpendOf(c.spends[spendOrder[i]], c.anchor, rcv[i])
    BY <2>1 DEF ProvedSpends, m
  <2> QED BY <2>1, <2>2 DEF SignedSpends
<1>4. DOMAIN final.outputs = 1 .. n /\ \A i \in 1 .. n :
         final.outputs[i] = OutputOf(Padded(c)[outputOrder[i]], rcv[m + i])
  <2>1. final.outputs = ProvedOutputs(c, outputOrder, rcv)
    BY <1>2 DEF HasFields
  <2> QED BY <2>1 DEF ProvedOutputs, m, n
<1> QED BY <1>1, <1>2, <1>3, <1>4 DEF m, n, Describes

-----------------------------------------------------------------------------
(* The value of a description is the value of what it stands for.             *)
(* Spend descriptions commit to the values of the notes, in some order.       *)
LEMMA SpentValues ==
  ASSUME BuilderIsSound, NEW final, NEW c, NEW spendOrder, NEW outputOrder,
         NEW rcv, NEW p, IsBuilt(final, c, spendOrder, outputOrder, rcv, p)
  PROVE  Total(Committed(final.spends)) = Total(NoteValues(c.spends))
<1> DEFINE m == Len(c.spends)
           s == NoteValues(c.spends)
<1>1. Describes(final, c, spendOrder, outputOrder, rcv, p)
  BY DescriptionsAre
<1>2. /\ m \in Nat /\ Arranges(spendOrder, m) /\ DOMAIN final.spends = 1 .. m
      /\ \A i \in 1 .. m : rcv[i] \in 0 .. ValueGenerator - 1
      /\ \A i \in 1 .. m :
           final.spends[i] =
             [SpendOf(c.spends[spendOrder[i]], c.anchor, rcv[i]) EXCEPT
                !.spendAuthSig = <<[key |-> 300 + c.spends[spendOrder[i]].key,
                                    hash |-> ShieldedHash(p.tx)]>>]
  BY <1>1 DEF Describes
<1>3. /\ s \in Seq(Int) /\ Len(s) = m /\ \A i \in 1 .. m : s[i] = c.spends[i].note.value
  <2>1. c.spends \in Seq(Spends)
    BY PaidIs DEF IsBuilt, IsProved, Builders
  <2> QED BY <2>1, NoteValuesIs
<1>4. spendOrder \in Orders(m)
  BY DEF IsBuilt, IsProved
<1> HIDE DEF m, s
<1>5. ASSUME NEW i \in 1 .. m
      PROVE  final.spends[i].cv \div ValueGenerator = s[spendOrder[i]]
  <2>1. spendOrder[i] \in 1 .. m
    BY <1>2 DEF Arranges
  <2> DEFINE v == c.spends[spendOrder[i]].note.value
  <2>2. v = s[spendOrder[i]] /\ v \in Int
    BY <1>3, <2>1
  <2>3. final.spends[i].cv = ValueCommitmentOf(v, rcv[i])
    BY <1>2 DEF SpendOf
  <2> HIDE DEF v
  <2>4. ValueGenerator \in Nat \ {0}
    BY BuilderAssumption
  <2>5. ValueCommitmentOf(v, rcv[i]) \div ValueGenerator = v
    BY <1>2, <2>2, <2>4, CommitsTo DEF ValueCommitmentOf
  <2> QED BY <2>2, <2>3, <2>5
<1>6. Committed(final.spends) = Shuffled(s, spendOrder)
  BY <1>2, <1>3, <1>5 DEF Committed, Shuffled
<1>7. Total(Shuffled(s, spendOrder)) = Total(s)
  BY <1>3, <1>4, TotalShuffled
<1> QED BY <1>6, <1>7 DEF s

(* Output descriptions commit to the values that are paid, the dummies to 0.  *)
LEMMA PaidValues ==
  ASSUME BuilderIsSound, NEW final, NEW c, NEW spendOrder, NEW outputOrder,
         NEW rcv, NEW p, IsBuilt(final, c, spendOrder, outputOrder, rcv, p)
  PROVE  Total(Committed(final.outputs)) = Total(ValuesOf(c.outputs))
<1> DEFINE m == Len(c.spends)
           n == Len(Padded(c))
           s == ValuesOf(Padded(c))
<1>1. Describes(final, c, spendOrder, outputOrder, rcv, p)
  BY DescriptionsAre
<1>2. /\ n \in Nat /\ Arranges(outputOrder, n) /\ DOMAIN final.outputs = 1 .. n
      /\ \A i \in 1 .. n : rcv[m + i] \in 0 .. ValueGenerator - 1
      /\ \A i \in 1 .. n : final.outputs[i] = OutputOf(Padded(c)[outputOrder[i]], rcv[m + i])
  BY <1>1 DEF Describes
<1>3. c \in Builders
  BY PaidIs DEF IsBuilt, IsProved
<1>4. Padded(c) \in Seq(Outputs) /\ Total(s) = Total(ValuesOf(c.outputs))
  BY <1>3, PaddedIs
<1>5. /\ s \in Seq(Int) /\ Len(s) = n /\ \A i \in 1 .. n : s[i] = Padded(c)[i].value
  <2>1. \A e \in Outputs : e.value \in Int
    BY DEF Outputs, Payments, Dummy
  <2> QED BY <1>4, <2>1, ValuesIs
<1>6. outputOrder \in Orders(n)
  BY DEF IsBuilt, IsProved
<1> HIDE DEF m, n, s
<1>7. ASSUME NEW i \in 1 .. n
      PROVE  final.outputs[i].cv \div ValueGenerator = s[outputOrder[i]]
  <2>1. outputOrder[i] \in 1 .. n
    BY <1>2 DEF Arranges
  <2> DEFINE v == Padded(c)[outputOrder[i]].value
  <2>2. v = s[outputOrder[i]] /\ v \in Int
    BY <1>5, <2>1
  <2>3. final.outputs[i].cv = ValueCommitmentOf(v, rcv[m + i])
    <3>1. final.outputs[i] = OutputOf(Padded(c)[outputOrder[i]], rcv[m + i])
      BY <1>2
    <3> QED BY <3>1, OutputHas
  <2> HIDE DEF v
  <2>4. ValueGenerator \in Nat \ {0}
    BY BuilderAssumption
  <2>5. ValueCommitmentOf(v, rcv[m + i]) \div ValueGenerator = v
    BY <1>2, <2>2, <2>4, CommitsTo DEF ValueCommitmentOf
  <2> QED BY <2>2, <2>3, <2>5
<1>8. Committed(final.outputs) = Shuffled(s, outputOrder)
  BY <1>2, <1>5, <1>7 DEF Committed, Shuffled
<1>9. Total(Shuffled(s, outputOrder)) = Total(s)
  BY <1>5, <1>6, TotalShuffled
<1> QED BY <1>4, <1>8, <1>9

(* What a transaction brings in is what it takes away.                        *)
LEMMA BuiltConserves ==
  ASSUME BuilderIsSound, NEW final, NEW c, NEW spendOrder, NEW outputOrder,
         NEW rcv, NEW p, IsBuilt(final, c, spendOrder, outputOrder, rcv, p)
  PROVE  Total(Committed(final.spends)) + Total(CoinValues(c.coins))
           = Total(Committed(final.outputs)) + Total(ValuesOf(final.vout)) + Fee
<1> DEFINE notes == Total(NoteValues(builder.spends))
           outs == Total(ValuesOf(builder.outputs))
           coins == Total(CoinValues(builder.coins))
           vout == Total(ValuesOf(builder.tx.vout))
<1>1. /\ c.spends = builder.spends /\ c.coins = builder.coins /\ c.tx.vout = builder.tx.vout
      /\ c.tx.version = builder.tx.version
      /\ Total(ValuesOf(c.outputs)) = outs + Change(builder)
  BY PaidIs DEF IsBuilt, IsProved
<1>2. c.tx.version # ZFuture /\ final.vout = c.tx.vout
  <2>1. HasFields(final, c, spendOrder, outputOrder, rcv, p)
    BY BuiltIs
  <2>2. /\ "vout" \in DraftFields \ {"spends", "bindingSig", "tzeInputs", "vin"}
        /\ "vout" \in DraftFields \ {"spends", "outputs"}
    BY DEF DraftFields
  <2> QED BY <2>1, <2>2 DEF HasFields, SameBut
<1>3. /\ Change(builder) = builder.tx.valueBalance - Fee + coins - vout
      /\ coins \in Int /\ vout \in Int
  BY <1>1, <1>2, ChangeIs
<1>4. builder.tx.valueBalance = notes - outs /\ notes \in Int /\ outs \in Int /\ Fee \in Int
  BY SoundHas, BuilderAssumption DEF Sound
<1>5. /\ Total(Committed(final.spends)) = notes
      /\ Total(Committed(final.outputs)) = outs + Change(builder)
  <2>1. Total(Committed(final.spends)) = Total(NoteValues(c.spends))
    BY SpentValues
  <2>2. Total(Committed(final.outputs)) = Total(ValuesOf(c.outputs))
    BY PaidValues
  <2> QED BY <1>1, <2>1, <2>2
<1> HIDE DEF notes, outs, coins, vout
<1>6. notes + coins = outs + Change(builder) + vout + Fee
  BY <1>3, <1>4
<1> QED BY <1>1, <1>2, <1>5, <1>6 DEF coins, vout

-----------------------------------------------------------------------------
(* A signature changes nothing else.                                          *)
LEMMA SpendSigned ==
  ASSUME NEW spend, NEW anchor, NEW r, NEW sig, NEW t,
         t = [SpendOf(spend, anchor, r) EXCEPT !.spendAuthSig = sig]
  PROVE  /\ t.cv = SpendOf(spend, anchor, r).cv /\ t.anchor = SpendOf(spend, anchor, r).anchor
         /\ t.nullifier = SpendOf(spend, anchor, r).nullifier /\ t.rk = SpendOf(spend, anchor, r).rk
         /\ t.zkproof = SpendOf(spend, anchor, r).zkproof /\ t.spendAuthSig = sig
<1> DEFINE e == SpendOf(spend, anchor, r)
<1>1. DOMAIN e = {"cv", "anchor", "nullifier", "rk", "zkproof", "spendAuthSig"}
  BY DEF SpendOf
<1> HIDE DEF e
<1>2. t = [e EXCEPT !.spendAuthSig = sig]
  BY DEF e
<1>3. /\ t.cv = e.cv /\ t.anchor = e.anchor /\ t.nullifier = e.nullifier /\ t.rk = e.rk
      /\ t.zkproof = e.zkproof /\ t.spendAuthSig = sig
  BY <1>1, <1>2
<1> QED BY <1>3 DEF e

LEMMA InputSigned ==
  ASSUME NEW in \in VinType, NEW sig, NEW t, t = [in EXCEPT !.scriptSig = sig]
  PROVE  t.hash = in.hash /\ t.n = in.n /\ t.sequence = in.sequence /\ t.scriptSig = sig
<1>1. DOMAIN in = {"hash", "n", "scriptSig", "sequence"}
  BY DEF VinType
<1> QED BY <1>1

(* The hashes that were signed are those of the final transaction.            *)
LEMMA SignedFinal ==
  ASSUME BuilderIsSound, NEW final, NEW c, NEW spendOrder, NEW outputOrder,
         NEW rcv, NEW p, IsBuilt(final, c, spendOrder, outputOrder, rcv, p)
  PROVE  /\ SameEffects(p.tx, final) /\ ShieldedHash(p.tx) = ShieldedHash(final)
         /\ DOMAIN final.vin = 1 .. Len(c.coins)
         /\ \A i \in 1 .. Len(c.coins) :
              final.vin[i].scriptSig =
                <<[key |-> c.coins[i].key, hash |-> CoinHash(final, i, c.coins[i].coin)]>>
<1>1. HasFields(final, c, spendOrder, outputOrder, rcv, p)
      /\ Describes(final, c, spendOrder, outputOrder, rcv, p)
  BY BuiltIs, DescriptionsAre
<1>2. PICK witnessed : /\ final.vin = SignedVin(c, witnessed)
                       /\ SameBut(final, witnessed, {"vin"})
                       /\ witnessed.vin = c.tx.vin
  BY <1>1 DEF HasFields
<1>3. /\ c.tx.vin \in Seq(VinType) /\ Len(c.tx.vin) = Len(c.coins) /\ Len(c.coins) \in Nat
  <2>1. /\ c \in Builders /\ c.coins = builder.coins /\ c.tx.vin = builder.tx.vin
    BY PaidIs DEF IsBuilt, IsProved
  <2> QED BY <2>1, SoundHas DEF Sound
<1> DEFINE n == Len(c.coins)
           vin == c.tx.vin
<1>4. DOMAIN vin = 1 .. n /\ \A i \in 1 .. n : vin[i] \in VinType
  BY <1>3
<1>5. DOMAIN final.vin = 1 .. n /\ \A i \in 1 .. n :
        final.vin[i] = [vin[i] EXCEPT
          !.scriptSig = <<[key |-> c.coins[i].key, hash |-> CoinHash(witnessed, i, c.coins[i].coin)]>>]
  BY <1>2, <1>4 DEF SignedVin
<1> HIDE DEF n, vin
<1>6. ASSUME NEW i \in 1 .. n
      PROVE  /\ final.vin[i].hash = vin[i].hash /\ final.vin[i].n = vin[i].n
             /\ final.vin[i].sequence = vin[i].sequence
             /\ final.vin[i].scriptSig =
                  <<[key |-> c.coins[i].key, hash |-> CoinHash(witnessed, i, c.coins[i].coin)]>>
  <2> DEFINE sig == <<[key |-> c.coins[i].key, hash |-> CoinHash(witnessed, i, c.coins[i].coin)]>>
             in == vin[i]
             t == final.vin[i]
  <2>1. t = [in EXCEPT !.scriptSig = sig] /\ in \in VinType
    BY <1>4, <1>5
  <2> HIDE DEF sig, in, t
  <2>2. t.hash = in.hash /\ t.n = in.n /\ t.sequence = in.sequence /\ t.scriptSig = sig
    BY <2>1, InputSigned
  <2> QED BY <2>2 DEF sig, in, t
<1>7. final.version # ZFuture
  BY DEF IsBuilt, IsProved, CannotFreeze
<1>8. SameEffects(p.tx, final)
  <2>1. \A f \in {"version", "vout", "outputs", "joinsplits", "joinsplitPubkey", "lockTime",
                  "expiryHeight", "valueBalance"} :
          f \in DraftFields \ {"spends", "bindingSig", "tzeInputs", "vin"}
    BY DEF DraftFields
  <2>2. /\ p.tx.version = final.version /\ p.tx.vout = final.vout /\ p.tx.outputs = final.outputs
        /\ p.tx.joinsplits = final.joinsplits /\ p.tx.joinsplitPubkey = final.joinsplitPubkey
        /\ p.tx.lockTime = final.lockTime /\ p.tx.expiryHeight = final.expiryHeight
        /\ p.tx.valueBalance = final.valueBalance
    BY <1>1, <2>1 DEF HasFields, SameBut
  <2>3. p.tx.vin = vin
    <3>1. "vin" \in DraftFields \ {"spends", "outputs"}
      BY DEF DraftFields
    <3> QED BY <1>1, <3>1 DEF HasFields, SameBut, vin
  <2>4. SameInputs(p.tx, final)
    BY <1>4, <1>5, <1>6, <2>3 DEF SameInputs
  <2>5. SameSpends(p.tx, final)
    <3> DEFINE m == Len(c.spends)
               S == p.tx.spends
               T == final.spends
    <3>1. /\ m \in Nat /\ S = ProvedSpends(c, spendOrder, rcv) /\ T = SignedSpends(c, p.tx, spendOrder)
      BY <1>1 DEF Describes, HasFields
    <3>2. /\ DOMAIN S = 1 .. m
          /\ \A i \in 1 .. m : S[i] = SpendOf(c.spends[spendOrder[i]], c.anchor, rcv[i])
      BY <3>1 DEF ProvedSpends
    <3>3. DOMAIN T = 1 .. m /\ \A i \in 1 .. m :
            T[i] = [S[i] EXCEPT !.spendAuthSig =
                      <<[key |-> 300 + c.spends[spendOrder[i]].key, hash |-> ShieldedHash(p.tx)]>>]
      BY <3>1, <3>2 DEF SignedSpends
    <3>4. S \in Seq({S[i] : i \in 1 .. m}) /\ T \in Seq({T[i] : i \in 1 .. m})
      <4>1. S = [i \in 1 .. m |-> S[i]] /\ T = [i \in 1 .. m |-> T[i]]
        BY <3>1, <3>2, <3>3 DEF ProvedSpends, SignedSpends
      <4> HIDE DEF S, T, m
      <4>2. (\A i \in 1 .. m : S[i] \in {S[j] : j \in 1 .. m})
            /\ (\A i \in 1 .. m : T[i] \in {T[j] : j \in 1 .. m})
        OBVIOUS
      <4>3. m \in Nat
        BY <3>1
      <4>4. S \in Seq({S[i] : i \in 1 .. m})
        BY <4>1, <4>2, <4>3, ListIs
      <4>5. T \in Seq({T[i] : i \in 1 .. m})
        BY <4>1, <4>2, <4>3, ListIs
      <4> QED BY <4>4, <4>5
    <3>5. (S = << >>) = (T = << >>)
      BY <3>1, <3>2, <3>3, <3>4
    <3>6. ASSUME NEW i \in 1 .. m,
                 NEW f \in {"cv", "anchor", "nullifier", "rk", "zkproof"}
          PROVE  S[i][f] = T[i][f]
      <4> DEFINE e == SpendOf(c.spends[spendOrder[i]], c.anchor, rcv[i])
                 t == T[i]
      <4>1. S[i] = e /\ t = [e EXCEPT !.spendAuthSig =
              <<[key |-> 300 + c.spends[spendOrder[i]].key, hash |-> ShieldedHash(p.tx)]>>]
        BY <3>2, <3>3
      <4>2. /\ t.cv = e.cv /\ t.anchor = e.anchor /\ t.nullifier = e.nullifier /\ t.rk = e.rk
            /\ t.zkproof = e.zkproof
        BY <4>1, SpendSigned
      <4> HIDE DEF e, t
      <4>3. e[f] = t[f]
        BY <4>2
      <4> QED BY <4>1, <4>3 DEF t
    <3> HIDE DEF m
    <3> QED BY <3>2, <3>3, <3>5, <3>6 DEF SameSpends
  <2>6. p.tx.version # ZFuture
    BY <1>7, <2>2
  <2> QED BY <2>2, <2>4, <2>5, <2>6 DEF SameEffects
<1>9. SameEffects(witnessed, final)
  <2>1. \A f \in {"version", "vout", "outputs", "spends", "joinsplits", "joinsplitPubkey", "lockTime",
                  "expiryHeight", "valueBalance"} : f \in DraftFields \ {"vin"}
    BY DEF DraftFields
  <2>2. /\ witnessed.version = final.version /\ witnessed.vout = final.vout
        /\ witnessed.outputs = final.outputs /\ witnessed.spends = final.spends
        /\ witnessed.joinsplits = final.joinsplits
        /\ witnessed.joinsplitPubkey = final.joinsplitPubkey
        /\ witnessed.lockTime = final.lockTime /\ witnessed.expiryHeight = final.expiryHeight
        /\ witnessed.valueBalance = final.valueBalance
    BY <1>2, <2>1 DEF SameBut
  <2>3. SameInputs(witnessed, final)
    BY <1>2, <1>4, <1>5, <1>6 DEF SameInputs, vin
  <2>4. SameSpends(witnessed, final)
    BY <2>2 DEF SameSpends
  <2>5. witnessed.version # ZFuture
    BY <1>7, <2>2
  <2> QED BY <2>2, <2>3, <2>4, <2>5 DEF SameEffects
<1>10. ShieldedHash(p.tx) = ShieldedHash(final)
  BY <1>8, SameHash DEF ShieldedHash
<1>11. ASSUME NEW i \in 1 .. n
       PROVE  CoinHash(witnessed, i, c.coins[i].coin) = CoinHash(final, i, c.coins[i].coin)
  <2>1. i \in DOMAIN witnessed.vin
    BY <1>2, <1>4 DEF vin
  <2> QED BY <1>9, <2>1, SameHash DEF CoinHash
<1> QED BY <1>5, <1>6, <1>8, <1>10, <1>11 DEF n

-----------------------------------------------------------------------------
(* The verifier accepts what was built.                                       *)
LEMMA SpendHas ==
  ASSUME NEW spend \in Spends, SpendProves(spend, spend.note.anchor), NEW r,
         NEW hash, NEW t,
         t = [SpendOf(spend, spend.note.anchor, r) EXCEPT
                !.spendAuthSig = <<[key |-> 300 + spend.key, hash |-> hash]>>]
  PROVE  /\ SpendAccepted(t, hash)
         /\ t.nullifier = NullifierOf(spend.key, spend.note)
<1> DEFINE anchor == spend.note.anchor
           cv == ValueCommitmentOf(spend.note.value, r)
           nf == NullifierOf(spend.key, spend.note)
           sig == <<[key |-> 300 + spend.key, hash |-> hash]>>
<1>1. /\ t.cv = SpendOf(spend, anchor, r).cv /\ t.anchor = SpendOf(spend, anchor, r).anchor
      /\ t.nullifier = SpendOf(spend, anchor, r).nullifier /\ t.rk = SpendOf(spend, anchor, r).rk
      /\ t.zkproof = SpendOf(spend, anchor, r).zkproof /\ t.spendAuthSig = sig
  BY SpendSigned
<1>2. /\ t.cv = cv /\ t.anchor = anchor /\ t.nullifier = nf /\ t.rk = 300 + spend.key
      /\ t.zkproof = <<"spend", cv, anchor, spend.note>>
  BY <1>1 DEF SpendOf
<1>3. spend.key \in Int
  BY BuilderAssumption DEF Spends
<1>4. t.rk - 300 = spend.key
  BY <1>2, <1>3
<1>5. sig[1] = [key |-> t.rk, hash |-> hash]
  BY <1>2
<1> HIDE DEF cv, sig, nf
<1>6. t.zkproof[2] = cv /\ t.zkproof[3] = anchor /\ t.zkproof[4] = spend.note
  BY <1>2
<1>7. t.nullifier = NullifierOf(t.rk - 300, t.zkproof[4])
  BY <1>2, <1>4, <1>6 DEF nf
<1> QED BY <1>1, <1>2, <1>5, <1>6, <1>7 DEF SpendAccepted, nf

(* Each spend of the builder, and what stands for it.                         *)
LEMMA SpendsVerify ==
  ASSUME BuilderIsSound, NEW final, NEW c, NEW spendOrder, NEW outputOrder,
         NEW rcv, NEW p, IsBuilt(final, c, spendOrder, outputOrder, rcv, p)
  PROVE  \A i \in 1 .. Len(c.spends) :
           LET spend == c.spends[spendOrder[i]]
           IN  /\ spendOrder[i] \in 1 .. Len(c.spends)
               /\ SpendAccepted(final.spends[i], ShieldedHash(p.tx))
               /\ final.spends[i].nullifier = NullifierOf(spend.key, spend.note)
<1> SUFFICES ASSUME NEW i \in 1 .. Len(c.spends)
             PROVE  LET spend == c.spends[spendOrder[i]]
                    IN  /\ spendOrder[i] \in 1 .. Len(c.spends)
                        /\ SpendAccepted(final.spends[i], ShieldedHash(p.tx))
                        /\ final.spends[i].nullifier = NullifierOf(spend.key, spend.note)
  OBVIOUS
<1>1. Describes(final, c, spendOrder, outputOrder, rcv, p)
  BY DescriptionsAre
<1> DEFINE spend == c.spends[spendOrder[i]]
           t == final.spends[i]
<1>2. spendOrder[i] \in 1 .. Len(c.spends)
  BY <1>1 DEF Describes, Arranges
<1>3. /\ c \in Builders /\ c.spends = builder.spends /\ c.anchor = builder.anchor
  BY PaidIs DEF IsBuilt, IsProved
<1>4. spend \in Spends
  BY <1>2, <1>3 DEF Builders
<1>5. SpendProves(spend, c.anchor)
  <2>1. \A j \in DOMAIN builder.spends : SpendProves(builder.spends[j], builder.anchor)
    BY ChangeIs, NoError DEF IsBuilt, IsProved
  <2>2. spendOrder[i] \in DOMAIN builder.spends
    <3>1. builder.spends \in Seq(Spends)
      BY SoundHas
    <3> QED BY <1>2, <1>3, <3>1
  <2> QED BY <1>3, <2>1, <2>2
<1>6. t = [SpendOf(spend, c.anchor, rcv[i]) EXCEPT
             !.spendAuthSig = <<[key |-> 300 + spend.key, hash |-> ShieldedHash(p.tx)]>>]
  BY <1>1 DEF Describes
<1> HIDE DEF spend, t
<1>7. c.anchor = spend.note.anchor
  BY <1>5 DEF SpendProves
<1> DEFINE r == rcv[i]
           hash == ShieldedHash(p.tx)
<1> HIDE DEF r, hash
<1>8. SpendAccepted(t, hash) /\ t.nullifier = NullifierOf(spend.key, spend.note)
  <2>1. SpendProves(spend, spend.note.anchor)
    BY <1>5, <1>7
  <2>2. t = [SpendOf(spend, spend.note.anchor, r) EXCEPT
               !.spendAuthSig = <<[key |-> 300 + spend.key, hash |-> hash]>>]
    BY <1>6, <1>7 DEF r, hash
  <2> QED BY <1>4, <2>1, <2>2, SpendHas
<1> QED BY <1>2, <1>8 DEF spend, t, hash

(* The keys the prover summed up are the key the verifier computes.           *)
LEMMA BindingVerifies ==
  ASSUME BuilderIsSound, NEW final, NEW c, NEW spendOrder, NEW outputOrder,
         NEW rcv, NEW p, IsBuilt(final, c, spendOrder, outputOrder, rcv, p), Shielded(final)
  PROVE  BindingAccepted(final, ShieldedHash(final))
<1>1. HasFields(final, c, spendOrder, outputOrder, rcv, p)
  BY BuiltIs
<1>2. SameEffects(p.tx, final) /\ ShieldedHash(p.tx) = ShieldedHash(final)
  BY SignedFinal
<1>3. /\ p.tx.outputs = final.outputs /\ p.tx.valueBalance = final.valueBalance
      /\ (p.tx.spends = << >>) = (final.spends = << >>)
      /\ DOMAIN p.tx.spends = DOMAIN final.spends
      /\ \A i \in DOMAIN p.tx.spends : p.tx.spends[i].cv = final.spends[i].cv
  BY <1>2 DEF SameEffects, SameSpends
<1>4. Shielded(p.tx)
  BY <1>3 DEF Shielded
<1>5. Cvs(p.tx.spends) = Cvs(final.spends)
  BY <1>3 DEF Cvs
<1>6. Bvk(p.tx) = Bvk(final)
  BY <1>3, <1>5 DEF Bvk, CvSum
<1>7. p.bsk = Bvk(final)
  BY <1>6, BindingKeyIs DEF IsBuilt
<1>8. final.bindingSig = <<[key |-> p.bsk, hash |-> ShieldedHash(p.tx)]>>
  BY <1>1, <1>4 DEF HasFields
<1> QED BY <1>2, <1>7, <1>8 DEF BindingAccepted

(* Each output description is that of an output of the builder.               *)
LEMMA OutputsAre ==
  ASSUME BuilderIsSound, NEW final, NEW c, NEW spendOrder, NEW outputOrder,
         NEW rcv, NEW p, IsBuilt(final, c, spendOrder, outputOrder, rcv, p)
  PROVE  \A i \in 1 .. Len(Padded(c)) :
           /\ outputOrder[i] \in 1 .. Len(Padded(c)) /\ OutputAccepted(final.outputs[i])
           /\ final.outputs[i].encNote = Padded(c)[outputOrder[i]].to
           /\ final.outputs[i].cv \div ValueGenerator = Padded(c)[outputOrder[i]].value
<1> SUFFICES ASSUME NEW i \in 1 .. Len(Padded(c))
             PROVE  /\ outputOrder[i] \in 1 .. Len(Padded(c)) /\ OutputAccepted(final.outputs[i])
                    /\ final.outputs[i].encNote = Padded(c)[outputOrder[i]].to
                    /\ final.outputs[i].cv \div ValueGenerator = Padded(c)[outputOrder[i]].value
  OBVIOUS
<1>1. Describes(final, c, spendOrder, outputOrder, rcv, p)
  BY DescriptionsAre
<1> DEFINE o == Padded(c)[outputOrder[i]]
           r == rcv[Len(c.spends) + i]
           t == final.outputs[i]
<1>2. /\ outputOrder[i] \in 1 .. Len(Padded(c)) /\ t = OutputOf(o, r)
      /\ r \in 0 .. ValueGenerator - 1
  BY <1>1 DEF Describes, Arranges
<1>3. o.value \in Int
  <2>1. c \in Builders
    BY PaidIs DEF IsBuilt, IsProved
  <2>2. Padded(c) \in Seq(Outputs)
    BY <2>1, PaddedIs
  <2>3. o \in Outputs
    BY <1>2, <2>2
  <2> QED BY <2>3 DEF Outputs, Payments, Dummy
<1> HIDE DEF o, r, t
<1>4. t.cv = ValueCommitmentOf(o.value, r) /\ t.encNote = o.to /\ OutputAccepted(t)
  BY <1>2, OutputHas
<1>5. ValueCommitmentOf(o.value, r) \div ValueGenerator = o.value
  BY <1>2, <1>3, CommitsTo, BuilderAssumption DEF ValueCommitmentOf
<1> QED BY <1>2, <1>4, <1>5 DEF o, t

(* All that the verifier looks at.                                            *)
LEMMA BuiltVerifies ==
  ASSUME BuilderIsSound, NEW final, NEW c, NEW spendOrder, NEW outputOrder,
         NEW rcv, NEW p, IsBuilt(final, c, spendOrder, outputOrder, rcv, p)
  PROVE  /\ \A i \in DOMAIN final.spends : SpendAccepted(final.spends[i], ShieldedHash(final))
         /\ \A i \in DOMAIN final.outputs : OutputAccepted(final.outputs[i])
         /\ Shielded(final) => BindingAccepted(final, ShieldedHash(final))
         /\ \A i \in DOMAIN final.vin :
              final.vin[i].scriptSig =
                <<[key |-> c.coins[i].coin.owner, hash |-> CoinHash(final, i, c.coins[i].coin)]>>
<1>1. Describes(final, c, spendOrder, outputOrder, rcv, p)
  BY DescriptionsAre
<1>2. DOMAIN final.spends = 1 .. Len(c.spends) /\ DOMAIN final.outputs = 1 .. Len(Padded(c))
  BY <1>1 DEF Describes
<1>3. /\ ShieldedHash(p.tx) = ShieldedHash(final) /\ DOMAIN final.vin = 1 .. Len(c.coins)
      /\ \A i \in 1 .. Len(c.coins) :
           final.vin[i].scriptSig =
             <<[key |-> c.coins[i].key, hash |-> CoinHash(final, i, c.coins[i].coin)]>>
  BY SignedFinal
<1>4. \A i \in DOMAIN final.spends : SpendAccepted(final.spends[i], ShieldedHash(final))
  BY <1>2, <1>3, SpendsVerify
<1>5. \A i \in DOMAIN final.outputs : OutputAccepted(final.outputs[i])
  BY <1>2, OutputsAre
<1>6. Shielded(final) => BindingAccepted(final, ShieldedHash(final))
  BY BindingVerifies
<1>7. \A i \in 1 .. Len(c.coins) : c.coins[i].key = c.coins[i].coin.owner
  <2>1. c.coins = builder.coins /\ builder.coins \in Seq(CoinSpends)
    BY PaidIs, SoundHas DEF IsBuilt, IsProved
  <2> QED BY <2>1, SoundHas DEF Sound
<1>8. \A i \in DOMAIN final.vin :
        final.vin[i].scriptSig =
          <<[key |-> c.coins[i].coin.owner, hash |-> CoinHash(final, i, c.coins[i].coin)]>>
  BY <1>3, <1>7
<1> QED BY <1>4, <1>5, <1>6, <1>8

-----------------------------------------------------------------------------
(* The metadata leads from a call to its description.                         *)
LEMMA BuiltPointsHome ==
  ASSUME BuilderIsSound, NEW final, NEW c, NEW spendOrder, NEW outputOrder,
         NEW rcv, NEW p, IsBuilt(final, c, spendOrder, outputOrder, rcv, p),
         NEW m, m = Metadata(c, spendOrder, outputOrder)
  PROVE  /\ \A n \in DOMAIN c.spends :
              final.spends[m.spendIndices[n]].nullifier
                = NullifierOf(c.spends[n].key, c.spends[n].note)
         /\ \A n \in DOMAIN c.outputs :
              /\ final.outputs[m.outputIndices[n]].encNote = c.outputs[n].to
              /\ final.outputs[m.outputIndices[n]].cv \div ValueGenerator = c.outputs[n].value
         /\ final.spends # << >> => Len(final.outputs) >= 2
<1>1. /\ c \in Builders /\ c.spends \in Seq(Spends) /\ c.outputs \in Seq(Payments)
      /\ Len(c.spends) \in Nat /\ Len(c.outputs) \in Nat
      /\ DOMAIN c.spends = 1 .. Len(c.spends) /\ DOMAIN c.outputs = 1 .. Len(c.outputs)
  <2>1. c \in Builders
    BY PaidIs DEF IsBuilt, IsProved
  <2>2. c.spends \in Seq(Spends) /\ c.outputs \in Seq(Payments)
    BY <2>1 DEF Builders
  <2> QED BY <2>1, <2>2
<1>2. /\ Padded(c) \in Seq(Outputs) /\ Len(Padded(c)) >= Len(c.outputs)
      /\ \A i \in 1 .. Len(c.outputs) : Padded(c)[i] = c.outputs[i]
      /\ c.spends # << >> => Len(Padded(c)) >= 2
      /\ Len(Padded(c)) \in Nat
  BY <1>1, PaddedIs
<1>3. /\ spendOrder \in Orders(Len(c.spends)) /\ outputOrder \in Orders(Len(Padded(c)))
  BY DEF IsBuilt, IsProved
<1>4. ASSUME NEW n \in DOMAIN c.spends
      PROVE  final.spends[m.spendIndices[n]].nullifier
               = NullifierOf(c.spends[n].key, c.spends[n].note)
  <2> DEFINE i == IndexOf(spendOrder, n)
  <2>1. m.spendIndices[n] = i
    BY <1>1 DEF Metadata
  <2>2. i \in 1 .. Len(c.spends) /\ spendOrder[i] = n
    BY <1>1, <1>3, IndexLeadsTo
  <2> HIDE DEF i
  <2>3. final.spends[i].nullifier
          = NullifierOf(c.spends[spendOrder[i]].key, c.spends[spendOrder[i]].note)
    BY <2>2, SpendsVerify
  <2> QED BY <2>1, <2>2, <2>3
<1>5. ASSUME NEW n \in DOMAIN c.outputs
      PROVE  /\ final.outputs[m.outputIndices[n]].encNote = c.outputs[n].to
             /\ final.outputs[m.outputIndices[n]].cv \div ValueGenerator = c.outputs[n].value
  <2> DEFINE i == IndexOf(outputOrder, n)
  <2>1. m.outputIndices[n] = i
    BY <1>1 DEF Metadata
  <2>2. n \in 1 .. Len(Padded(c)) /\ Padded(c)[n] = c.outputs[n]
    BY <1>1, <1>2
  <2>3. i \in 1 .. Len(Padded(c)) /\ outputOrder[i] = n
    BY <1>2, <1>3, <2>2, IndexLeadsTo
  <2> HIDE DEF i
  <2>4. /\ final.outputs[i].encNote = Padded(c)[outputOrder[i]].to
        /\ final.outputs[i].cv \div ValueGenerator = Padded(c)[outputOrder[i]].value
    BY <2>3, OutputsAre
  <2> QED BY <2>1, <2>2, <2>3, <2>4
<1>6. ASSUME final.spends # << >>
      PROVE  Len(final.outputs) >= 2
  <2>1. SameEffects(p.tx, final)
    BY SignedFinal
  <2>2. p.tx.spends # << >>
    BY <1>6, <2>1 DEF SameEffects, SameSpends
  <2>3. HasFields(final, c, spendOrder, outputOrder, rcv, p)
    BY BuiltIs
  <2>4. c.spends # << >>
    <3>1. ASSUME c.spends = << >> PROVE FALSE
      <4>1. p.tx.spends = ProvedSpends(c, spendOrder, rcv)
        BY <2>3 DEF HasFields
      <4>2. Len(c.spends) = 0
        BY <3>1
      <4>3. p.tx.spends = << >>
        BY <4>1, <4>2 DEF ProvedSpends
      <4> QED BY <2>2, <4>3
    <3> QED BY <3>1
  <2>5. final.outputs = ProvedOutputs(c, outputOrder, rcv)
    BY <2>3 DEF HasFields
  <2> DEFINE k == Len(Padded(c))
  <2>6. final.outputs = [i \in 1 .. k |->
          OutputOf(Padded(c)[outputOrder[i]], rcv[Len(c.spends) + i])]
    BY <2>5 DEF ProvedOutputs
  <2>7. k \in Nat /\ k >= 2
    BY <1>2, <2>4
  <2> HIDE DEF k
  <2>8. Len(final.outputs) = k
    BY <2>6, <2>7
  <2> QED BY <2>7, <2>8
<1> QED BY <1>4, <1>5, <1>6

-----------------------------------------------------------------------------
(* The theorems.                                                              *)

\* What holds of every state: the builder as it was called, and what came of it.
BuilderInvariant ==
  /\ BuilderIsSound
  /\ BindingKeyMatches
  /\ Done => ValueIsConserved /\ BuiltTransactionsVerify

(* What Build makes has the properties.                                       *)
LEMMA BuildConserves ==
  ASSUME BuilderIsSound, BuildTransaction, outcome' = "built"
  PROVE  ValueIsConserved' /\ BuiltTransactionsVerify'
<1>1. PICK final, c, spendOrder, outputOrder, rcv, p :
        /\ IsBuilt(final, c, spendOrder, outputOrder, rcv, p)
        /\ built' = <<[tx |-> final, paid |-> c,
                       metadata |-> Metadata(c, spendOrder, outputOrder)]>>
  BY BuildIsBuilt
<1>2. Tx' = final /\ Paid' = c /\ (built[1].metadata)' = Metadata(c, spendOrder, outputOrder)
  BY <1>1 DEF Tx, Paid
<1>3. Total(Committed(final.spends)) + Total(CoinValues(c.coins))
        = Total(Committed(final.outputs)) + Total(ValuesOf(final.vout)) + Fee
  BY <1>1, BuiltConserves
<1>4. ValueIsConserved'
  BY <1>2, <1>3 DEF ValueIsConserved
<1>5. /\ \A i \in DOMAIN final.spends : SpendAccepted(final.spends[i], ShieldedHash(final))
      /\ \A i \in DOMAIN final.outputs : OutputAccepted(final.outputs[i])
      /\ Shielded(final) => BindingAccepted(final, ShieldedHash(final))
      /\ \A i \in DOMAIN final.vin :
           final.vin[i].scriptSig =
             <<[key |-> c.coins[i].coin.owner, hash |-> CoinHash(final, i, c.coins[i].coin)]>>
  BY <1>1, BuiltVerifies
<1>6. VerifierAccepts'
  BY <1>2, <1>5 DEF VerifierAccepts, ShieldedHash, CoinHash
<1> DEFINE m == Metadata(c, spendOrder, outputOrder)
<1>7. /\ \A n \in DOMAIN c.spends :
           final.spends[m.spendIndices[n]].nullifier
             = NullifierOf(c.spends[n].key, c.spends[n].note)
      /\ \A n \in DOMAIN c.outputs :
           /\ final.outputs[m.outputIndices[n]].encNote = c.outputs[n].to
           /\ final.outputs[m.outputIndices[n]].cv \div ValueGenerator = c.outputs[n].value
      /\ final.spends # << >> => Len(final.outputs) >= 2
  BY <1>1, BuiltPointsHome
<1> HIDE DEF m
<1>8. MetadataPointsHome'
  BY <1>2, <1>7 DEF MetadataPointsHome, m
<1>9. BindingKeyMatches'
  BY DEF BindingKeyMatches
<1> QED BY <1>4, <1>6, <1>8, <1>9 DEF BuiltTransactionsVerify

(* A build is never refused for its binding key.                              *)
LEMMA BuildSigns ==
  ASSUME BuilderIsSound, BuildTransaction
  PROVE  BindingKeyMatches'
<1> DEFINE c == WithChange(builder)
<1>1. CASE BuildError(builder, c) # "ok"
  <2>1. outcome' = BuildError(builder, c)
    BY <1>1 DEF BuildTransaction
  <2>2. BuildError(builder, c) # "BindingSig"
    BY DEF BuildError, OutputError
  <2> QED BY <2>1, <2>2 DEF BindingKeyMatches
<1>2. CASE BuildError(builder, c) = "ok"
  <2>1. PICK spendOrder \in Orders(Len(c.spends)), outputOrder \in Orders(Len(Padded(c))),
             rcv \in Randomness :
          LET p == Proved(c, spendOrder, outputOrder, rcv)
          IN  \/ p.bsk # Bvk(p.tx)
              \/ outcome' \in {"TzeWitnessModeMismatch", "panic", "built"}
    BY <1>2 DEF BuildTransaction
  <2> DEFINE p == Proved(c, spendOrder, outputOrder, rcv)
  <2>2. IsProved(c, spendOrder, outputOrder, rcv, p)
    BY <1>2 DEF IsProved
  <2> HIDE DEF p, c
  <2>3. p.bsk = Bvk(p.tx)
    BY <2>2, BindingKeyIs
  <2> QED BY <2>1, <2>3 DEF BindingKeyMatches, p
<1> QED BY <1>1, <1>2

(* The calls before build answer something else.                              *)
LEMMA CallsSign ==
  \/ \E key \in Keys, note \in Notes : AddSaplingSpend(key, note)
  \/ \E to \in Keys \cup {BadAddress}, value \in Values : AddSaplingOutput(to, value)
  \/ \E key \in Keys, coin \in TransparentCoins : AddTransparentInput(key, coin)
  \/ \E value \in Values : AddTransparentOutput(1, value)
  \/ \E to \in Keys \cup {BadAddress} : SendChangeTo(to)
  \/ \E value \in Values, mode \in {0, 1} : AddTzeInput(value, 0, mode)
  \/ \E value \in Values : AddTzeOutput(value, 0)
  => BindingKeyMatches'
<1> DEFINE Answers == {"ok", "AnchorMismatch", "InvalidAmount", "InvalidAddress", "panic"}
<1>1. ASSUME NEW o \in Answers, NEW b, Answer(o, b)
      PROVE  outcome' # "BindingSig"
  BY <1>1 DEF Answer
<1>2. ASSUME NEW key \in Keys, NEW note \in Notes, AddSaplingSpend(key, note)
      PROVE  outcome' # "BindingSig"
  <2>1. \E b : Answer("AnchorMismatch", b) \/ Answer("InvalidAmount", b) \/ Answer("panic", b) \/ Answer("ok", b)
    BY <1>2, Zenon DEF AddSaplingSpend
  <2> QED BY <1>1, <2>1
<1>3. ASSUME NEW to, NEW value, AddSaplingOutput(to, value)
      PROVE  outcome' # "BindingSig"
  <2>1. OutputError(to, value) \in Answers
    BY DEF OutputError
  <2>2. \E b : Answer(OutputError(to, value), b) \/ Answer("panic", b) \/ Answer("ok", b)
    BY <1>3, Zenon DEF AddSaplingOutput
  <2> QED BY <1>1, <2>1, <2>2
<1>4. ASSUME NEW key, NEW coin, AddTransparentInput(key, coin)
      PROVE  outcome' # "BindingSig"
  <2>1. \E b : Answer("InvalidAmount", b) \/ Answer("InvalidAddress", b) \/ Answer("ok", b)
    BY <1>4, Zenon DEF AddTransparentInput
  <2> QED BY <1>1, <2>1
<1>5. ASSUME NEW value, AddTransparentOutput(1, value)
      PROVE  outcome' # "BindingSig"
  <2>1. \E b : Answer("InvalidAmount", b) \/ Answer("ok", b)
    BY <1>5, Zenon DEF AddTransparentOutput
  <2> QED BY <1>1, <2>1
<1>6. ASSUME NEW to, SendChangeTo(to)
      PROVE  outcome' # "BindingSig"
  <2>1. \E b : Answer("ok", b)
    BY <1>6, Zenon DEF SendChangeTo
  <2> QED BY <1>1, <2>1
<1>7. ASSUME NEW value, NEW mode, AddTzeInput(value, 0, mode)
      PROVE  outcome' # "BindingSig"
  <2>1. \E b : Answer("ok", b)
    BY <1>7, Zenon DEF AddTzeInput
  <2> QED BY <1>1, <2>1
<1>8. ASSUME NEW value, AddTzeOutput(value, 0)
      PROVE  outcome' # "BindingSig"
  <2>1. \E b : Answer("InvalidAmount", b) \/ Answer("ok", b)
    BY <1>8, Zenon DEF AddTzeOutput
  <2> QED BY <1>1, <2>1
<1> QED BY <1>2, <1>3, <1>4, <1>5, <1>6, <1>7, <1>8 DEF BindingKeyMatches

(* The invariant holds at the start, and after every step.                    *)
LEMMA InvariantInit == ASSUME BuilderInit PROVE BuilderInvariant
<1>1. BuilderIsSound
  BY InitIsSound
<1>2. ~Done
  BY DEF BuilderInit, Done
<1>3. BindingKeyMatches
  BY DEF BuilderInit, BindingKeyMatches
<1> QED BY <1>1, <1>2, <1>3 DEF BuilderInvariant

LEMMA InvariantStep ==
  ASSUME BuilderInvariant, [BuilderNext]_builderVars
  PROVE  BuilderInvariant'
<1>1. BuilderIsSound
  BY DEF BuilderInvariant
<1>2. ASSUME built = None, BuilderIsSound', built' = built, BindingKeyMatches'
      PROVE  BuilderInvariant'
  BY <1>2 DEF BuilderInvariant, Done
<1>3. ASSUME NEW key \in Keys, NEW note \in Notes, AddSaplingSpend(key, note)
      PROVE  BuilderInvariant'
  <2>1. built = None
    BY <1>3 DEF AddSaplingSpend, TakesCalls
  <2> QED BY <1>1, <1>2, <1>3, <2>1, SpendIsSound, CallsSign
<1>4. ASSUME NEW to \in Keys \cup {BadAddress}, NEW value \in Values, AddSaplingOutput(to, value)
      PROVE  BuilderInvariant'
  <2>1. built = None
    BY <1>4 DEF AddSaplingOutput, TakesCalls
  <2> QED BY <1>1, <1>2, <1>4, <2>1, OutputIsSound, CallsSign
<1>5. ASSUME NEW key \in Keys, NEW coin \in TransparentCoins, AddTransparentInput(key, coin)
      PROVE  BuilderInvariant'
  <2>1. built = None
    BY <1>5 DEF AddTransparentInput, TakesCalls
  <2> QED BY <1>1, <1>2, <1>5, <2>1, CoinIsSound, CallsSign
<1>6. ASSUME NEW value \in Values, AddTransparentOutput(1, value)
      PROVE  BuilderInvariant'
  <2>1. built = None
    BY <1>6 DEF AddTransparentOutput, TakesCalls
  <2> QED BY <1>1, <1>2, <1>6, <2>1, PaymentIsSound, CallsSign
<1>7. ASSUME NEW to \in Keys \cup {BadAddress}, SendChangeTo(to)
      PROVE  BuilderInvariant'
  <2>1. built = None
    BY <1>7 DEF SendChangeTo, TakesCalls
  <2> QED BY <1>1, <1>2, <1>7, <2>1, ChangeIsSound, CallsSign
<1>8. ASSUME builder.tx.version = ZFuture, NEW value \in Values, NEW mode \in {0, 1},
             AddTzeInput(value, 0, mode)
      PROVE  BuilderInvariant'
  <2>1. built = None
    BY <1>8 DEF AddTzeInput, TakesCalls
  <2> QED BY <1>1, <1>2, <1>8, <2>1, TzeInputIsSound, CallsSign
<1>9. ASSUME builder.tx.version = ZFuture, NEW value \in Values, AddTzeOutput(value, 0)
      PROVE  BuilderInvariant'
  <2>1. built = None
    BY <1>9 DEF AddTzeOutput, TakesCalls
  <2> QED BY <1>1, <1>2, <1>9, <2>1, TzeOutputIsSound, CallsSign
<1>10. CASE BuildTransaction
  <2>1. builder' = builder
    BY <1>10 DEF BuildTransaction
  <2>2. BuilderIsSound'
    BY <1>1, <2>1 DEF BuilderIsSound
  <2>3. BindingKeyMatches'
    BY <1>1, <1>10, BuildSigns
  <2>4. CASE outcome' = "built"
    BY <1>1, <1>10, <2>2, <2>3, <2>4, BuildConserves DEF BuilderInvariant
  <2>5. CASE outcome' # "built"
    BY <2>2, <2>3, <2>5 DEF BuilderInvariant, Done
  <2> QED BY <2>4, <2>5
<1>11. CASE UNCHANGED builderVars
  BY <1>11 DEF builderVars, BuilderInvariant, BuilderIsSound, Done, Paid, Tx, ValueIsConserved,
               BuiltTransactionsVerify, VerifierAccepts, MetadataPointsHome, BindingKeyMatches
<1> QED BY <1>3, <1>4, <1>5, <1>6, <1>7, <1>8, <1>9, <1>10, <1>11 DEF BuilderNext

(* A built transaction spends what it pays: what its notes and coins bring in *)
(* is what its notes and outputs take away, and the fee, whatever calls       *)
(* were made before build and whatever the prover drew.                       *)
THEOREM ValueConserved ==
  BuilderSpec => []ValueIsConserved
<1>1. BuilderInit => BuilderInvariant
  BY InvariantInit
<1>2. BuilderInvariant /\ [BuilderNext]_builderVars => BuilderInvariant'
  BY InvariantStep
<1>3. BuilderInvariant => ValueIsConserved
  BY DEF BuilderInvariant, ValueIsConserved
<1> QED BY <1>1, <1>2, <1>3, PTL DEF BuilderSpec

(* Every built transaction verifies, under every shuffle of its descriptions, *)
(* and its metadata leads from each call to its description.                  *)
THEOREM BuiltVerify ==
  BuilderSpec => []BuiltTransactionsVerify
<1>1. BuilderInit => BuilderInvariant
  BY InvariantInit
<1>2. BuilderInvariant /\ [BuilderNext]_builderVars => BuilderInvariant'
  BY InvariantStep
<1>3. BuilderInvariant => BuiltTransactionsVerify
  BY DEF BuilderInvariant, BuiltTransactionsVerify, VerifierAccepts, MetadataPointsHome, BindingKeyMatches
<1> QED BY <1>1, <1>2, <1>3, PTL DEF BuilderSpec
==============================================================================
