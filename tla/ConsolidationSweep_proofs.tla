---------------------- MODULE ConsolidationSweep_proofs ----------------------
(* Batches never share a note, and what is selected suffices and is needed:   *)
(* proved for any notes, any number of transactions under way, every cap,     *)
(* window and expiry, and any number of lost answers, payments and deaths.    *)
EXTENDS ConsolidationSweep, FiniteSetTheorems, WellFoundedInduction, TLAPS

(* Every set of numbers has a least one, every set of finite sets a smallest. *)
LEMMA LeastNumber ==
  ASSUME NEW S, S \subseteq Nat, S # {}
  PROVE  \E n \in S : \A m \in S : n <= m
<1>1. PICK n \in S : \A m \in S : ~(<<m, n>> \in OpToRel(<, Nat))
  BY NatLessThanWellFounded, WFMin
<1>2. \A m \in S : ~(m < n)
  BY <1>1 DEF OpToRel
<1> QED BY <1>2

LEMMA SmallestSet ==
  ASSUME NEW F, F # {}, \A s \in F : IsFiniteSet(s)
  PROVE  \E s \in F : \A t \in F : Cardinality(s) <= Cardinality(t)
<1> DEFINE sizes == {Cardinality(s) : s \in F}
<1>1. sizes \subseteq Nat /\ sizes # {}
  BY FS_CardinalityType
<1>2. PICK n \in sizes : \A m \in sizes : n <= m
  BY <1>1, LeastNumber
<1>3. PICK s \in F : n = Cardinality(s)
  BY <1>2
<1> QED BY <1>2, <1>3

LEMMA WithoutOne ==
  ASSUME NEW S, IsFiniteSet(S), NEW x \in S
  PROVE  /\ IsFiniteSet(S \ {x}) /\ Cardinality(S \ {x}) = Cardinality(S) - 1
         /\ Cardinality(S) \in Nat /\ Cardinality(S \ {x}) \in Nat
BY FS_RemoveElement, FS_CardinalityType

-----------------------------------------------------------------------------
(* What a set of notes adds up to.                                            *)
Picked(s) == CHOOSE x \in s : TRUE
IsSum(f, S) ==
  \A s \in SUBSET S : f[s] = IF s = {} THEN 0 ELSE notes[Picked(s)].value + f[s \ {Picked(s)}]

LEMMA SumExists ==
  ASSUME NEW S, IsFiniteSet(S)
  PROVE  \E f : IsSum(f, S) /\ Total(S) = f[S]
<1> DEFINE Step(f, s) == IF s = {} THEN 0 ELSE notes[CHOOSE x \in s : TRUE].value + f[s \ {CHOOSE x \in s : TRUE}]
           Small(n) == {s \in SUBSET S : Cardinality(s) <= n}
           Is(f, n) == f = [s \in Small(n) |-> Step(f, s)]
           Bad == {n \in Nat : ~\E f : Is(f, n)}
<1>1. \A s \in SUBSET S : /\ IsFiniteSet(s) /\ Cardinality(s) \in Nat
                          /\ Cardinality(s) <= Cardinality(S) /\ Cardinality(S) \in Nat
                          /\ Cardinality(s) = 0 => s = {}
  BY FS_Subset, FS_CardinalityType, FS_EmptySet
<1>2. Bad = {}
  <2> SUFFICES ASSUME Bad # {} PROVE FALSE
    OBVIOUS
  <2>1. PICK n \in Bad : \A m \in Bad : n <= m
    BY LeastNumber
  <2>2. n # 0
    <3>1. Is([s \in Small(0) |-> 0], 0)
      <4>1. \A s \in Small(0) : s = {}
        BY <1>1
      <4> QED BY <4>1
    <3> QED BY <3>1
  <2>3. PICK f : Is(f, n - 1)
    <3>1. n \in Nat /\ n - 1 \in Nat /\ ~(n <= n - 1)
      BY <2>1, <2>2
    <3>2. n - 1 \notin Bad
      BY <2>1, <3>1
    <3> HIDE DEF Is
    <3> QED BY <3>1, <3>2
  <2> DEFINE g == [s \in Small(n) |-> IF s \in Small(n - 1) THEN f[s] ELSE Step(f, s)]
  <2>4. ASSUME NEW s \in Small(n)
        PROVE  g[s] = Step(g, s)
    <3>1. CASE s = {}
      <4>1. s \in Small(n - 1)
        BY <2>2, <3>1, FS_EmptySet
      <4> QED BY <2>3, <3>1, <4>1
    <3>2. CASE s # {}
      <4> DEFINE x == CHOOSE x \in s : TRUE
                 r == s \ {x}
      <4>1. x \in s
        BY <3>2
      <4>2. r \in Small(n - 1) /\ r \in Small(n)
        <5>1. r \in SUBSET S /\ Cardinality(r) = Cardinality(s) - 1 /\ Cardinality(s) \in Nat
          BY <1>1, <4>1, WithoutOne
        <5> QED BY <5>1
      <4>3. g[r] = f[r]
        BY <4>2
      <4>4. g[s] = Step(f, s)
        BY <2>3
      <4>5. Step(f, s) = notes[x].value + f[r] /\ Step(g, s) = notes[x].value + g[r]
        BY <3>2
      <4> QED BY <4>3, <4>4, <4>5
    <3> QED BY <3>1, <3>2
  <2>5. Is(g, n)
    <3>1. g = [s \in Small(n) |-> g[s]]
      OBVIOUS
    <3> HIDE DEF g, Small, Step
    <3> QED BY <2>4, <3>1
  <2> QED BY <2>5
<1>3. Small(Cardinality(S)) = SUBSET S
  BY <1>1
<1> DEFINE whole == CHOOSE f : f = [s \in SUBSET S |-> Step(f, s)]
<1>4. \E f : f = [s \in SUBSET S |-> Step(f, s)]
  <2>1. PICK f : Is(f, Cardinality(S))
    BY <1>1, <1>2
  <2> QED BY <1>3, <2>1
<1>5. whole = [s \in SUBSET S |-> Step(whole, s)]
  BY <1>4
<1>6. Total(S) = whole[S]
  BY DEF Total, MapThenSumSet, MapThenFoldSet
<1> HIDE DEF whole
<1>7. IsSum(whole, S)
  BY <1>5 DEF IsSum, Picked
<1> QED BY <1>6, <1>7

LEMMA SumIsUnique ==
  ASSUME NEW S, NEW T, NEW f, NEW g, IsSum(f, S), IsSum(g, T),
         NEW s, s \subseteq S, s \subseteq T, IsFiniteSet(s)
  PROVE  f[s] = g[s]
<1> DEFINE Bad == {t \in SUBSET s : f[t] # g[t]}
<1> SUFFICES ASSUME Bad # {} PROVE FALSE
  OBVIOUS
<1>1. \A t \in SUBSET s : IsFiniteSet(t)
  BY FS_Subset
<1>2. PICK t \in Bad : \A r \in Bad : Cardinality(t) <= Cardinality(r)
  BY <1>1, SmallestSet
<1>3. t \in SUBSET S /\ t \in SUBSET T
  BY <1>2
<1>4. f[t] = IF t = {} THEN 0 ELSE notes[Picked(t)].value + f[t \ {Picked(t)}]
  BY <1>3 DEF IsSum
<1>5. g[t] = IF t = {} THEN 0 ELSE notes[Picked(t)].value + g[t \ {Picked(t)}]
  BY <1>3 DEF IsSum
<1>6. t # {} /\ f[t \ {Picked(t)}] # g[t \ {Picked(t)}]
  BY <1>2, <1>4, <1>5
<1>7. Picked(t) \in t
  BY <1>6 DEF Picked
<1>8. t \ {Picked(t)} \in Bad
  BY <1>2, <1>6
<1>9. Cardinality(t \ {Picked(t)}) = Cardinality(t) - 1 /\ Cardinality(t) \in Nat
  BY <1>1, <1>2, <1>7, WithoutOne
<1> QED BY <1>2, <1>8, <1>9

LEMMA TotalIs ==
  ASSUME NEW S, IsFiniteSet(S)
  PROVE  Total(S) = IF S = {} THEN 0 ELSE notes[Picked(S)].value + Total(S \ {Picked(S)})
<1>1. PICK f : IsSum(f, S) /\ Total(S) = f[S]
  BY SumExists
<1>2. CASE S = {}
  BY <1>1, <1>2 DEF IsSum
<1>3. CASE S # {}
  <2> DEFINE R == S \ {Picked(S)}
  <2>1. IsFiniteSet(R)
    BY FS_Subset
  <2>2. PICK g : IsSum(g, R) /\ Total(R) = g[R]
    BY <2>1, SumExists
  <2>3. f[R] = g[R]
    BY <1>1, <2>1, <2>2, SumIsUnique
  <2>4. f[S] = notes[Picked(S)].value + f[R]
    BY <1>1, <1>3 DEF IsSum
  <2> QED BY <1>1, <1>3, <2>2, <2>3, <2>4
<1> QED BY <1>2, <1>3

LEMMA TotalIsNat ==
  ASSUME NEW S, IsFiniteSet(S), \A n \in S : notes[n].value \in Nat
  PROVE  Total(S) \in Nat
<1> DEFINE Bad == {t \in SUBSET S : Total(t) \notin Nat}
<1> SUFFICES ASSUME Bad # {} PROVE FALSE
  OBVIOUS
<1>1. \A t \in SUBSET S : IsFiniteSet(t)
  BY FS_Subset
<1>2. PICK t \in Bad : \A r \in Bad : Cardinality(t) <= Cardinality(r)
  BY <1>1, SmallestSet
<1>3. Total(t) = IF t = {} THEN 0 ELSE notes[Picked(t)].value + Total(t \ {Picked(t)})
  BY <1>1, <1>2, TotalIs
<1>4. t # {}
  BY <1>2, <1>3
<1>5. Picked(t) \in t
  BY <1>4 DEF Picked
<1>6. Cardinality(t \ {Picked(t)}) = Cardinality(t) - 1 /\ Cardinality(t) \in Nat
  BY <1>1, <1>2, <1>5, WithoutOne
<1>7. t \ {Picked(t)} \notin Bad
  BY <1>2, <1>6
<1>8. Total(t \ {Picked(t)}) \in Nat
  BY <1>2, <1>7
<1>9. notes[Picked(t)].value \in Nat
  BY <1>2, <1>5
<1> QED BY <1>2, <1>3, <1>4, <1>8, <1>9

(* In whatever order it is added up.                                          *)
LEMMA TotalAdds ==
  ASSUME NEW S, IsFiniteSet(S), \A n \in S : notes[n].value \in Nat, NEW x \in S
  PROVE  Total(S) = notes[x].value + Total(S \ {x})
<1> DEFINE Bad == {t \in SUBSET S : \E y \in t : Total(t) # notes[y].value + Total(t \ {y})}
<1> SUFFICES ASSUME Bad # {} PROVE FALSE
  OBVIOUS
<1>1. \A t \in SUBSET S : IsFiniteSet(t)
  BY FS_Subset
<1>2. PICK t \in Bad : \A r \in Bad : Cardinality(t) <= Cardinality(r)
  BY <1>1, SmallestSet
<1>3. PICK y \in t : Total(t) # notes[y].value + Total(t \ {y})
  BY <1>2
<1> DEFINE p == Picked(t)
<1>4. p \in t /\ Total(t) = notes[p].value + Total(t \ {p})
  <2>1. p \in t
    BY <1>3 DEF Picked
  <2> QED BY <1>1, <1>2, <1>3, <2>1, TotalIs
<1>5. p # y
  BY <1>3, <1>4
<1> HIDE DEF p
<1>6. ASSUME NEW z \in t
      PROVE  t \ {z} \in SUBSET S /\ t \ {z} \notin Bad
  <2>1. Cardinality(t \ {z}) = Cardinality(t) - 1 /\ Cardinality(t) \in Nat
    BY <1>1, <1>2, WithoutOne
  <2> QED BY <1>2, <2>1
<1>7. Total(t \ {p}) = notes[y].value + Total((t \ {p}) \ {y})
  BY <1>4, <1>5, <1>6
<1>8. Total(t \ {y}) = notes[p].value + Total((t \ {y}) \ {p})
  BY <1>4, <1>5, <1>6
<1>9. (t \ {p}) \ {y} = (t \ {y}) \ {p}
  OBVIOUS
<1> DEFINE rest == Total((t \ {y}) \ {p})
<1>10. rest \in Nat
  BY <1>1, <1>2, TotalIsNat
<1>11. notes[p].value \in Nat /\ notes[y].value \in Nat
  BY <1>2, <1>3, <1>4
<1>12. Total(t) = notes[p].value + (notes[y].value + rest)
  BY <1>4, <1>7, <1>9
<1>13. Total(t) # notes[y].value + (notes[p].value + rest)
  BY <1>3, <1>8
<1> HIDE DEF rest
<1> QED BY <1>10, <1>11, <1>12, <1>13

LEMMA TotalGrows ==
  ASSUME NEW S, IsFiniteSet(S), \A n \in S : notes[n].value \in Nat, NEW R \in SUBSET S
  PROVE  Total(R) <= Total(S)
<1> DEFINE Bad == {t \in SUBSET S : R \subseteq t /\ ~(Total(R) <= Total(t))}
<1> SUFFICES ASSUME Bad # {} PROVE FALSE
  OBVIOUS
<1>1. \A t \in SUBSET S : IsFiniteSet(t) /\ Total(t) \in Nat
  BY FS_Subset, TotalIsNat
<1>2. PICK t \in Bad : \A r \in Bad : Cardinality(t) <= Cardinality(r)
  BY <1>1, SmallestSet
<1>3. t # R
  BY <1>1, <1>2
<1>4. PICK x \in t : x \notin R
  BY <1>2, <1>3
<1>5. Total(t) = notes[x].value + Total(t \ {x})
  BY <1>1, <1>2, TotalAdds
<1>6. Cardinality(t \ {x}) = Cardinality(t) - 1 /\ Cardinality(t) \in Nat
  BY <1>1, <1>2, WithoutOne
<1>7. t \ {x} \notin Bad /\ t \ {x} \in SUBSET S /\ R \subseteq t \ {x}
  BY <1>2, <1>4, <1>6
<1>8. Total(R) <= Total(t \ {x})
  BY <1>7
<1>9. notes[x].value \in Nat /\ Total(R) \in Nat /\ Total(t \ {x}) \in Nat
  BY <1>1, <1>2, <1>7
<1> QED BY <1>2, <1>5, <1>8, <1>9

-----------------------------------------------------------------------------
(* A total order on a finite set, each element with those up to it.           *)
Orders(up, U) ==
  /\ IsFiniteSet(U) /\ \A n \in U : up[n] \subseteq U /\ n \in up[n]
  /\ \A n \in U : \A m \in up[n] : up[m] \subseteq up[n]
  /\ \A m, n \in U : m \in up[n] \/ n \in up[m]
  /\ \A m, n \in U : m \in up[n] /\ n \in up[m] => m = n

LEMMA LastOfThem ==
  ASSUME NEW up, NEW U, Orders(up, U), NEW S \in SUBSET U, S # {}
  PROVE  \E t \in S : S \subseteq up[t]
<1> DEFINE beyond == {U \ up[n] : n \in S}
<1>1. beyond # {} /\ \A s \in beyond : IsFiniteSet(s)
  <2>1. \A n \in S : IsFiniteSet(U \ up[n])
    BY FS_Subset DEF Orders
  <2> QED BY <2>1
<1>2. PICK s \in beyond : \A r \in beyond : Cardinality(s) <= Cardinality(r)
  BY <1>1, SmallestSet
<1>3. PICK t \in S : s = U \ up[t]
  BY <1>2
<1>4. ASSUME NEW m \in S, m \notin up[t]
      PROVE  FALSE
  <2>1. t \in up[m] /\ m \in up[m] /\ up[t] \subseteq up[m]
    BY <1>4 DEF Orders
  <2>2. U \ up[m] \subseteq (U \ up[t]) \ {m} /\ m \in U \ up[t]
    BY <1>4, <2>1
  <2>3. /\ IsFiniteSet((U \ up[t]) \ {m})
        /\ Cardinality((U \ up[t]) \ {m}) = Cardinality(U \ up[t]) - 1
        /\ Cardinality(U \ up[t]) \in Nat
    BY <1>1, <1>3, <2>2, WithoutOne
  <2>4. Cardinality(U \ up[m]) <= Cardinality((U \ up[t]) \ {m}) /\ Cardinality(U \ up[m]) \in Nat
    BY <2>2, <2>3, FS_Subset, FS_CardinalityType
  <2>5. Cardinality(U \ up[t]) <= Cardinality(U \ up[m])
    BY <1>2, <1>3
  <2> QED BY <2>3, <2>4, <2>5
<1> QED BY <1>4

LEMMA FirstOfThem ==
  ASSUME NEW up, NEW U, Orders(up, U), NEW S \in SUBSET U, S # {}
  PROVE  \E t \in S : \A m \in S : t \in up[m]
<1> DEFINE spans == {up[n] : n \in S}
<1>1. spans # {} /\ \A s \in spans : IsFiniteSet(s)
  BY FS_Subset DEF Orders
<1>2. PICK s \in spans : \A r \in spans : Cardinality(s) <= Cardinality(r)
  BY <1>1, SmallestSet
<1>3. PICK t \in S : s = up[t]
  BY <1>2
<1>4. ASSUME NEW m \in S, t \notin up[m]
      PROVE  FALSE
  <2>1. m \in up[t] /\ t \in up[t] /\ up[m] \subseteq up[t]
    BY <1>4 DEF Orders
  <2>2. up[m] \subseteq up[t] \ {t}
    BY <1>4, <2>1
  <2>3. /\ IsFiniteSet(up[t] \ {t}) /\ Cardinality(up[t] \ {t}) = Cardinality(up[t]) - 1
        /\ Cardinality(up[t]) \in Nat
    BY <1>1, <1>3, <2>1, WithoutOne
  <2>4. Cardinality(up[m]) <= Cardinality(up[t] \ {t}) /\ Cardinality(up[m]) \in Nat
    BY <2>2, <2>3, FS_Subset, FS_CardinalityType
  <2>5. Cardinality(up[t]) <= Cardinality(up[m])
    BY <1>2, <1>3
  <2> QED BY <2>3, <2>4, <2>5
<1> QED BY <1>4

(* The first so many of them.                                                 *)
LEMMA FirstOnes ==
  ASSUME NEW up, NEW U, Orders(up, U), NEW cap \in Nat,
         NEW first, first = {n \in U : Cardinality(up[n]) <= cap}
  PROVE  /\ IsFiniteSet(first) /\ \A n \in first : up[n] \subseteq first
         /\ Cardinality(first) <= cap
         /\ first # U => Cardinality(first) = cap
<1>1. \A n \in U : IsFiniteSet(up[n]) /\ Cardinality(up[n]) \in Nat
  BY FS_Subset, FS_CardinalityType DEF Orders
<1>2. IsFiniteSet(first) /\ Cardinality(first) \in Nat
  BY FS_Subset, FS_CardinalityType DEF Orders
<1>3. ASSUME NEW n \in first, NEW m \in up[n]
      PROVE  m \in first
  <2>1. n \in U /\ m \in U /\ up[m] \subseteq up[n]
    BY <1>3 DEF Orders
  <2>2. Cardinality(up[m]) <= Cardinality(up[n])
    BY <1>1, <2>1, FS_Subset
  <2> QED BY <1>1, <1>3, <2>1, <2>2
<1>4. Cardinality(first) <= cap
  <2>1. CASE first = {}
    BY <2>1, FS_EmptySet
  <2>2. CASE first # {}
    <3>1. PICK t \in first : first \subseteq up[t]
      BY <2>2, LastOfThem
    <3>2. Cardinality(first) <= Cardinality(up[t])
      BY <1>1, <3>1, FS_Subset
    <3> QED BY <1>1, <1>2, <3>1, <3>2
  <2> QED BY <2>1, <2>2
<1>5. ASSUME first # U
      PROVE  Cardinality(first) >= cap
  <2>1. U \ first # {} /\ U \ first \in SUBSET U
    BY <1>5
  <2>2. PICK r \in U \ first : \A m \in U \ first : r \in up[m]
    BY <2>1, FirstOfThem
  <2>3. up[r] \ {r} \subseteq first /\ r \in up[r]
    BY <2>2 DEF Orders
  <2>4. /\ Cardinality(up[r] \ {r}) = Cardinality(up[r]) - 1 /\ Cardinality(up[r]) \in Nat
        /\ ~(Cardinality(up[r]) <= cap)
    BY <1>1, <2>2, <2>3, WithoutOne
  <2>5. Cardinality(up[r] \ {r}) <= Cardinality(first)
    BY <1>2, <2>3, FS_Subset
  <2> QED BY <1>2, <2>4, <2>5
<1> QED BY <1>2, <1>3, <1>4, <1>5

-----------------------------------------------------------------------------
(* What the notes are.                                                        *)
Sound ==
  /\ IsFiniteSet(DOMAIN notes) /\ DOMAIN notes \subseteq Int
  /\ \A n \in DOMAIN notes : notes[n].value \in Nat
  /\ Fee \in Nat /\ MaxTxSpends \in Nat

LEMMA AnchorIsFinite ==
  ASSUME Sound
  PROVE  /\ IsFiniteSet(AtAnchor) /\ UnspentSaplingNotes \subseteq AtAnchor
         /\ AtAnchor \subseteq DOMAIN notes /\ AtAnchor \subseteq Int
         /\ \A n \in AtAnchor : notes[n].value \in Nat
  BY FS_Subset DEF Sound, AtAnchor, Unspent, UnspentSaplingNotes

(* Sums of some of them.                                                      *)
LEMMA SumsOf ==
  ASSUME Sound, NEW S \in SUBSET AtAnchor
  PROVE  /\ IsFiniteSet(S) /\ Cardinality(S) \in Nat /\ Total(S) \in Nat
         /\ S = {} => Total(S) = 0
         /\ \A R \in SUBSET S : Total(R) <= Total(S) /\ Total(R) \in Nat
         /\ \A x \in S : Total(S) = notes[x].value + Total(S \ {x}) /\ notes[x].value \in Nat
<1>1. IsFiniteSet(S) /\ \A n \in S : notes[n].value \in Nat
  BY AnchorIsFinite, FS_Subset
<1>2. Total(S) \in Nat /\ \A R \in SUBSET S : Total(R) <= Total(S)
  BY <1>1, TotalIsNat, TotalGrows
<1>3. \A R \in SUBSET S : Total(R) \in Nat
  <2> SUFFICES ASSUME NEW R \in SUBSET S PROVE Total(R) \in Nat
    OBVIOUS
  <2>1. IsFiniteSet(R) /\ \A n \in R : notes[n].value \in Nat
    BY <1>1, FS_Subset
  <2> QED BY <2>1, TotalIsNat
<1>4. \A x \in S : Total(S) = notes[x].value + Total(S \ {x})
  BY <1>1, TotalAdds
<1> QED BY <1>1, <1>2, <1>3, <1>4, TotalIs, FS_CardinalityType

(* The window orders them by value, the largest first.                        *)
Window == [n \in AtAnchor |-> UpTo(n)]
Largest == {n \in AtAnchor : Cardinality(UpTo(n)) <= MaxTxSpends}

LEMMA WindowOrders ==
  ASSUME Sound
  PROVE  Orders(Window, AtAnchor)
<1> DEFINE upto(n) == {m \in AtAnchor : m = n \/ notes[m].value > notes[n].value
                                        \/ (notes[m].value = notes[n].value /\ m < n)}
<1>1. \A n \in AtAnchor : Window[n] = upto(n)
  BY DEF Window, UpTo, Before
<1>2. \A n \in AtAnchor : n \in Int /\ notes[n].value \in Int
  BY AnchorIsFinite
<1>3. \A n \in AtAnchor : Window[n] \subseteq AtAnchor /\ n \in Window[n]
  BY <1>1
<1>4. \A n \in AtAnchor : \A m \in upto(n) : upto(m) \subseteq upto(n)
  BY <1>2
<1>5. \A m, n \in AtAnchor : m \in upto(n) \/ n \in upto(m)
  BY <1>2
<1>6. \A m, n \in AtAnchor : m \in upto(n) /\ n \in upto(m) => m = n
  BY <1>2
<1>7. \A n \in AtAnchor : \A m \in Window[n] : Window[m] \subseteq Window[n]
  BY <1>1, <1>3, <1>4
<1> HIDE DEF upto
<1> QED BY <1>1, <1>3, <1>5, <1>6, <1>7, AnchorIsFinite DEF Orders

LEMMA LargestAre ==
  ASSUME Sound
  PROVE  /\ Largest \subseteq AtAnchor /\ Cardinality(Largest) <= MaxTxSpends
         /\ Largest # AtAnchor => Cardinality(Largest) = MaxTxSpends
         /\ \A n \in Largest : UpTo(n) \subseteq Largest
         /\ \A n \in Largest, m \in AtAnchor \ Largest : notes[m].value <= notes[n].value
<1>1. Orders(Window, AtAnchor) /\ \A n \in AtAnchor : Window[n] = UpTo(n)
  BY WindowOrders DEF Window
<1>2. Largest = {n \in AtAnchor : Cardinality(Window[n]) <= MaxTxSpends}
  BY <1>1 DEF Largest
<1>3. MaxTxSpends \in Nat
  BY DEF Sound
<1>4. /\ \A n \in Largest : Window[n] \subseteq Largest
      /\ Cardinality(Largest) <= MaxTxSpends
      /\ Largest # AtAnchor => Cardinality(Largest) = MaxTxSpends
  BY <1>1, <1>2, <1>3, FirstOnes
<1>5. Largest \subseteq AtAnchor
  BY DEF Largest
<1>6. ASSUME NEW n \in Largest, NEW m \in AtAnchor \ Largest
      PROVE  notes[m].value <= notes[n].value
  <2>1. m \notin UpTo(n)
    BY <1>1, <1>4, <1>5
  <2>2. notes[m].value \in Int /\ notes[n].value \in Int
    BY <1>5, AnchorIsFinite
  <2> QED BY <2>1, <2>2 DEF UpTo, Before
<1> QED BY <1>1, <1>4, <1>5, <1>6

(* No set the window has room for is worth more than the largest notes.       *)
LEMMA BestAreFirst ==
  ASSUME Sound, NEW S \in SUBSET AtAnchor, Cardinality(S) <= MaxTxSpends
  PROVE  Total(S) <= Total(Largest)
<1> DEFINE Bad == {s \in SUBSET AtAnchor : Cardinality(s) <= MaxTxSpends /\ ~(Total(s) <= Total(Largest))}
           outside == {s \ Largest : s \in Bad}
<1> SUFFICES ASSUME Bad # {} PROVE FALSE
  OBVIOUS
<1>0. Largest \subseteq AtAnchor
  BY LargestAre
<1>1. outside # {} /\ \A s \in outside : IsFiniteSet(s)
  <2>1. \A s \in outside : s \in SUBSET AtAnchor
    OBVIOUS
  <2> QED BY <2>1, SumsOf
<1>2. PICK o \in outside : \A r \in outside : Cardinality(o) <= Cardinality(r)
  BY <1>1, SmallestSet
<1>3. PICK s \in Bad : o = s \ Largest
  BY <1>2
<1>4. /\ IsFiniteSet(s) /\ Cardinality(s) \in Nat /\ MaxTxSpends \in Nat
      /\ IsFiniteSet(Largest) /\ Cardinality(Largest) \in Nat
  BY <1>0, SumsOf DEF Sound
<1>5. ~(s \subseteq Largest)
  BY <1>0, SumsOf
<1>6. PICK x \in s : x \notin Largest
  BY <1>5
<1>7. Cardinality(Largest) = MaxTxSpends
  BY <1>6, LargestAre
<1>8. PICK y \in Largest : y \notin s
  <2>1. ASSUME Largest \subseteq s
        PROVE  FALSE
    <3>1. Largest \subseteq s \ {x}
      BY <1>6, <2>1
    <3>2. Cardinality(s \ {x}) = Cardinality(s) - 1 /\ IsFiniteSet(s \ {x})
      BY <1>4, WithoutOne
    <3>3. Cardinality(Largest) <= Cardinality(s \ {x})
      BY <3>1, <3>2, FS_Subset
    <3> QED BY <1>4, <1>7, <3>2, <3>3
  <2> QED BY <2>1
<1> DEFINE r == s \ {x}
           t == r \cup {y}
<1>9. /\ t \in SUBSET AtAnchor /\ r \in SUBSET AtAnchor /\ y \in t /\ y \notin r
      /\ t \ {y} = r /\ t \ Largest = o \ {x} /\ x \in o
  BY <1>0, <1>3, <1>6, <1>8
<1> HIDE DEF t, r
<1>10. Cardinality(t) = Cardinality(s)
  <2>1. Cardinality(r) = Cardinality(s) - 1
    BY <1>4, WithoutOne DEF r
  <2>2. Cardinality(r) = Cardinality(t) - 1 /\ Cardinality(t) \in Nat
    BY <1>9, SumsOf, WithoutOne
  <2> QED BY <1>4, <2>1, <2>2
<1>11. Total(s) <= Total(t)
  <2>1. Total(s) = notes[x].value + Total(r) /\ notes[x].value \in Nat
    BY SumsOf DEF r
  <2>2. Total(t) = notes[y].value + Total(r) /\ notes[y].value \in Nat
    BY <1>9, SumsOf
  <2>3. notes[x].value <= notes[y].value
    BY <1>6, LargestAre
  <2>4. Total(r) \in Nat
    BY <1>9, SumsOf
  <2> QED BY <2>1, <2>2, <2>3, <2>4
<1>12. Total(s) \in Nat /\ Total(t) \in Nat /\ Total(Largest) \in Nat
  BY <1>0, <1>9, SumsOf
<1>13. t \in Bad
  BY <1>9, <1>10, <1>11, <1>12
<1>14. o \ {x} \in outside
  BY <1>9, <1>13
<1>15. Cardinality(o \ {x}) = Cardinality(o) - 1 /\ Cardinality(o) \in Nat
  BY <1>1, <1>2, <1>9, WithoutOne
<1> QED BY <1>2, <1>14, <1>15

-----------------------------------------------------------------------------
(* A batch of the sweep is the first of the order by value, smallest first.   *)
UpToSmaller(n) == {m \in UnspentSaplingNotes :
                     \/ notes[m].value < notes[n].value
                     \/ notes[m].value = notes[n].value /\ m <= n}
Ascending == [n \in UnspentSaplingNotes |-> UpToSmaller(n)]

LEMMA AscendingOrders ==
  ASSUME Sound
  PROVE  Orders(Ascending, UnspentSaplingNotes)
<1> DEFINE upto(n) == {m \in UnspentSaplingNotes :
                         notes[m].value < notes[n].value
                         \/ (notes[m].value = notes[n].value /\ m <= n)}
<1>1. \A n \in UnspentSaplingNotes : Ascending[n] = upto(n)
  BY DEF Ascending, UpToSmaller
<1>2. /\ IsFiniteSet(UnspentSaplingNotes)
      /\ \A n \in UnspentSaplingNotes : n \in Int /\ notes[n].value \in Int
  BY AnchorIsFinite, FS_Subset
<1>3. \A n \in UnspentSaplingNotes : Ascending[n] \subseteq UnspentSaplingNotes /\ n \in Ascending[n]
  BY <1>1, <1>2
<1>4. \A n \in UnspentSaplingNotes : \A m \in upto(n) : upto(m) \subseteq upto(n)
  BY <1>2
<1>5. \A m, n \in UnspentSaplingNotes : m \in upto(n) \/ n \in upto(m)
  BY <1>2
<1>6. \A m, n \in UnspentSaplingNotes : m \in upto(n) /\ n \in upto(m) => m = n
  BY <1>2
<1>7. \A n \in UnspentSaplingNotes : \A m \in Ascending[n] : Ascending[m] \subseteq Ascending[n]
  BY <1>1, <1>3, <1>4
<1> HIDE DEF upto
<1> QED BY <1>1, <1>2, <1>3, <1>5, <1>6, <1>7 DEF Orders

LEMMA BatchIsSmallest ==
  ASSUME Sound, NEW cap \in 2 .. MaxTxSpends + 1, ConsolidateNotes(cap) # {}
  PROVE  LET batch == ConsolidateNotes(cap)
             left == UnspentSaplingNotes \ batch
         IN  /\ Cardinality(batch) \in 2 .. cap
             /\ left # {} => Cardinality(batch) = cap
             /\ \A n \in batch, m \in left : notes[n].value <= notes[m].value
<1> DEFINE batch == ConsolidateNotes(cap)
           smallest == {n \in UnspentSaplingNotes : Cardinality(Ascending[n]) <= cap}
<1>1. Orders(Ascending, UnspentSaplingNotes)
      /\ \A n \in UnspentSaplingNotes : Ascending[n] = UpToSmaller(n)
  BY AscendingOrders DEF Ascending
<1>2. cap \in Nat /\ cap >= 2 /\ (IF cap > 2 THEN cap ELSE 2) = cap
  BY DEF Sound
<1>3. batch = smallest /\ ~(Cardinality(UnspentSaplingNotes) < 2)
  <2> DEFINE few == IF cap > 2 THEN cap ELSE 2
             least == {n \in UnspentSaplingNotes : Cardinality(UpToSmaller(n)) <= few}
  <2>1. batch = IF Cardinality(UnspentSaplingNotes) < 2 \/ Total(least) <= Fee THEN {} ELSE least
    BY DEF ConsolidateNotes, UpToSmaller
  <2>2. least = smallest
    BY <1>1, <1>2
  <2> HIDE DEF least, batch
  <2> QED BY <2>1, <2>2 DEF batch
<1> HIDE DEF smallest
<1>4. /\ \A n \in smallest : Ascending[n] \subseteq smallest
      /\ Cardinality(smallest) <= cap /\ IsFiniteSet(smallest)
      /\ smallest # UnspentSaplingNotes => Cardinality(smallest) = cap
  <2>1. smallest = {n \in UnspentSaplingNotes : Cardinality(Ascending[n]) <= cap}
    BY DEF smallest
  <2>2. Orders(Ascending, UnspentSaplingNotes) /\ cap \in Nat
    BY <1>1, <1>2
  <2>3. /\ IsFiniteSet(smallest) /\ \A n \in smallest : Ascending[n] \subseteq smallest
        /\ Cardinality(smallest) <= cap
        /\ smallest # UnspentSaplingNotes => Cardinality(smallest) = cap
    BY <2>1, <2>2, FirstOnes
  <2> QED BY <2>3
<1>5. Cardinality(UnspentSaplingNotes) \in Nat /\ Cardinality(smallest) \in Nat
  BY <1>1, <1>4, FS_CardinalityType DEF Orders
<1>6. Cardinality(smallest) >= 2
  BY <1>2, <1>3, <1>4, <1>5
<1>7. ASSUME NEW n \in smallest, NEW m \in UnspentSaplingNotes \ smallest
      PROVE  notes[n].value <= notes[m].value
  <2>1. n \in UnspentSaplingNotes
    BY DEF smallest
  <2>2. m \notin UpToSmaller(n)
    BY <1>1, <1>4, <2>1
  <2>3. notes[m].value \in Int /\ notes[n].value \in Int
    BY <2>1, AnchorIsFinite
  <2> QED BY <2>2, <2>3 DEF UpToSmaller
<1> HIDE DEF batch
<1>8. /\ Cardinality(batch) \in 2 .. cap
      /\ UnspentSaplingNotes \ batch # {} => Cardinality(batch) = cap
      /\ \A n \in batch, m \in UnspentSaplingNotes \ batch : notes[n].value <= notes[m].value
  BY <1>2, <1>3, <1>4, <1>5, <1>6, <1>7
<1> QED BY <1>8, Zenon DEF batch

-----------------------------------------------------------------------------
(* What a payment selects, of the window.                                     *)
Below(target) == {n \in Largest : Total(UpTo(n)) < target}
Reaches(target) == {n \in Largest \ Below(target) :
                      \A m \in Largest \ Below(target) : n = m \/ Before(n, m)}

LEMMA SelectionIs ==
  ASSUME NEW target
  PROVE  SelectUnspentSaplingNotes(target)
           = {n \in Below(target) \cup Reaches(target) : notes[n].witnessed}
  BY DEF SelectUnspentSaplingNotes, Below, Reaches, Largest

(* The notes below the target do not reach it; one more does.                 *)
LEMMA SelectionReaches ==
  ASSUME Sound, NEW target \in Nat, target > 0
  PROVE  /\ Below(target) \subseteq Largest /\ Reaches(target) \subseteq Largest
         /\ Below(target) = Largest \/ \E r \in Largest \ Below(target) :
                                         /\ Reaches(target) = {r}
                                         /\ Total(Below(target) \cup {r}) >= target
                                         /\ \A n \in Below(target) : notes[r].value <= notes[n].value
         /\ Total(Below(target)) < target
<1> DEFINE below == Below(target)
           beyond == Largest \ below
<1>0. /\ Largest \subseteq AtAnchor /\ \A n \in Largest : UpTo(n) \subseteq Largest
      /\ Orders(Window, AtAnchor) /\ \A n \in AtAnchor : Window[n] = UpTo(n)
  BY LargestAre, WindowOrders DEF Window
<1>1. below \subseteq Largest /\ Reaches(target) \subseteq Largest
  BY DEF Below, Reaches
<1>2. \A n \in Largest : n \in below <=> Total(UpTo(n)) < target
  BY DEF Below
<1>3. Total(below) < target
  <2>1. CASE below = {}
    BY <2>1, SumsOf
  <2>2. CASE below # {}
    <3>1. PICK t \in below : below \subseteq UpTo(t)
      <4>1. below \in SUBSET AtAnchor
        BY <1>0, <1>1
      <4>2. PICK t \in below : below \subseteq Window[t]
        BY <1>0, <2>2, <4>1, LastOfThem
      <4> QED BY <1>0, <4>1, <4>2
    <3>2. UpTo(t) \in SUBSET AtAnchor /\ t \in Largest
      BY <1>0, <1>1
    <3>3. Total(below) <= Total(UpTo(t)) /\ Total(UpTo(t)) \in Nat /\ Total(below) \in Nat
      BY <3>1, <3>2, SumsOf
    <3> QED BY <1>2, <3>1, <3>2, <3>3
  <2> QED BY <2>1, <2>2
<1>4. CASE below # Largest
  <2>1. beyond # {} /\ beyond \in SUBSET AtAnchor
    BY <1>0, <1>1, <1>4
  <2>2. PICK r \in beyond : \A m \in beyond : r \in Window[m]
    BY <1>0, <2>1, FirstOfThem
  <2>3. \A m \in beyond : r = m \/ Before(r, m)
    BY <1>0, <2>1, <2>2 DEF UpTo
  <2>4. Reaches(target) = {r}
    <3>1. r \in Reaches(target)
      BY <2>3 DEF Reaches
    <3>2. ASSUME NEW m \in Reaches(target)
          PROVE  m = r
      <4>1. m \in beyond /\ (m = r \/ Before(m, r))
        BY <2>2 DEF Reaches
      <4>2. m \in Window[r] /\ r \in Window[m]
        BY <1>0, <2>1, <2>2, <4>1 DEF UpTo
      <4> QED BY <1>0, <2>1, <4>1, <4>2 DEF Orders
    <3> QED BY <3>1, <3>2
  <2>5. UpTo(r) \subseteq below \cup {r}
    <3> SUFFICES ASSUME NEW m \in UpTo(r), m \notin below, m # r PROVE FALSE
      OBVIOUS
    <3>1. m \in beyond
      BY <1>0
    <3>2. m \in Window[r] /\ r \in Window[m]
      BY <1>0, <2>1, <2>2
    <3> QED BY <1>0, <2>1, <3>1, <3>2 DEF Orders
  <2>6. Total(below \cup {r}) >= target
    <3>1. below \cup {r} \in SUBSET AtAnchor /\ UpTo(r) \in SUBSET AtAnchor
      BY <1>0, <1>1
    <3>2. Total(UpTo(r)) <= Total(below \cup {r}) /\ Total(UpTo(r)) \in Nat /\ Total(below \cup {r}) \in Nat
      BY <2>5, <3>1, SumsOf
    <3>3. ~(Total(UpTo(r)) < target)
      BY <1>2
    <3> QED BY <3>2, <3>3
  <2>7. ASSUME NEW n \in below
        PROVE  notes[r].value <= notes[n].value
    <3>1. n \in AtAnchor /\ r \in AtAnchor /\ n \in Largest /\ r \in Largest
      BY <1>0, <1>1
    <3>2. ASSUME r \in UpTo(n)
          PROVE  FALSE
      <4>1. UpTo(r) \subseteq UpTo(n) /\ UpTo(n) \in SUBSET AtAnchor
        BY <1>0, <3>1, <3>2 DEF Orders
      <4>2. Total(UpTo(r)) <= Total(UpTo(n)) /\ Total(UpTo(r)) \in Nat /\ Total(UpTo(n)) \in Nat
        BY <4>1, SumsOf
      <4> QED BY <1>2, <3>1, <4>2
    <3>3. notes[r].value \in Int /\ notes[n].value \in Int
      BY <3>1, AnchorIsFinite
    <3> QED BY <3>1, <3>2, <3>3 DEF UpTo, Before
  <2> QED BY <1>1, <1>3, <2>2, <2>4, <2>6, <2>7
<1> QED BY <1>1, <1>3, <1>4

(* A payment the six largest can make is made, and needs all it selects.      *)
LEMMA PaymentIsMade ==
  ASSUME Sound, NEW amount \in Nat, amount > 0
  PROVE  LET selected == Spend(amount)
             six == {S \in SUBSET AtAnchor : Cardinality(S) <= MaxTxSpends}
             payable == \E S \in six : Total(S) >= amount + Fee
         IN  IF selected = {}
             THEN payable => \E n \in Largest : ~notes[n].witnessed
             ELSE /\ payable
                  /\ selected \in six /\ selected \subseteq UnspentSaplingNotes
                  /\ \A n \in selected : Total(selected \ {n}) < amount + Fee
<1> DEFINE target == amount + Fee
           below == Below(target)
           found == {n \in below \cup Reaches(target) : notes[n].witnessed}
           selected == Spend(amount)
           six == {S \in SUBSET AtAnchor : Cardinality(S) <= MaxTxSpends}
           payable == \E S \in six : Total(S) >= target
<1> SUFFICES IF selected = {}
             THEN payable => \E n \in Largest : ~notes[n].witnessed
             ELSE /\ payable
                  /\ selected \in six /\ selected \subseteq UnspentSaplingNotes
                  /\ \A n \in selected : Total(selected \ {n}) < target
  BY Zenon
<1>1. target \in Nat /\ target > 0
  BY DEF Sound
<1>2. selected = IF Total(found) < target THEN {} ELSE found
  BY SelectionIs DEF Spend
<1> HIDE DEF target
<1>3. /\ below \subseteq Largest /\ Reaches(target) \subseteq Largest
      /\ below = Largest \/ \E r \in Largest \ below :
                              /\ Reaches(target) = {r}
                              /\ Total(below \cup {r}) >= target
                              /\ \A n \in below : notes[r].value <= notes[n].value
      /\ Total(below) < target
  BY <1>1, SelectionReaches
<1>4. /\ Largest \subseteq AtAnchor /\ Cardinality(Largest) <= MaxTxSpends
      /\ Total(Largest) \in Nat /\ Total(below) \in Nat /\ Total({}) = 0
      /\ IsFiniteSet(Largest) /\ Cardinality(Largest) \in Nat /\ MaxTxSpends \in Nat
  BY <1>3, LargestAre, SumsOf DEF Sound
<1>5. found \in SUBSET Largest /\ found \in SUBSET AtAnchor /\ Total(found) \in Nat
  <2>1. found \in SUBSET Largest
    BY <1>3
  <2> HIDE DEF found
  <2> QED BY <1>4, <2>1, SumsOf
<1>6. CASE selected = {}
  <2> SUFFICES ASSUME payable, \A n \in Largest : notes[n].witnessed PROVE FALSE
    BY <1>6
  <2>1. PICK S \in six : Total(S) >= target
    OBVIOUS
  <2>2. Total(S) <= Total(Largest) /\ Total(S) \in Nat
    BY BestAreFirst, SumsOf
  <2>3. Total(found) < target
    <3>1. found = {} => Total(found) = 0
      BY <1>4
    <3> HIDE DEF found
    <3> QED BY <1>1, <1>2, <1>6, <3>1
  <2>4. below # Largest
    BY <1>1, <1>3, <1>4, <2>1, <2>2
  <2>5. PICK r \in Largest \ below : Reaches(target) = {r} /\ Total(below \cup {r}) >= target
    BY <1>3, <2>4
  <2>6. found = below \cup {r}
    BY <1>3, <2>5
  <2> HIDE DEF found
  <2> QED BY <1>1, <1>5, <2>3, <2>5, <2>6
<1>7. CASE selected # {}
  <2>1. selected = found /\ Total(found) >= target
    BY <1>1, <1>2, <1>5, <1>7
  <2>2. found \in six /\ found \subseteq UnspentSaplingNotes
    <3>1. Cardinality(found) <= Cardinality(Largest) /\ Cardinality(found) \in Nat
      BY <1>4, <1>5, FS_Subset, FS_CardinalityType
    <3>2. found \in six
      <4> HIDE DEF found
      <4> QED BY <1>4, <1>5, <3>1
    <3> QED BY <1>5, <3>2 DEF UnspentSaplingNotes
  <2>3. PICK r \in Largest \ below : Reaches(target) = {r}
                                     /\ \A n \in below : notes[r].value <= notes[n].value
    <3>1. ASSUME below = Largest
          PROVE  FALSE
      <4>1. below \in SUBSET AtAnchor /\ found \in SUBSET below
        BY <1>4, <1>5, <3>1
      <4> HIDE DEF found, below
      <4>2. Total(found) <= Total(below)
        BY <4>1, SumsOf
      <4> QED BY <1>1, <1>3, <1>4, <1>5, <2>1, <4>2
    <3> QED BY <1>3, <3>1
  <2>4. found \subseteq below \cup {r} /\ below \in SUBSET AtAnchor /\ r \in AtAnchor
    BY <1>3, <1>4, <2>3
  <2> HIDE DEF found, below
  <2>5. \A R \in SUBSET below : Total(R) < target
    <3> SUFFICES ASSUME NEW R \in SUBSET below PROVE Total(R) < target
      OBVIOUS
    <3>1. Total(R) <= Total(below) /\ Total(R) \in Nat
      BY <2>4, SumsOf
    <3> QED BY <1>1, <1>3, <1>4, <3>1
  <2>6. r \in found
    <3>1. ASSUME r \notin found
          PROVE  FALSE
      <4>1. found \in SUBSET below
        BY <2>4, <3>1
      <4> QED BY <1>1, <1>5, <2>1, <2>5, <4>1
    <3> QED BY <3>1
  <2>7. ASSUME NEW n \in found
        PROVE  Total(found \ {n}) < target
    <3>1. CASE n = r
      <4>1. found \ {n} \in SUBSET below
        BY <2>4, <3>1
      <4> QED BY <2>5, <4>1
    <3>2. CASE n # r
      <4> DEFINE rest == (found \ {n}) \ {r}
                 others == found \ {r}
      <4>1. /\ n \in below /\ others \in SUBSET below /\ n \in others
            /\ others \ {n} = rest /\ r \in found \ {n}
            /\ others \in SUBSET AtAnchor /\ found \ {n} \in SUBSET AtAnchor
            /\ rest \in SUBSET AtAnchor
        BY <1>5, <2>4, <2>6, <3>2
      <4>2. Total(found \ {n}) = notes[r].value + Total(rest)
        BY <4>1, SumsOf
      <4>3. Total(others) = notes[n].value + Total(rest)
        <5> HIDE DEF rest, others
        <5> QED BY <4>1, SumsOf
      <4>4. Total(others) < target /\ Total(rest) \in Nat
        BY <2>5, <4>1, SumsOf
      <4>5. notes[r].value <= notes[n].value /\ notes[n].value \in Nat /\ notes[r].value \in Nat
        BY <2>3, <2>4, <4>1, AnchorIsFinite
      <4> HIDE DEF rest, others
      <4> QED BY <1>1, <4>2, <4>3, <4>4, <4>5
    <3> QED BY <3>1, <3>2
  <2>8. payable
    BY <2>1, <2>2
  <2> HIDE DEF six, payable
  <2> QED BY <1>7, <2>1, <2>2, <2>7, <2>8
<1> HIDE DEF six, payable, selected, below, found
<1> QED BY <1>6, <1>7

LEMMA SelectsWhatItNeeds ==
  ASSUME Sound
  PROVE  SpendsUpToSixNotes
<1>1. Total(UnspentSaplingNotes) \in Nat
  BY AnchorIsFinite, SumsOf
<1>2. \A amount \in 1 .. VerifiedBalance : amount \in Nat /\ amount > 0
  BY <1>1 DEF VerifiedBalance
<1>3. ASSUME NEW amount \in 1 .. VerifiedBalance
      PROVE  LET selected == Spend(amount)
                 six == {S \in SUBSET AtAnchor : Cardinality(S) <= MaxTxSpends}
                 payable == \E S \in six : Total(S) >= amount + Fee
                 largest == {n \in AtAnchor : Cardinality(UpTo(n)) <= MaxTxSpends}
             IN  IF selected = {}
                 THEN payable => \E n \in largest : ~notes[n].witnessed
                 ELSE /\ payable
                      /\ selected \in six /\ selected \subseteq UnspentSaplingNotes
                      /\ \A n \in selected : Total(selected \ {n}) < amount + Fee
  <2>1. amount \in Nat /\ amount > 0
    BY <1>2
  <2>2. LET selected == Spend(amount)
            six == {S \in SUBSET AtAnchor : Cardinality(S) <= MaxTxSpends}
            payable == \E S \in six : Total(S) >= amount + Fee
        IN  IF selected = {}
            THEN payable => \E n \in Largest : ~notes[n].witnessed
            ELSE /\ payable
                 /\ selected \in six /\ selected \subseteq UnspentSaplingNotes
                 /\ \A n \in selected : Total(selected \ {n}) < amount + Fee
    BY <2>1, PaymentIsMade
  <2> QED BY <2>2, Zenon DEF Largest
<1> QED BY <1>3, BatchIsSmallest, Zenon DEF SpendsUpToSixNotes

-----------------------------------------------------------------------------
(* The sweep.                                                                 *)
USE SweepAssumption DEF SweepAssumption

(* A transaction and a note have their fields, whatever is in them.           *)
IsTransaction(x) ==
  /\ x = <<[inputs |-> x[1].inputs, back |-> x[1].back, accepted |-> x[1].accepted,
            ttl |-> x[1].ttl, row |-> x[1].row]>>
  /\ IsFiniteSet(x[1].inputs) /\ x[1].ttl \in Int /\ x[1].back \in Int
IsNote(x) ==
  /\ x = [value |-> x.value, age |-> x.age, spent |-> x.spent, witnessed |-> x.witnessed]
  /\ x.value \in Nat
IsSweep(x) ==
  /\ x = [phase |-> x.phase, inflight |-> x.inflight, idle |-> x.idle,
          failures |-> x.failures, batch |-> x.batch]
  /\ IsFiniteSet(x.inflight)

WellFormed ==
  /\ notes = [n \in DOMAIN notes |-> notes[n]] /\ IsFiniteSet(DOMAIN notes)
  /\ DOMAIN notes \subseteq Nat /\ \A n \in DOMAIN notes : IsNote(notes[n])
  /\ txs = [t \in Slots |-> txs[t]]
  /\ \A t \in Slots : txs[t] # << >> => IsTransaction(txs[t])
  /\ IsSweep(sweep)

(* The window has room for the batch that is being submitted.                 *)
WindowHolds ==
  /\ Cardinality(sweep.inflight) <= MaxInFlight
  /\ sweep.phase = "submit" => Cardinality(sweep.inflight) < MaxInFlight

(* It is built and nobody has touched its row.                                *)
BatchAwaitsSubmission ==
  sweep.phase = "submit" =>
    /\ sweep.batch \in Slots /\ txs[sweep.batch] # << >>
    /\ Tx(sweep.batch).row = "created" /\ Tx(sweep.batch).accepted = FALSE

(* What has not been given up is locked for its transaction alone.            *)
LiveIsLocked ==
  \A t \in Slots : Live(t) =>
    /\ \A n \in Tx(t).inputs \cap DOMAIN notes : notes[n].spent = t
    /\ \A u \in Slots \ {t} : Live(u) => Tx(t).inputs \cap Tx(u).inputs = {}

Inv == WellFormed /\ WindowHolds /\ BatchAwaitsSubmission /\ LiveIsLocked

-----------------------------------------------------------------------------
(* What is selected is unspent.                                               *)
LEMMA BatchIsUnspent == ConsolidateNotes(MaxInputs) \subseteq Unspent
  BY DEF ConsolidateNotes, UnspentSaplingNotes, AtAnchor

LEMMA PaymentIsUnspent == Spend(PaymentAmount) \subseteq Unspent
  BY DEF Spend, SelectUnspentSaplingNotes, AtAnchor

LEMMA WellFormedIsSound == WellFormed => Sound
  BY DEF WellFormed, Sound, IsNote

LEMMA TotalsAreNumbers ==
  ASSUME WellFormed
  PROVE  Total(ConsolidateNotes(MaxInputs)) \in Int /\ Total(Spend(PaymentAmount)) \in Int
<1>1. /\ ConsolidateNotes(MaxInputs) \in SUBSET AtAnchor
      /\ Spend(PaymentAmount) \in SUBSET AtAnchor
  BY DEF ConsolidateNotes, UnspentSaplingNotes, Spend, SelectUnspentSaplingNotes
<1> QED BY <1>1, WellFormedIsSound, SumsOf

(* An id is always free.                                                      *)
LEMMA SomeIdIsFree ==
  ASSUME NEW S, IsFiniteSet(S)
  PROVE  \E n \in 1 .. Cardinality(S) + 1 : n \notin S
<1>1. Cardinality(S) \in Nat
  BY FS_CardinalityType
<1>2. Cardinality(1 .. Cardinality(S) + 1) = Cardinality(S) + 1
  BY <1>1, FS_Interval
<1>3. ASSUME 1 .. Cardinality(S) + 1 \subseteq S
      PROVE  FALSE
  BY <1>1, <1>2, <1>3, FS_Subset
<1> QED BY <1>3

LEMMA TakenIsFinite ==
  ASSUME WellFormed
  PROVE  IsFiniteSet(Taken)
<1> DEFINE built == {t \in Slots : txs[t] # << >>}
           f == [t \in built |-> Tx(t).inputs]
<1>1. IsFiniteSet(built)
  BY FS_Subset
<1>2. f \in Surjection(built, {Tx(t).inputs : t \in built})
  BY DEF Surjection
<1>3. IsFiniteSet({Tx(t).inputs : t \in built})
  BY <1>1, <1>2, FS_Surjection
<1>4. \A S \in {Tx(t).inputs : t \in built} : IsFiniteSet(S)
  BY DEF WellFormed, IsTransaction, Tx
<1>5. IsFiniteSet(UNION {Tx(t).inputs : t \in built})
  BY <1>3, <1>4, FS_UNION
<1> QED BY <1>5, FS_Union DEF Taken, WellFormed

LEMMA FreeNoteIsFree ==
  ASSUME WellFormed
  PROVE  FreeNote \notin Taken /\ FreeNote \in Nat
<1>1. FreeNote \in 1 .. Cardinality(Taken) + 1 /\ FreeNote \notin Taken
  BY TakenIsFinite, SomeIdIsFree DEF FreeNote
<1>2. Cardinality(Taken) \in Nat
  BY TakenIsFinite, FS_CardinalityType
<1> QED BY <1>1, <1>2

-----------------------------------------------------------------------------
(* Building a transaction locks its notes: of a batch or of a payment.        *)
LEMMA Builds ==
  ASSUME WellFormed, LiveIsLocked,
         NEW inputs \in SUBSET Unspent, NEW t \in Slots, txs[t] = << >>,
         NEW back \in Int, NEW accepted, NEW row,
         notes' = [n \in DOMAIN notes |->
                     IF n \in inputs THEN [notes[n] EXCEPT !.spent = t] ELSE notes[n]],
         txs' = [txs EXCEPT ![t] = <<[inputs |-> inputs, back |-> back, accepted |-> accepted,
                                      ttl |-> ExpiryDelta, row |-> row]>>],
         IsSweep(sweep')
  PROVE  /\ WellFormed' /\ LiveIsLocked'
         /\ Tx(t)' = [inputs |-> inputs, back |-> back, accepted |-> accepted,
                      ttl |-> ExpiryDelta, row |-> row]
         /\ txs'[t] # << >>
         /\ \A u \in Slots \ {t} : txs'[u] = txs[u]
<1>1. IsFiniteSet(inputs)
  BY FS_Subset DEF Unspent, WellFormed
<1>2. /\ txs' = [u \in Slots |-> txs'[u]]
      /\ txs'[t] = <<[inputs |-> inputs, back |-> back, accepted |-> accepted,
                      ttl |-> ExpiryDelta, row |-> row]>>
      /\ \A u \in Slots \ {t} : txs'[u] = txs[u]
  BY DEF WellFormed
<1>3. DOMAIN notes' = DOMAIN notes /\ notes' = [n \in DOMAIN notes' |-> notes'[n]]
  OBVIOUS
<1>4. \A n \in DOMAIN notes :
        /\ IsNote(notes'[n])
        /\ n \in inputs => notes'[n].spent = t /\ notes[n].spent = None
        /\ n \notin inputs => notes'[n].spent = notes[n].spent
  BY DEF WellFormed, IsNote, Unspent
<1>5. WellFormed'
  BY <1>1, <1>2, <1>3, <1>4 DEF WellFormed, IsTransaction
<1>6. \A u \in Slots \ {t} : /\ Live(u)' => Live(u)
                             /\ Tx(u)' = Tx(u)
  BY <1>2 DEF Live, Tx
<1>7. Tx(t)'.inputs = inputs
  BY <1>2 DEF Tx
<1>8. ASSUME NEW u \in Slots \ {t}, Live(u)
      PROVE  Tx(u).inputs \cap inputs = {}
  BY <1>8 DEF LiveIsLocked, Unspent
<1>9. LiveIsLocked'
  <2> SUFFICES ASSUME NEW u \in Slots, Live(u)'
               PROVE  /\ \A n \in Tx(u)'.inputs \cap DOMAIN notes' : notes'[n].spent = u
                      /\ \A v \in Slots \ {u} : Live(v)' => Tx(u)'.inputs \cap Tx(v)'.inputs = {}
    BY DEF LiveIsLocked
  <2>1. CASE u = t
    BY <2>1, <1>3, <1>4, <1>6, <1>7, <1>8
  <2>2. CASE u # t
    BY <2>2, <1>3, <1>4, <1>6, <1>7, <1>8 DEF LiveIsLocked
  <2> QED BY <2>1, <2>2
<1> QED BY <1>2, <1>5, <1>9 DEF Tx

(* Giving one up frees its notes and no other's.                              *)
LEMMA GivesUp ==
  ASSUME WellFormed, LiveIsLocked, NEW t \in Slots,
         notes' = Unlock(t) \/ notes' = notes,
         txs' = [u \in Slots |-> txs'[u]],
         \A u \in Slots \ {t} : txs'[u] = txs[u],
         txs'[t] # << >> => IsTransaction(txs'[t]),
         ~Live(t)',
         IsSweep(sweep')
  PROVE  WellFormed' /\ LiveIsLocked'
<1>1. DOMAIN notes' = DOMAIN notes /\ notes' = [n \in DOMAIN notes' |-> notes'[n]]
  BY DEF Unlock, WellFormed
<1>2. \A n \in DOMAIN notes :
        /\ IsNote(notes'[n])
        /\ notes[n].spent # t => notes'[n].spent = notes[n].spent
  BY DEF Unlock, WellFormed, IsNote
<1>3. WellFormed'
  BY <1>1, <1>2 DEF WellFormed
<1>4. \A u \in Slots : Live(u)' => u # t /\ Live(u) /\ Tx(u)' = Tx(u)
  BY DEF Live, Tx
<1> QED BY <1>1, <1>2, <1>3, <1>4 DEF LiveIsLocked

(* The coroutine steps alone: the transactions stay as they are.              *)
LEMMA OnlyTheSweepSteps ==
  ASSUME Inv, UNCHANGED <<notes, txs>>, IsSweep(sweep'), WindowHolds',
         sweep'.phase # "submit"
  PROVE  Inv'
<1>1. WellFormed' /\ LiveIsLocked'
  BY DEF Inv, WellFormed, LiveIsLocked, Live, Tx
<1> QED BY <1>1 DEF Inv, BatchAwaitsSubmission

LEMMA NoSweepType == IsSweep(NoSweep) /\ Cardinality(NoSweep.inflight) = 0
  BY FS_EmptySet DEF IsSweep, NoSweep

LEMMA EndType ==
  ASSUME NEW result, End(result)
  PROVE  /\ IsSweep(sweep') /\ Cardinality(sweep'.inflight) = 0
         /\ sweep'.phase = result
  BY FS_EmptySet DEF IsSweep, NoSweep, End

LEMMA AfterFailureType ==
  ASSUME Inv, AfterFailure
  PROVE  /\ IsSweep(sweep') /\ Cardinality(sweep'.inflight) <= MaxInFlight
         /\ sweep'.phase # "submit"
<1>1. CASE End("nodeRejecting")
  BY <1>1, EndType
<1>2. CASE sweep' = [CountFailure(sweep) EXCEPT !.phase = "topUp", !.batch = None]
  BY <1>2 DEF Inv, WellFormed, WindowHolds, IsSweep, CountFailure
<1> QED BY <1>1, <1>2 DEF AfterFailure

-----------------------------------------------------------------------------
(* One step of the sweep.                                                     *)
LEMMA StartStep == ASSUME Inv, Start PROVE Inv'
<1>1. /\ IsSweep(sweep') /\ Cardinality(sweep'.inflight) = 0 /\ sweep'.phase = "topUp"
  BY NoSweepType, FS_EmptySet DEF Start, IsSweep, NoSweep
<1> QED BY <1>1, OnlyTheSweepSteps DEF WindowHolds, Start

LEMMA QueueIsFullStep == ASSUME Inv, QueueIsFull PROVE Inv'
<1>1. IsSweep(sweep') /\ sweep'.inflight = sweep.inflight /\ sweep'.phase = "head"
  BY DEF QueueIsFull, IsSweep, Inv, WellFormed
<1> QED BY <1>1, OnlyTheSweepSteps DEF Inv, WindowHolds, QueueIsFull

LEMMA EncodeConsolidationStep == ASSUME Inv, EncodeConsolidation PROVE Inv'
<1>1. CASE sweep' = [sweep EXCEPT !.phase = "head"] /\ UNCHANGED <<notes, txs>>
  <2>1. IsSweep(sweep') /\ sweep'.inflight = sweep.inflight /\ sweep'.phase = "head"
    BY <1>1 DEF IsSweep, Inv, WellFormed
  <2> QED BY <1>1, <2>1, OnlyTheSweepSteps DEF Inv, WindowHolds
<1>2. CASE End("needsRescan") /\ UNCHANGED <<notes, txs>>
  BY <1>2, EndType, OnlyTheSweepSteps DEF WindowHolds
<1>3. ASSUME NEW t \in FreeSlots,
             StoreSentTx(t, ConsolidateNotes(MaxInputs), Total(ConsolidateNotes(MaxInputs)) - Fee),
             sweep' = [sweep EXCEPT !.phase = "submit", !.batch = t]
      PROVE  Inv'
  <2> DEFINE inputs == ConsolidateNotes(MaxInputs)
             back == Total(inputs) - Fee
  <2>1. /\ IsSweep(sweep') /\ sweep'.inflight = sweep.inflight
        /\ sweep'.phase = "submit" /\ sweep'.batch = t
    BY <1>3 DEF IsSweep, Inv, WellFormed
  <2>2. /\ inputs \in SUBSET Unspent /\ t \in Slots /\ txs[t] = << >>
        /\ notes' = [n \in DOMAIN notes |->
                       IF n \in inputs THEN [notes[n] EXCEPT !.spent = t] ELSE notes[n]]
        /\ txs' = [txs EXCEPT ![t] = <<[inputs |-> inputs, back |-> back, accepted |-> FALSE,
                                        ttl |-> ExpiryDelta, row |-> "created"]>>]
    BY <1>3, BatchIsUnspent DEF FreeSlots, StoreSentTx
  <2>6. back \in Int
    BY TotalsAreNumbers DEF Inv
  <2> HIDE DEF inputs, back
  <2>3. /\ WellFormed' /\ LiveIsLocked'
        /\ Tx(t)' = [inputs |-> inputs, back |-> back, accepted |-> FALSE,
                     ttl |-> ExpiryDelta, row |-> "created"]
        /\ txs'[t] # << >>
    BY <2>1, <2>2, <2>6, Builds DEF Inv
  <2>4. BatchAwaitsSubmission'
    BY <2>1, <2>2, <2>3 DEF BatchAwaitsSubmission, Tx
  <2>5. WindowHolds'
    BY <2>1 DEF EncodeConsolidation, WindowHolds, Inv
  <2> QED BY <2>3, <2>4, <2>5 DEF Inv
<1> QED BY <1>1, <1>2, <1>3 DEF EncodeConsolidation

LEMMA SubmitStep == ASSUME Inv, Submit PROVE Inv'
<1>0. PICK t \in Slots : t = sweep.batch
  BY DEF Submit, Inv, BatchAwaitsSubmission
<1>1. /\ txs[t] # << >> /\ IsTransaction(txs[t])
      /\ Tx(t).row = "created" /\ Tx(t).accepted = FALSE
      /\ Cardinality(sweep.inflight) \in Nat
      /\ Cardinality(sweep.inflight) < MaxInFlight
  BY <1>0, FS_CardinalityType
     DEF Submit, Inv, BatchAwaitsSubmission, WindowHolds, WellFormed, IsSweep
<1>2. CASE /\ txs' = [txs EXCEPT ![t][1].accepted = TRUE, ![t][1].row = "submitted"]
           /\ sweep' = [sweep EXCEPT !.phase = "topUp", !.batch = None,
                                     !.inflight = @ \cup {t}, !.failures = 0]
           /\ UNCHANGED notes
  <2>1. /\ IsSweep(sweep') /\ sweep'.phase = "topUp"
        /\ Cardinality(sweep'.inflight) <= MaxInFlight
    <3>1. /\ sweep' = [phase |-> "topUp", inflight |-> sweep.inflight \cup {t},
                        idle |-> sweep.idle, failures |-> 0, batch |-> None]
      BY <1>2 DEF IsSweep, Inv, WellFormed
    <3>2. IsFiniteSet(sweep.inflight)
      BY DEF IsSweep, Inv, WellFormed
    <3>3. IsFiniteSet(sweep.inflight \cup {t})
      BY <3>2, FS_AddElement
    <3>4. Cardinality(sweep.inflight \cup {t})
            = IF t \in sweep.inflight THEN Cardinality(sweep.inflight)
              ELSE Cardinality(sweep.inflight) + 1
      BY <3>2, FS_AddElement
    <3>5. Cardinality(sweep.inflight \cup {t}) <= MaxInFlight
      BY <1>1, <3>4
    <3>6. IsSweep(sweep')
      BY <3>1, <3>3 DEF IsSweep
    <3> QED BY <3>1, <3>5, <3>6
  <2>2. /\ txs' = [u \in Slots |-> txs'[u]]
        /\ \A u \in Slots \ {t} : txs'[u] = txs[u]
        /\ txs'[t] = <<[inputs |-> Tx(t).inputs, back |-> Tx(t).back, accepted |-> TRUE,
                        ttl |-> Tx(t).ttl, row |-> "submitted"]>>
    BY <1>1, <1>2 DEF Inv, WellFormed, IsTransaction, Tx
  <2>3. WellFormed'
    BY <1>1, <1>2, <2>1, <2>2 DEF Inv, WellFormed, IsTransaction, Tx
  <2>4. \A u \in Slots : /\ Live(u)' => Live(u)
                         /\ txs[u] # << >> => Tx(u)'.inputs = Tx(u).inputs
    BY <1>1, <2>2 DEF Live, Tx
  <2>5. LiveIsLocked'
    BY <1>2, <2>4 DEF LiveIsLocked, Inv, Live
  <2> QED BY <2>1, <2>3, <2>5 DEF Inv, WindowHolds, BatchAwaitsSubmission
<1>3. ASSUME NEW lost \in {0, 1},
             txs' = [txs EXCEPT ![t][1].accepted = (lost = 1), ![t][1].row = "failed"],
             AfterFailure, UNCHANGED notes
      PROVE  Inv'
  <2>1. /\ txs' = [u \in Slots |-> txs'[u]]
        /\ \A u \in Slots \ {t} : txs'[u] = txs[u]
        /\ txs'[t] = <<[inputs |-> Tx(t).inputs, back |-> Tx(t).back, accepted |-> (lost = 1),
                        ttl |-> Tx(t).ttl, row |-> "failed"]>>
    BY <1>1, <1>3 DEF Inv, WellFormed, IsTransaction, Tx
  <2>2. IsTransaction(txs'[t]) /\ ~Live(t)'
    BY <1>1, <2>1 DEF IsTransaction, Tx, Live
  <2>3. WellFormed' /\ LiveIsLocked'
    BY <1>1, <1>3, <2>1, <2>2, AfterFailureType, GivesUp DEF Inv
  <2> QED BY <1>3, <2>3, AfterFailureType DEF Inv, WindowHolds, BatchAwaitsSubmission
<1>4. CASE notes' = Unlock(t) /\ txs' = [txs EXCEPT ![t] = << >>] /\ AfterFailure
  <2>1. /\ txs' = [u \in Slots |-> txs'[u]]
        /\ \A u \in Slots \ {t} : txs'[u] = txs[u]
        /\ txs'[t] = << >> /\ ~Live(t)'
    BY <1>1, <1>4 DEF Inv, WellFormed, Live
  <2>2. WellFormed' /\ LiveIsLocked'
    BY <1>1, <1>4, <2>1, AfterFailureType, GivesUp DEF Inv
  <2> QED BY <1>4, <2>2, AfterFailureType DEF Inv, WindowHolds, BatchAwaitsSubmission
<1> QED BY <1>0, <1>2, <1>3, <1>4 DEF Submit

LEMMA LoopStep == ASSUME Inv, Loop PROVE Inv'
<1>1. CASE End("done")
  BY <1>1, EndType, OnlyTheSweepSteps DEF WindowHolds, Loop
<1>2. CASE sweep' = [sweep EXCEPT !.idle = @ + 1, !.phase = "topUp"]
  <2>1. IsSweep(sweep') /\ sweep'.inflight = sweep.inflight /\ sweep'.phase = "topUp"
    BY <1>2 DEF IsSweep, Inv, WellFormed
  <2> QED BY <2>1, OnlyTheSweepSteps DEF Inv, WindowHolds, Loop
<1>3. CASE sweep' = [sweep EXCEPT !.idle = 0, !.phase = "settle"]
  <2>1. IsSweep(sweep') /\ sweep'.inflight = sweep.inflight /\ sweep'.phase = "settle"
    BY <1>3 DEF IsSweep, Inv, WellFormed
  <2> QED BY <2>1, OnlyTheSweepSteps DEF Inv, WindowHolds, Loop
<1> QED BY <1>1, <1>2, <1>3 DEF Loop

LEMMA SettleStep == ASSUME Inv, Settle PROVE Inv'
<1>1. /\ sweep'.phase = "topUp" /\ sweep'.inflight \subseteq sweep.inflight
      /\ sweep' = [phase |-> sweep'.phase, inflight |-> sweep'.inflight, idle |-> sweep'.idle,
                   failures |-> sweep'.failures, batch |-> sweep'.batch]
  BY DEF Settle, IsSweep, Inv, WellFormed
<1>2. /\ IsFiniteSet(sweep.inflight) /\ IsFiniteSet(sweep'.inflight)
      /\ Cardinality(sweep'.inflight) <= Cardinality(sweep.inflight)
      /\ Cardinality(sweep'.inflight) \in Nat /\ Cardinality(sweep.inflight) \in Nat
  BY <1>1, FS_Subset, FS_CardinalityType DEF Inv, WellFormed, IsSweep
<1>3. IsSweep(sweep') /\ WindowHolds'
  BY <1>1, <1>2 DEF IsSweep, WindowHolds, Inv
<1> QED BY <1>1, <1>3, OnlyTheSweepSteps DEF Settle

-----------------------------------------------------------------------------
(* One step of what goes on beside it.                                        *)
LEMMA SendStep == ASSUME Inv, Send PROVE Inv'
<1> DEFINE inputs == Spend(PaymentAmount)
           back == Total(inputs) - PaymentAmount - Fee
<1>1. PICK t \in FreeSlots :
        /\ notes' = [n \in DOMAIN notes |->
                       IF n \in inputs THEN [notes[n] EXCEPT !.spent = t] ELSE notes[n]]
        /\ txs' = [txs EXCEPT ![t] = <<[inputs |-> inputs, back |-> back, accepted |-> TRUE,
                                        ttl |-> ExpiryDelta, row |-> "submitted"]>>]
  BY DEF Send
<1>2. inputs \in SUBSET Unspent /\ t \in Slots /\ txs[t] = << >>
  BY PaymentIsUnspent DEF FreeSlots
<1>3. sweep' = sweep /\ IsSweep(sweep')
  BY DEF Send, Inv, WellFormed
<1>6. back \in Int
  BY TotalsAreNumbers DEF Inv
<1> HIDE DEF inputs, back
<1>4. /\ WellFormed' /\ LiveIsLocked'
      /\ \A u \in Slots \ {t} : txs'[u] = txs[u]
  BY <1>1, <1>2, <1>3, <1>6, Builds DEF Inv
<1>5. BatchAwaitsSubmission' /\ WindowHolds'
  BY <1>2, <1>3, <1>4 DEF Inv, BatchAwaitsSubmission, WindowHolds, Tx
<1> QED BY <1>4, <1>5 DEF Inv

LEMMA RefreshStep == ASSUME Inv, NEW t \in Slots, Refresh(t) PROVE Inv'
<1>1. IsTransaction(txs[t]) /\ sweep' = sweep
  BY DEF Refresh, Inv, WellFormed
<1>2. ASSUME NEW status \in {"mined", "cleaned"}, Tx(t).row \in {"inBlock", "failed"},
             txs' = [txs EXCEPT ![t][1].row = status]
      PROVE  /\ txs' = [u \in Slots |-> txs'[u]]
             /\ \A u \in Slots \ {t} : txs'[u] = txs[u]
             /\ IsTransaction(txs'[t]) /\ ~Live(t)'
  <2>1. txs'[t] = <<[inputs |-> Tx(t).inputs, back |-> Tx(t).back, accepted |-> Tx(t).accepted,
                     ttl |-> Tx(t).ttl, row |-> status]>>
    BY <1>1, <1>2 DEF Inv, WellFormed, IsTransaction, Tx
  <2>2. txs' = [u \in Slots |-> txs'[u]] /\ \A u \in Slots \ {t} : txs'[u] = txs[u]
    BY <1>2 DEF Inv, WellFormed
  <2> QED BY <1>1, <2>1, <2>2 DEF IsTransaction, Tx, Live
<1>3. ASSUME txs' = [txs EXCEPT ![t] = << >>]
      PROVE  /\ txs' = [u \in Slots |-> txs'[u]]
             /\ \A u \in Slots \ {t} : txs'[u] = txs[u]
             /\ txs'[t] = << >> /\ ~Live(t)'
  BY <1>3 DEF Inv, WellFormed, Live
<1>4. /\ notes' = Unlock(t) \/ notes' = notes
      /\ txs' = [u \in Slots |-> txs'[u]]
      /\ \A u \in Slots \ {t} : txs'[u] = txs[u]
      /\ txs'[t] # << >> => IsTransaction(txs'[t])
      /\ ~Live(t)'
  BY <1>2, <1>3 DEF Refresh, Inv, WellFormed, Live
<1>5. WellFormed' /\ LiveIsLocked'
  BY <1>1, <1>4, GivesUp DEF Inv, WellFormed
<1>6. sweep.phase = "submit" => t # sweep.batch
  BY DEF Refresh, Inv, BatchAwaitsSubmission
<1>7. BatchAwaitsSubmission' /\ WindowHolds'
  BY <1>1, <1>4, <1>6 DEF Inv, BatchAwaitsSubmission, WindowHolds, Tx
<1> QED BY <1>5, <1>7 DEF Inv

LEMMA DieStep == ASSUME Inv, Die PROVE Inv'
<1>1. sweep' = NoSweep /\ sweep'.phase = "off"
  BY DEF Die, NoSweep
<1> QED BY <1>1, NoSweepType, OnlyTheSweepSteps DEF WindowHolds, Die

LEMMA ScanBlockStep == ASSUME Inv, NEW mined \in SUBSET Slots, ScanBlock(mined) PROVE Inv'
<1> DEFINE gone == UNION {Tx(t).inputs : t \in mined}
           back == {t \in mined : Tx(t).back > 0}
           kept == DOMAIN notes \ gone
           new == IF back = {} THEN {} ELSE {FreeNote}
           expires(t) == txs[t] # << >> /\ t \notin mined /\ Tx(t).ttl <= 1
           frees(n) == notes[n].spent # None /\ expires(notes[n].spent)
           paidBack == [value |-> Tx(CHOOSE t \in back : TRUE).back, age |-> 0,
                        spent |-> None, witnessed |-> TRUE]
<1>1. /\ notes' = [n \in kept \cup new |->
                     IF n \in kept
                     THEN [notes[n] EXCEPT !.age = IF @ < Maturity THEN @ + 1 ELSE @,
                                           !.spent = IF frees(n) \/ @ \in mined THEN None ELSE @]
                     ELSE paidBack]
      /\ txs' = [t \in Slots |->
                   IF txs[t] = << >> THEN << >>
                   ELSE <<[Tx(t) EXCEPT !.ttl = IF @ > 0 THEN @ - 1 ELSE 0,
                                        !.row = IF t \in mined THEN "inBlock" ELSE @,
                                        !.accepted = @ /\ t \notin mined /\ ~expires(t)]>>]
      /\ sweep' = sweep /\ mined \subseteq Minable
  BY DEF ScanBlock
<1> HIDE DEF gone, back, paidBack
<1>2. DOMAIN notes' = kept \cup new /\ notes' = [n \in DOMAIN notes' |-> notes'[n]]
  BY <1>1
<1>3. back # {} => IsNote(paidBack)
  <2> SUFFICES ASSUME back # {} PROVE IsNote(paidBack)
    OBVIOUS
  <2>1. PICK t \in back : t = CHOOSE u \in back : TRUE
    OBVIOUS
  <2>2. t \in mined /\ Tx(t).back > 0
    BY DEF back
  <2>3. t \in Slots /\ txs[t] # << >>
    BY <1>1, <2>2 DEF Minable
  <2>4. Tx(t).back \in Int
    BY <2>3 DEF Tx, Inv, WellFormed, IsTransaction
  <2>5. Tx(t).back \in Nat
    BY <2>2, <2>4
  <2>6. paidBack = [value |-> Tx(t).back, age |-> 0, spent |-> None, witnessed |-> TRUE]
    BY <2>1 DEF paidBack
  <2> QED BY <2>5, <2>6 DEF IsNote
<1>4. \A n \in kept :
        /\ notes'[n] = [value |-> notes[n].value,
                        age |-> IF notes[n].age < Maturity THEN notes[n].age + 1
                                ELSE notes[n].age,
                        spent |-> IF frees(n) \/ notes[n].spent \in mined THEN None
                                  ELSE notes[n].spent,
                        witnessed |-> notes[n].witnessed]
        /\ IsNote(notes'[n])
  <2> SUFFICES ASSUME NEW n \in kept
               PROVE  /\ notes'[n] = [value |-> notes[n].value,
                                      age |-> IF notes[n].age < Maturity THEN notes[n].age + 1
                                              ELSE notes[n].age,
                                      spent |-> IF frees(n) \/ notes[n].spent \in mined THEN None
                                                ELSE notes[n].spent,
                                      witnessed |-> notes[n].witnessed]
                      /\ IsNote(notes'[n])
    OBVIOUS
  <2>1. IsNote(notes[n])
    BY DEF Inv, WellFormed
  <2>2. notes'[n] = [notes[n] EXCEPT !.age = IF @ < Maturity THEN @ + 1 ELSE @,
                                     !.spent = IF frees(n) \/ @ \in mined THEN None ELSE @]
    BY <1>1
  <2> HIDE DEF frees, kept
  <2> QED BY <2>1, <2>2 DEF IsNote
<1> HIDE DEF frees, expires
<1>5. \A t \in Slots :
        /\ txs[t] = << >> => txs'[t] = << >>
        /\ txs[t] # << >> =>
             \E acc :
               /\ acc = (Tx(t).accepted /\ t \notin mined /\ ~expires(t))
               /\ txs'[t] = <<[inputs |-> Tx(t).inputs, back |-> Tx(t).back, accepted |-> acc,
                               ttl |-> IF Tx(t).ttl > 0 THEN Tx(t).ttl - 1 ELSE 0,
                               row |-> IF t \in mined THEN "inBlock" ELSE Tx(t).row]>>
  <2> SUFFICES ASSUME NEW t \in Slots, txs[t] # << >>
               PROVE  \E acc :
                        /\ acc = (Tx(t).accepted /\ t \notin mined /\ ~expires(t))
                        /\ txs'[t] = <<[inputs |-> Tx(t).inputs, back |-> Tx(t).back,
                                        accepted |-> acc,
                                        ttl |-> IF Tx(t).ttl > 0 THEN Tx(t).ttl - 1 ELSE 0,
                                        row |-> IF t \in mined THEN "inBlock" ELSE Tx(t).row]>>
    BY <1>1
  <2>1. PICK acc : acc = (Tx(t).accepted /\ t \notin mined /\ ~expires(t))
    OBVIOUS
  <2>2. txs'[t] = <<[Tx(t) EXCEPT !.ttl = IF @ > 0 THEN @ - 1 ELSE 0,
                                  !.row = IF t \in mined THEN "inBlock" ELSE @,
                                  !.accepted = @ /\ t \notin mined /\ ~expires(t)]>>
    BY <1>1, Zenon
  <2>3. PICK i, k, d, l, r :
          Tx(t) = [inputs |-> i, back |-> k, accepted |-> d, ttl |-> l, row |-> r]
    <3>1. IsTransaction(txs[t])
      BY DEF Inv, WellFormed
    <3>2. PICK i, k, d, l, r :
            txs[t] = <<[inputs |-> i, back |-> k, accepted |-> d, ttl |-> l, row |-> r]>>
      BY <3>1, Zenon DEF IsTransaction
    <3>3. txs[t][1] = [inputs |-> i, back |-> k, accepted |-> d, ttl |-> l, row |-> r]
      BY <3>2
    <3> QED BY <3>3, Zenon DEF Tx
  <2>4. [Tx(t) EXCEPT !.ttl = IF @ > 0 THEN @ - 1 ELSE 0,
                      !.row = IF t \in mined THEN "inBlock" ELSE @,
                      !.accepted = @ /\ t \notin mined /\ ~expires(t)]
          = [Tx(t) EXCEPT !.ttl = IF Tx(t).ttl > 0 THEN Tx(t).ttl - 1 ELSE 0,
                          !.row = IF t \in mined THEN "inBlock" ELSE Tx(t).row,
                          !.accepted = acc]
    BY <2>1, Zenon
  <2>5. [Tx(t) EXCEPT !.ttl = IF Tx(t).ttl > 0 THEN Tx(t).ttl - 1 ELSE 0,
                      !.row = IF t \in mined THEN "inBlock" ELSE Tx(t).row,
                      !.accepted = acc]
          = [inputs |-> Tx(t).inputs, back |-> Tx(t).back, accepted |-> acc,
             ttl |-> IF Tx(t).ttl > 0 THEN Tx(t).ttl - 1 ELSE 0,
             row |-> IF t \in mined THEN "inBlock" ELSE Tx(t).row]
    <3>1. PICK left, status :
            /\ left = IF Tx(t).ttl > 0 THEN Tx(t).ttl - 1 ELSE 0
            /\ status = IF t \in mined THEN "inBlock" ELSE Tx(t).row
      OBVIOUS
    <3>2. [Tx(t) EXCEPT !.ttl = left, !.row = status, !.accepted = acc]
            = [inputs |-> i, back |-> k, accepted |-> acc, ttl |-> left, row |-> status]
      <4>1. PICK x : x = [inputs |-> i, back |-> k, accepted |-> d, ttl |-> l, row |-> r]
        OBVIOUS
      <4>2. PICK y : y = [x EXCEPT !.ttl = left, !.row = status, !.accepted = acc]
        OBVIOUS
      <4>3. /\ y = [f \in DOMAIN y |-> y[f]]
            /\ DOMAIN y = {"inputs", "back", "accepted", "ttl", "row"}
        BY <4>1, <4>2
      <4>4. y.inputs = i /\ y.back = k
        BY <4>1, <4>2
      <4>5. y.accepted = acc /\ y.ttl = left /\ y.row = status
        BY <4>1, <4>2
      <4>6. y = [inputs |-> i, back |-> k, accepted |-> acc, ttl |-> left, row |-> status]
        BY <4>3, <4>4, <4>5
      <4> QED BY <2>3, <4>1, <4>2, <4>6, Zenon
    <3>3. Tx(t).inputs = i /\ Tx(t).back = k
      BY <2>3
    <3> QED BY <3>1, <3>2, <3>3, Zenon
  <2> QED BY <2>1, <2>2, <2>4, <2>5, Zenon
<1>6. FreeNote \notin Taken /\ FreeNote \in Nat
  BY FreeNoteIsFree DEF Inv
<1>7. WellFormed'
  <2>1. IsFiniteSet(DOMAIN notes')
    <3>1. IsFiniteSet(kept)
      BY FS_Difference DEF Inv, WellFormed
    <3>2. IsFiniteSet(new)
      BY FS_EmptySet, FS_Singleton
    <3>3. IsFiniteSet(kept \cup new)
      BY <3>1, <3>2, FS_Union, Zenon
    <3> QED BY <1>2, <3>3
  <2>2. \A n \in DOMAIN notes' : IsNote(notes'[n])
    BY <1>1, <1>2, <1>3, <1>4
  <2>5. DOMAIN notes' \subseteq Nat
    BY <1>2, <1>6 DEF Inv, WellFormed
  <2>3. txs' = [t \in Slots |-> txs'[t]]
    BY <1>1
  <2>4. \A t \in Slots : txs'[t] # << >> => IsTransaction(txs'[t])
    <3> SUFFICES ASSUME NEW t \in Slots, txs[t] # << >>
                 PROVE  IsTransaction(txs'[t])
      BY <1>5
    <3>1. IsFiniteSet(Tx(t).inputs) /\ Tx(t).ttl \in Int /\ Tx(t).back \in Int
      BY DEF Inv, WellFormed, IsTransaction, Tx
    <3>2. PICK acc :
            txs'[t] = <<[inputs |-> Tx(t).inputs, back |-> Tx(t).back, accepted |-> acc,
                         ttl |-> IF Tx(t).ttl > 0 THEN Tx(t).ttl - 1 ELSE 0,
                         row |-> IF t \in mined THEN "inBlock" ELSE Tx(t).row]>>
      BY <1>5, Zenon
    <3> QED BY <3>1, <3>2 DEF IsTransaction
  <2> QED BY <1>1, <1>2, <2>1, <2>2, <2>3, <2>4, <2>5 DEF WellFormed, Inv
<1>8. ASSUME NEW u \in Slots, Live(u)'
      PROVE  /\ Live(u) /\ Tx(u)'.inputs = Tx(u).inputs
             /\ u \notin mined /\ ~expires(u)
  <2>1. txs[u] # << >> /\ IsTransaction(txs[u])
    BY <1>5, <1>8 DEF Live, Inv, WellFormed
  <2>2. /\ Tx(u)'.inputs = Tx(u).inputs
        /\ Tx(u)'.ttl = IF Tx(u).ttl > 0 THEN Tx(u).ttl - 1 ELSE 0
        /\ Tx(u)'.row = IF u \in mined THEN "inBlock" ELSE Tx(u).row
    <3>1. PICK acc :
            txs'[u] = <<[inputs |-> Tx(u).inputs, back |-> Tx(u).back, accepted |-> acc,
                         ttl |-> IF Tx(u).ttl > 0 THEN Tx(u).ttl - 1 ELSE 0,
                         row |-> IF u \in mined THEN "inBlock" ELSE Tx(u).row]>>
      BY <1>5, <2>1, Zenon
    <3> QED BY <3>1 DEF Tx
  <2>3. Tx(u).ttl \in Int
    BY <2>1 DEF IsTransaction, Tx
  <2> QED BY <1>8, <2>1, <2>2, <2>3 DEF Live, expires
<1>9. LiveIsLocked'
  <2> SUFFICES ASSUME NEW u \in Slots, Live(u)'
               PROVE  /\ \A n \in Tx(u)'.inputs \cap DOMAIN notes' : notes'[n].spent = u
                      /\ \A v \in Slots \ {u} : Live(v)' => Tx(u)'.inputs \cap Tx(v)'.inputs = {}
    BY DEF LiveIsLocked
  <2>1. ASSUME NEW n \in Tx(u)'.inputs \cap DOMAIN notes'
        PROVE  notes'[n].spent = u
    <3>1. n \in Tx(u).inputs /\ txs[u] # << >>
      BY <1>8, <2>1 DEF Live
    <3>2. n \in Taken
      BY <3>1 DEF Taken
    <3>3. n \in kept
      BY <1>2, <1>6, <2>1, <3>2
    <3>4. notes[n].spent = u
      BY <1>8, <3>1, <3>3 DEF Inv, LiveIsLocked
    <3>5. u \notin mined /\ ~frees(n)
      BY <1>8, <3>4 DEF frees
    <3>6. notes'[n] = [value |-> notes[n].value,
                       age |-> IF notes[n].age < Maturity THEN notes[n].age + 1
                               ELSE notes[n].age,
                       spent |-> IF frees(n) \/ notes[n].spent \in mined THEN None
                                 ELSE notes[n].spent,
                       witnessed |-> notes[n].witnessed]
      BY <1>4, <3>3
    <3>7. notes'[n].spent = IF frees(n) \/ notes[n].spent \in mined THEN None ELSE notes[n].spent
      BY <3>6
    <3> QED BY <3>4, <3>5, <3>7
  <2>2. ASSUME NEW v \in Slots \ {u}, Live(v)'
        PROVE  Tx(u)'.inputs \cap Tx(v)'.inputs = {}
    BY <1>8, <2>2 DEF Inv, LiveIsLocked
  <2> QED BY <2>1, <2>2
<1>10. BatchAwaitsSubmission'
  <2> SUFFICES ASSUME sweep.phase = "submit"
               PROVE  /\ txs'[sweep.batch] # << >>
                      /\ Tx(sweep.batch)'.row = "created" /\ Tx(sweep.batch)'.accepted = FALSE
    BY <1>1 DEF BatchAwaitsSubmission, Inv
  <2>1. PICK t \in Slots : t = sweep.batch
    BY DEF Inv, BatchAwaitsSubmission
  <2>2. /\ txs[t] # << >> /\ t \notin mined
        /\ Tx(t).row = "created" /\ Tx(t).accepted = FALSE
    BY <1>1, <2>1 DEF Inv, BatchAwaitsSubmission, Minable
  <2>3. /\ txs'[t] # << >>
        /\ txs'[t][1].row = "created" /\ txs'[t][1].accepted = FALSE
    <3>1. PICK acc :
            /\ acc = (Tx(t).accepted /\ t \notin mined /\ ~expires(t))
            /\ txs'[t] = <<[inputs |-> Tx(t).inputs, back |-> Tx(t).back, accepted |-> acc,
                            ttl |-> IF Tx(t).ttl > 0 THEN Tx(t).ttl - 1 ELSE 0,
                            row |-> IF t \in mined THEN "inBlock" ELSE Tx(t).row]>>
      BY <1>5, <2>2, Zenon
    <3>2. acc = FALSE
      BY <2>2, <3>1, Zenon
    <3> HIDE <3>1
    <3>3. txs'[t] = <<[inputs |-> Tx(t).inputs, back |-> Tx(t).back, accepted |-> acc,
                       ttl |-> IF Tx(t).ttl > 0 THEN Tx(t).ttl - 1 ELSE 0,
                       row |-> IF t \in mined THEN "inBlock" ELSE Tx(t).row]>>
      BY <3>1, Zenon
    <3>4. txs'[t][1] = [inputs |-> Tx(t).inputs, back |-> Tx(t).back, accepted |-> acc,
                        ttl |-> IF Tx(t).ttl > 0 THEN Tx(t).ttl - 1 ELSE 0,
                        row |-> IF t \in mined THEN "inBlock" ELSE Tx(t).row]
      BY <3>3
    <3>5. /\ txs'[t][1].accepted = acc
          /\ txs'[t][1].row = IF t \in mined THEN "inBlock" ELSE Tx(t).row
      BY <3>4
    <3> QED BY <2>2, <3>2, <3>3, <3>5
  <2> QED BY <1>1, <2>1, <2>3 DEF Tx
<1>11. WindowHolds'
  BY <1>1 DEF Inv, WindowHolds
<1> QED BY <1>7, <1>9, <1>10, <1>11 DEF Inv

-----------------------------------------------------------------------------
(* Initially nothing is under way.                                            *)
LEMMA InitInv == Init => Inv
<1> SUFFICES ASSUME Init PROVE Inv
  OBVIOUS
<1>1. DOMAIN notes = DOMAIN InitialNotes /\ notes = [n \in DOMAIN notes |-> notes[n]]
  BY DEF Init
<1>2. \A n \in DOMAIN notes : IsNote(notes[n])
  BY DEF Init, IsNote
<1>3. /\ txs = [t \in Slots |-> txs[t]] /\ \A t \in Slots : txs[t] = << >>
  BY DEF Init
<1>4. IsSweep(sweep) /\ Cardinality(sweep.inflight) = 0 /\ sweep.phase = "off"
  BY NoSweepType DEF Init, NoSweep
<1> QED BY <1>1, <1>2, <1>3, <1>4
        DEF Inv, WellFormed, WindowHolds, BatchAwaitsSubmission, LiveIsLocked, Live

LEMMA StepInv == Inv /\ [Next]_vars => Inv'
<1> SUFFICES ASSUME Inv, [Next]_vars PROVE Inv'
  OBVIOUS
<1>1. CASE UNCHANGED vars
  BY <1>1 DEF vars, Inv, WellFormed, WindowHolds, BatchAwaitsSubmission, LiveIsLocked, Live, Tx
<1> QED BY <1>1, StartStep, QueueIsFullStep, EncodeConsolidationStep, SubmitStep, LoopStep,
           SettleStep, SendStep, DieStep, ScanBlockStep, RefreshStep DEF Next

LEMMA InvImplies == Inv => BatchesAreDisjoint /\ SpendsUpToSixNotes
  BY WellFormedIsSound, SelectsWhatItNeeds
     DEF Inv, WindowHolds, LiveIsLocked, BatchesAreDisjoint

(* However many batches are built beside payments, lose their answers, expire *)
(* or outlive the process that built them, the window is kept and two that    *)
(* the wallet has not given up never spend one note (SdkSynchronizer.kt:744). *)
THEOREM NeverSharesANote == Spec => []BatchesAreDisjoint
<1>1. Init => Inv
  BY InitInv
<1>2. Inv /\ [Next]_vars => Inv'
  BY StepInv
<1>3. Inv => BatchesAreDisjoint
  BY InvImplies
<1> QED BY <1>1, <1>2, <1>3, PTL DEF Spec

(* Whatever was spent, merged and mined before, a payment is built whenever   *)
(* MaxTxSpends notes can make it, unless one of the largest lost its witness, *)
(* and spends no note it could do without; a batch of the sweep takes the     *)
(* smallest notes and as many as it may (transact.rs:95-158).                 *)
THEOREM SelectionSuffices == Spec => []SpendsUpToSixNotes
<1>1. Init => Inv
  BY InitInv
<1>2. Inv /\ [Next]_vars => Inv'
  BY StepInv
<1>3. Inv => SpendsUpToSixNotes
  BY InvImplies
<1> QED BY <1>1, <1>2, <1>3, PTL DEF Spec
=============================================================================
