--------------------------- MODULE MoneyTheorems ---------------------------
(***************************************************************************)
(* What the proofs about money cite: how far rounding is off, for every    *)
(* numerator, denominator and mode (internal/money), and what a sum over a *)
(* finite set is (SumFunction and SumFunctionOnSet).                       *)
(*                                                                         *)
(* The facts about sums are induction over finite sets.  The theorems of   *)
(* the library take a predicate as a parameter, so the induction is done   *)
(* here with sets instead: were a fact false of some subset, it would be   *)
(* false of a smallest one (MinimalSubset).                                *)
(***************************************************************************)
EXTENDS Rounding, Functions, FiniteSets, TLAPS, FiniteSetTheorems

-----------------------------------------------------------------------------
(* Rounding                                                                *)

HalfMode == {"HALF_EVEN", "HALF_AWAY_FROM_ZERO"}

(* Division of a magnitude by a positive divisor.                          *)
LEMMA Division ==
  ASSUME NEW n \in Nat, NEW d \in Nat \ {0}
  PROVE  /\ n \div d \in Nat
         /\ n % d \in 0 .. d - 1
         /\ n = d * (n \div d) + (n % d)
<1>1. n \div d \in Nat
  BY SMTT(20)
<1>2. n % d \in 0 .. d - 1
  BY SMTT(20)
<1>3. n = d * (n \div d) + (n % d)
  BY SMTT(20)
<1>. QED  BY <1>1, <1>2, <1>3

(* The rounded magnitude, before its sign is put back.                     *)
Rounded(n, d, mode) ==
    IF shouldRoundUp(n \div d, n % d, d, mode) THEN (n \div d) + 1 ELSE n \div d

LEMMA MagnitudeRounded ==
  ASSUME NEW n \in Nat, NEW d \in Nat \ {0}, NEW mode \in RoundingMode
  PROVE  /\ Rounded(n, d, mode) \in Nat
         /\ -d < Rounded(n, d, mode) * d - n /\ Rounded(n, d, mode) * d - n < d
         /\ mode \in HalfMode => /\ -d =< 2 * (Rounded(n, d, mode) * d - n)
                                 /\ 2 * (Rounded(n, d, mode) * d - n) =< d
         /\ mode = "TOWARD_ZERO" => Rounded(n, d, mode) * d =< n
         /\ mode = "AWAY_FROM_ZERO" => Rounded(n, d, mode) * d >= n
<1>. DEFINE q == n \div d
            r == n % d
<1>1. q \in Nat /\ r \in 0 .. d - 1 /\ n = d * q + r
  BY Division
<1>. HIDE DEF q, r
<1>2. q * d = d * q /\ (q + 1) * d = d * q + d /\ d * q \in Nat
  BY <1>1
<1>3. CASE shouldRoundUp(q, r, d, mode)
  <2>1. Rounded(n, d, mode) = q + 1
    BY <1>3 DEF Rounded, q, r
  <2>2. r # 0 /\ mode # "TOWARD_ZERO" /\ (mode \in HalfMode => 2 * r >= d)
    BY <1>1, <1>3 DEF shouldRoundUp, HalfMode
  <2>3. (q + 1) * d - n = d - r
    BY <1>1, <1>2
  <2>. QED  BY <1>1, <2>1, <2>2, <2>3 DEF HalfMode
<1>4. CASE ~shouldRoundUp(q, r, d, mode)
  <2>1. Rounded(n, d, mode) = q
    BY <1>4 DEF Rounded, q, r
  <2>2. (mode = "AWAY_FROM_ZERO" => r = 0) /\ (mode \in HalfMode => 2 * r =< d)
    BY <1>1, <1>4 DEF shouldRoundUp, HalfMode
  <2>3. q * d - n = -r
    BY <1>1, <1>2
  <2>. QED  BY <1>1, <2>1, <2>2, <2>3 DEF HalfMode
<1>. QED  BY <1>3, <1>4

LEMMA RoundRatioType ==
  ASSUME NEW n \in Int, NEW d \in Int \ {0}, NEW mode \in RoundingMode
  PROVE  roundRatio(n, d, mode) \in Int
<1>1. Magnitude(n) \in Nat /\ Magnitude(d) \in Nat \ {0}
  BY DEF Magnitude
<1>2. Rounded(Magnitude(n), Magnitude(d), mode) \in Nat
  BY <1>1, MagnitudeRounded
<1>. QED  BY <1>2 DEF roundRatio, Rounded

(* A rounded quotient is off by less than one unit whatever the mode and   *)
(* the signs, by at most half a unit under the two modes that round to the *)
(* nearest, and never away from the side its mode names (roundRatio).      *)
THEOREM RoundingError ==
  ASSUME NEW n \in Int, NEW d \in Int \ {0}, NEW mode \in RoundingMode
  PROVE  LET result == roundRatio(n, d, mode)
             error  == result * d - n
         IN  /\ Magnitude(error) < Magnitude(d)
             /\ mode \in HalfMode => 2 * Magnitude(error) =< Magnitude(d)
             /\ mode = "TOWARD_ZERO" => Magnitude(result * d) =< Magnitude(n)
             /\ mode = "AWAY_FROM_ZERO" => Magnitude(result * d) >= Magnitude(n)
<1>. DEFINE m == Magnitude(n)
            e == Magnitude(d)
            k == Rounded(m, e, mode)
            result == roundRatio(n, d, mode)
<1>1. m \in Nat /\ e \in Nat \ {0}
  BY DEF Magnitude
<1>2. result = IF (n < 0) # (d < 0) THEN -k ELSE k
  BY DEF roundRatio, Rounded
<1>. HIDE DEF k, result
<1>3. /\ k \in Nat
      /\ -e < k * e - m /\ k * e - m < e
      /\ mode \in HalfMode => -e =< 2 * (k * e - m) /\ 2 * (k * e - m) =< e
      /\ mode = "TOWARD_ZERO" => k * e =< m
      /\ mode = "AWAY_FROM_ZERO" => k * e >= m
  BY <1>1, MagnitudeRounded DEF k
<1>. DEFINE p == k * e
<1>4. p \in Nat
  BY <1>1, <1>3
<1>5. (n >= 0 /\ result * d = p) \/ (n < 0 /\ result * d = -p)
  <2>1. CASE d > 0
    <3>1. e = d
      BY <2>1 DEF Magnitude
    <3>2. (-k) * d = -(k * d)
      BY <1>3
    <3>. QED  BY <1>2, <1>3, <2>1, <3>1, <3>2
  <2>2. CASE d < 0
    <3>1. d = -e /\ e \in Nat
      BY <2>2 DEF Magnitude
    <3>2. k * (-e) = -(k * e) /\ (-k) * (-e) = k * e
      BY <1>3, <3>1
    <3>. QED  BY <1>2, <1>3, <2>2, <3>1, <3>2
  <2>. QED  BY <2>1, <2>2
<1>6. m = IF n < 0 THEN -n ELSE n
  BY DEF Magnitude
<1>. HIDE DEF p, m, e
<1>7. /\ -e < p - m /\ p - m < e
      /\ mode \in HalfMode => -e =< 2 * (p - m) /\ 2 * (p - m) =< e
      /\ mode = "TOWARD_ZERO" => p =< m
      /\ mode = "AWAY_FROM_ZERO" => p >= m
  BY <1>3 DEF p
<1>8. Magnitude(result * d) = p
  BY <1>4, <1>5 DEF Magnitude
<1>9. Magnitude(result * d - n) = Magnitude(p - m)
  BY <1>1, <1>4, <1>5, <1>6 DEF Magnitude
<1>. QED  BY <1>1, <1>4, <1>7, <1>8, <1>9 DEF Magnitude, m, e, result

-----------------------------------------------------------------------------
(* Sums                                                                    *)

\* The element that a fold takes first.
Chosen(s) == CHOOSE x \in s : TRUE

\* t holds the sum of f over every subset of S: what the fold defines.
IsSumTable(t, f, S) ==
    t = [s \in SUBSET S |-> IF s = {} THEN 0 ELSE f[Chosen(s)] + t[s \ {Chosen(s)}]]

\* The sum is the entry of S in that table.
LEMMA SumIsEntry ==
    ASSUME NEW f, NEW S
    PROVE  SumFunctionOnSet(f, S) = (CHOOSE t : IsSumTable(t, f, S))[S]
BY DEF SumFunctionOnSet, FoldFunctionOnSet, MapThenFoldSet, IsSumTable, Chosen

LEMMA ChosenInSet ==
    ASSUME NEW s, s # {}
    PROVE  Chosen(s) \in s
BY DEF Chosen

\* Among subsets of a finite set there is one that contains no other of them.
LEMMA MinimalSubset ==
    ASSUME NEW S, IsFiniteSet(S), NEW B \in SUBSET SUBSET S, B # {}
    PROVE  \E T \in B : \A U \in B : U \subseteq T => U = T
<1>1. FiniteSubsetsOf(S) = SUBSET S
    BY FS_FiniteSubsetsOfFinite
<1>2. IsWellFoundedOn(StrictSubsetOrdering(S), SUBSET S)
    BY <1>1, FS_StrictSubsetOrderingWellFounded
<1>3. PICK T \in B : \A U \in B : ~ (<<U, T>> \in StrictSubsetOrdering(S))
    BY <1>2, WFMin, Zenon
<1>4. QED
    BY <1>3 DEF StrictSubsetOrdering

\* A table of a set contains the table of each subset.
LEMMA TableRestricts ==
    ASSUME NEW f, NEW S, NEW U \in SUBSET S, NEW t, IsSumTable(t, f, S)
    PROVE  IsSumTable([s \in SUBSET U |-> t[s]], f, U)
<1>1. ASSUME NEW s \in SUBSET U, s # {}
      PROVE  s \in SUBSET S /\ s \ {Chosen(s)} \in SUBSET U
    OBVIOUS
<1>2. ASSUME NEW s \in SUBSET S
      PROVE  t[s] = IF s = {} THEN 0 ELSE f[Chosen(s)] + t[s \ {Chosen(s)}]
    BY DEF IsSumTable
<1>3. QED
    BY <1>1, <1>2 DEF IsSumTable

\* A finite set has one table at most.
LEMMA TableUnique ==
    ASSUME NEW f, NEW S, IsFiniteSet(S), NEW t, NEW u,
           IsSumTable(t, f, S), IsSumTable(u, f, S)
    PROVE  t = u
<1> DEFINE B == {s \in SUBSET S : t[s] # u[s]}
<1>1. ASSUME NEW s \in SUBSET S
      PROVE  /\ t[s] = IF s = {} THEN 0 ELSE f[Chosen(s)] + t[s \ {Chosen(s)}]
             /\ u[s] = IF s = {} THEN 0 ELSE f[Chosen(s)] + u[s \ {Chosen(s)}]
    BY DEF IsSumTable
<1>2. ASSUME B # {} PROVE FALSE
    <2>1. PICK s \in B : \A v \in B : v \subseteq s => v = s
        <3>1. B \in SUBSET SUBSET S
            OBVIOUS
        <3> HIDE DEF B
        <3>2. QED
            BY <1>2, <3>1, MinimalSubset
    <2>2. s # {}
        BY <1>1
    <2>3. Chosen(s) \in s
        BY <2>2, ChosenInSet
    <2>4. s \ {Chosen(s)} \notin B
        BY <2>1, <2>3
    <2>5. t[s \ {Chosen(s)}] = u[s \ {Chosen(s)}]
        BY <2>4
    <2>6. QED
        BY <1>1, <2>5
<1>3. t = [s \in SUBSET S |-> t[s]] /\ u = [s \in SUBSET S |-> u[s]]
    BY DEF IsSumTable
<1>4. QED
    BY <1>2, <1>3

\* Entries of a table are sums.
LEMMA EntryIsSum ==
    ASSUME NEW f, NEW S, IsFiniteSet(S), NEW t, IsSumTable(t, f, S), NEW U \in SUBSET S
    PROVE  t[U] = SumFunctionOnSet(f, U)
<1> DEFINE tU == [s \in SUBSET U |-> t[s]]
           u  == CHOOSE v : IsSumTable(v, f, U)
<1>1. IsSumTable(tU, f, U)
    BY TableRestricts
<1>2. IsSumTable(u, f, U)
    BY <1>1
<1>3. IsFiniteSet(U)
    BY FS_Subset
<1>4. tU = u
    BY <1>1, <1>2, <1>3, TableUnique
<1>5. tU[U] = t[U]
    OBVIOUS
<1>6. QED
    BY <1>4, <1>5, SumIsEntry

\* A finite set has a table.
LEMMA TableExists ==
    ASSUME NEW f, NEW S, IsFiniteSet(S)
    PROVE  \E t : IsSumTable(t, f, S)
<1> DEFINE B == {s \in SUBSET S : ~ \E t : IsSumTable(t, f, s)}
<1>1. ASSUME B # {} PROVE FALSE
    <2>1. PICK s \in B : \A v \in B : v \subseteq s => v = s
        <3>1. B \in SUBSET SUBSET S
            OBVIOUS
        <3> HIDE DEF B
        <3>2. QED
            BY <1>1, <3>1, MinimalSubset
    <2> DEFINE Sum(v) == SumFunctionOnSet(f, v)
               t == [v \in SUBSET s |->
                       IF v = {} THEN 0 ELSE f[Chosen(v)] + Sum(v \ {Chosen(v)})]
    <2>2. ASSUME NEW v \in SUBSET s, v # s
          PROVE  Sum(v) = IF v = {} THEN 0 ELSE f[Chosen(v)] + Sum(v \ {Chosen(v)})
        <3>1. v \in SUBSET S /\ v \notin B
            BY <2>1, <2>2
        <3>2. PICK u : IsSumTable(u, f, v)
            BY <3>1
        <3>3. IsFiniteSet(v)
            BY <3>1, FS_Subset
        <3>4. \A w \in SUBSET v : u[w] = Sum(w)
            BY <3>2, <3>3, EntryIsSum
        <3>5. u[v] = IF v = {} THEN 0 ELSE f[Chosen(v)] + u[v \ {Chosen(v)}]
            BY <3>2 DEF IsSumTable
        <3>6. v \ {Chosen(v)} \in SUBSET v
            OBVIOUS
        <3>7. QED
            BY <3>4, <3>5, <3>6
    <2>3. ASSUME NEW v \in SUBSET s, v # {}
          PROVE  t[v \ {Chosen(v)}] = Sum(v \ {Chosen(v)})
        <3>1. Chosen(v) \in v
            BY <2>3, ChosenInSet
        <3>2. v \ {Chosen(v)} \in SUBSET s /\ v \ {Chosen(v)} # s
            BY <3>1
        <3>3. QED
            BY <2>2, <3>2
    <2>4. IsSumTable(t, f, s)
        BY <2>3 DEF IsSumTable
    <2>5. QED
        BY <2>1, <2>4
<1>2. QED
    BY <1>1

\* The sum over nothing is zero; any other is an element and the sum of the rest.
LEMMA SumUnfolds ==
    ASSUME NEW f, NEW S, IsFiniteSet(S)
    PROVE  SumFunctionOnSet(f, S) =
             IF S = {} THEN 0
             ELSE f[Chosen(S)] + SumFunctionOnSet(f, S \ {Chosen(S)})
<1>1. PICK t : IsSumTable(t, f, S)
    BY TableExists
<1>2. \A U \in SUBSET S : t[U] = SumFunctionOnSet(f, U)
    BY <1>1, EntryIsSum
<1>3. t[S] = IF S = {} THEN 0 ELSE f[Chosen(S)] + t[S \ {Chosen(S)}]
    BY <1>1 DEF IsSumTable
<1>4. S \in SUBSET S /\ S \ {Chosen(S)} \in SUBSET S
    OBVIOUS
<1>5. QED
    BY <1>2, <1>3, <1>4

\* Sums of integers are integers.
LEMMA SumInt ==
    ASSUME NEW f, NEW S, IsFiniteSet(S), \A x \in S : f[x] \in Int
    PROVE  SumFunctionOnSet(f, S) \in Int
<1> DEFINE Sum(s) == SumFunctionOnSet(f, s)
           B == {s \in SUBSET S : Sum(s) \notin Int}
<1>1. ASSUME B # {} PROVE FALSE
    <2>1. PICK s \in B : \A v \in B : v \subseteq s => v = s
        <3>1. B \in SUBSET SUBSET S
            OBVIOUS
        <3> HIDE DEF B
        <3>2. QED
            BY <1>1, <3>1, MinimalSubset
    <2>2. IsFiniteSet(s)
        BY FS_Subset
    <2>3. Sum(s) = IF s = {} THEN 0 ELSE f[Chosen(s)] + Sum(s \ {Chosen(s)})
        BY <2>2, SumUnfolds
    <2>4. s # {}
        BY <2>3
    <2>5. Chosen(s) \in s
        BY <2>4, ChosenInSet
    <2>6. Sum(s \ {Chosen(s)}) \in Int
        BY <2>1, <2>5
    <2>7. f[Chosen(s)] \in Int
        BY <2>5
    <2> HIDE DEF Sum
    <2>8. QED
        BY <2>3, <2>4, <2>6, <2>7
<1>2. QED
    BY <1>1

\* Any element can be taken out first: the order of the fold does not matter.
LEMMA SumRemove ==
    ASSUME NEW f, NEW S, IsFiniteSet(S), \A x \in S : f[x] \in Int, NEW x \in S
    PROVE  SumFunctionOnSet(f, S) = f[x] + SumFunctionOnSet(f, S \ {x})
<1> DEFINE Sum(s) == SumFunctionOnSet(f, s)
           B == {s \in SUBSET S : \E z \in s : Sum(s) # f[z] + Sum(s \ {z})}
<1>1. ASSUME B # {} PROVE FALSE
    <2>1. PICK s \in B : \A v \in B : v \subseteq s => v = s
        <3>1. B \in SUBSET SUBSET S
            OBVIOUS
        <3> HIDE DEF B
        <3>2. QED
            BY <1>1, <3>1, MinimalSubset
    <2>2. PICK z \in s : Sum(s) # f[z] + Sum(s \ {z})
        OBVIOUS
    <2> DEFINE y == Chosen(s)
    <2>3. y \in s
        BY ChosenInSet
    <2>4. Sum(s) = f[y] + Sum(s \ {y})
        <3>1. IsFiniteSet(s) /\ s # {}
            BY FS_Subset
        <3>2. QED
            BY <3>1, SumUnfolds
    <2>5. y # z
        BY <2>2, <2>4
    <2>6. s \ {y} \notin B /\ s \ {z} \notin B
        <3>1. s \ {y} # s /\ s \ {z} # s
            BY <2>3
        <3> HIDE DEF B
        <3>2. QED
            BY <2>1, <3>1
    <2>7. Sum(s \ {y}) = f[z] + Sum((s \ {y}) \ {z})
        <3>1. z \in s \ {y} /\ s \ {y} \in SUBSET S
            BY <2>5
        <3> HIDE DEF Sum
        <3>2. QED
            BY <2>6, <3>1
    <2>8. Sum(s \ {z}) = f[y] + Sum((s \ {z}) \ {y})
        <3>1. y \in s \ {z} /\ s \ {z} \in SUBSET S
            BY <2>3, <2>5
        <3> HIDE DEF Sum
        <3>2. QED
            BY <2>6, <3>1
    <2>9. (s \ {y}) \ {z} = (s \ {z}) \ {y}
        OBVIOUS
    <2>10. Sum((s \ {y}) \ {z}) \in Int
        <3>1. (s \ {y}) \ {z} \in SUBSET S
            OBVIOUS
        <3>2. IsFiniteSet((s \ {y}) \ {z})
            BY <3>1, FS_Subset
        <3>3. \A w \in (s \ {y}) \ {z} : f[w] \in Int
            BY <3>1
        <3>4. QED
            BY <3>2, <3>3, SumInt
    <2>11. f[y] \in Int /\ f[z] \in Int
        BY <2>3
    <2> DEFINE r == Sum((s \ {y}) \ {z})
    <2> HIDE DEF Sum, y
    <2>12. Sum(s) = f[y] + (f[z] + r) /\ Sum(s \ {z}) = f[y] + r
        BY <2>4, <2>7, <2>8, <2>9
    <2> HIDE DEF r, B
    <2>13. Sum(s) = f[z] + Sum(s \ {z})
        BY <2>10, <2>11, <2>12 DEF r
    <2>14. QED
        BY <2>2, <2>13
<1>2. QED
    BY <1>1

\* The sum depends on the values of the function in the set alone.
LEMMA SumSame ==
    ASSUME NEW f, NEW g, NEW S, IsFiniteSet(S), \A x \in S : f[x] = g[x]
    PROVE  SumFunctionOnSet(f, S) = SumFunctionOnSet(g, S)
<1> DEFINE B == {s \in SUBSET S : SumFunctionOnSet(f, s) # SumFunctionOnSet(g, s)}
<1>1. ASSUME B # {} PROVE FALSE
    <2>1. PICK s \in B : \A v \in B : v \subseteq s => v = s
        <3>1. B \in SUBSET SUBSET S
            OBVIOUS
        <3> HIDE DEF B
        <3>2. QED
            BY <1>1, <3>1, MinimalSubset
    <2> DEFINE y == Chosen(s)
    <2>2. IsFiniteSet(s)
        BY FS_Subset
    <2>3. /\ SumFunctionOnSet(f, s) =
               IF s = {} THEN 0 ELSE f[y] + SumFunctionOnSet(f, s \ {y})
          /\ SumFunctionOnSet(g, s) =
               IF s = {} THEN 0 ELSE g[y] + SumFunctionOnSet(g, s \ {y})
        BY <2>2, SumUnfolds
    <2>4. s # {}
        BY <2>3
    <2>5. y \in s
        BY <2>4, ChosenInSet
    <2>6. s \ {y} \notin B
        <3>1. s \ {y} # s
            BY <2>5
        <3> HIDE DEF B
        <3>2. QED
            BY <2>1, <3>1
    <2>7. f[y] = g[y]
        BY <2>5
    <2>8. QED
        BY <2>3, <2>4, <2>6, <2>7
<1>2. QED
    BY <1>1

\* Sums of natural numbers are natural numbers.
LEMMA SumNat ==
    ASSUME NEW f, NEW S, IsFiniteSet(S), \A x \in S : f[x] \in Nat
    PROVE  SumFunctionOnSet(f, S) \in Nat
<1> DEFINE Sum(s) == SumFunctionOnSet(f, s)
           B == {s \in SUBSET S : Sum(s) \notin Nat}
<1>1. ASSUME B # {} PROVE FALSE
    <2>1. PICK s \in B : \A v \in B : v \subseteq s => v = s
        <3>1. B \in SUBSET SUBSET S
            OBVIOUS
        <3> HIDE DEF B
        <3>2. QED
            BY <1>1, <3>1, MinimalSubset
    <2>2. IsFiniteSet(s)
        BY FS_Subset
    <2>3. Sum(s) = IF s = {} THEN 0 ELSE f[Chosen(s)] + Sum(s \ {Chosen(s)})
        BY <2>2, SumUnfolds
    <2>4. s # {}
        BY <2>3
    <2>5. Chosen(s) \in s
        BY <2>4, ChosenInSet
    <2>6. Sum(s \ {Chosen(s)}) \in Nat
        BY <2>1, <2>5
    <2>7. f[Chosen(s)] \in Nat
        BY <2>5
    <2> HIDE DEF Sum
    <2>8. QED
        BY <2>3, <2>4, <2>6, <2>7
<1>2. QED
    BY <1>1

\* No element of a sum of natural numbers exceeds it.
LEMMA SumBounds ==
    ASSUME NEW f, NEW S, IsFiniteSet(S), \A x \in S : f[x] \in Nat, NEW x \in S
    PROVE  f[x] =< SumFunctionOnSet(f, S)
<1>1. SumFunctionOnSet(f, S) = f[x] + SumFunctionOnSet(f, S \ {x})
    <2>1. \A y \in S : f[y] \in Int
        OBVIOUS
    <2>2. QED
        BY <2>1, SumRemove
<1>2. SumFunctionOnSet(f, S \ {x}) \in Nat
    <2>1. IsFiniteSet(S \ {x})
        BY FS_RemoveElement
    <2>2. QED
        BY <2>1, SumNat
<1>3. QED
    BY <1>1, <1>2

\* A sum of zeros is zero.
LEMMA SumOfZeros ==
    ASSUME NEW f, NEW S, IsFiniteSet(S), \A x \in S : f[x] = 0
    PROVE  SumFunctionOnSet(f, S) = 0
<1> DEFINE Sum(s) == SumFunctionOnSet(f, s)
           B == {s \in SUBSET S : Sum(s) # 0}
<1>1. ASSUME B # {} PROVE FALSE
    <2>1. PICK s \in B : \A v \in B : v \subseteq s => v = s
        <3>1. B \in SUBSET SUBSET S
            OBVIOUS
        <3> HIDE DEF B
        <3>2. QED
            BY <1>1, <3>1, MinimalSubset
    <2>2. IsFiniteSet(s)
        BY FS_Subset
    <2>3. Sum(s) = IF s = {} THEN 0 ELSE f[Chosen(s)] + Sum(s \ {Chosen(s)})
        BY <2>2, SumUnfolds
    <2>4. s # {}
        BY <2>3
    <2>5. Chosen(s) \in s
        BY <2>4, ChosenInSet
    <2>6. Sum(s \ {Chosen(s)}) = 0
        BY <2>1, <2>5
    <2>7. f[Chosen(s)] = 0
        BY <2>5
    <2> HIDE DEF Sum
    <2>8. QED
        BY <2>3, <2>4, <2>6, <2>7
<1>2. QED
    BY <1>1

\* The sum over two sets that share nothing.
LEMMA SumDisjoint ==
    ASSUME NEW f, NEW S, NEW T, IsFiniteSet(S), IsFiniteSet(T), S \cap T = {},
           \A x \in S \cup T : f[x] \in Int
    PROVE  SumFunctionOnSet(f, S \cup T) = SumFunctionOnSet(f, S) + SumFunctionOnSet(f, T)
<1> DEFINE Sum(s) == SumFunctionOnSet(f, s)
           B == {s \in SUBSET S : Sum(s \cup T) # Sum(s) + Sum(T)}
<1>1. ASSUME B # {} PROVE FALSE
    <2>1. PICK s \in B : \A v \in B : v \subseteq s => v = s
        <3>1. B \in SUBSET SUBSET S
            OBVIOUS
        <3> HIDE DEF B
        <3>2. QED
            BY <1>1, <3>1, MinimalSubset
    <2>2. IsFiniteSet(s) /\ IsFiniteSet(s \cup T)
        BY FS_Subset, FS_Union
    <2>3. Sum(T) \in Int
        BY SumInt
    <2>4. s # {}
        <3>1. ASSUME s = {} PROVE FALSE
            <4>1. Sum(s) = 0
                BY <2>2, <3>1, SumUnfolds
            <4>2. s \cup T = T
                BY <3>1
            <4>3. Sum(s \cup T) # Sum(s) + Sum(T)
                OBVIOUS
            <4>4. Sum(s \cup T) = Sum(T)
                BY <4>2
            <4> HIDE DEF Sum, B
            <4>5. 0 + Sum(T) = Sum(T)
                BY <2>3
            <4>6. QED
                BY <4>1, <4>3, <4>4, <4>5
        <3>2. QED
            BY <3>1
    <2>5. PICK x \in s : x \notin T
        BY <2>4
    <2>6. Sum(s) = f[x] + Sum(s \ {x})
        BY <2>2, SumRemove
    <2>7. Sum(s \cup T) = f[x] + Sum((s \cup T) \ {x})
        <3>1. x \in s \cup T /\ \A y \in s \cup T : f[y] \in Int
            OBVIOUS
        <3>2. QED
            BY <2>2, <3>1, SumRemove
    <2>8. (s \cup T) \ {x} = (s \ {x}) \cup T
        BY <2>5
    <2>9. Sum((s \ {x}) \cup T) = Sum(s \ {x}) + Sum(T)
        BY <2>1
    <2>10. Sum(s \ {x}) \in Int
        <3>1. IsFiniteSet(s \ {x}) /\ \A y \in s \ {x} : f[y] \in Int
            BY <2>2, FS_RemoveElement
        <3>2. QED
            BY <3>1, SumInt
    <2>11. f[x] \in Int /\ Sum(s \cup T) # Sum(s) + Sum(T)
        OBVIOUS
    <2> HIDE DEF Sum, B
    <2>12. Sum(s \cup T) = f[x] + (Sum(s \ {x}) + Sum(T))
        BY <2>7, <2>8, <2>9
    <2>13. Sum(s \cup T) = (f[x] + Sum(s \ {x})) + Sum(T)
        BY <2>3, <2>10, <2>11, <2>12
    <2>14. QED
        BY <2>6, <2>11, <2>13
<1>2. Sum(S \cup T) = Sum(S) + Sum(T)
    BY <1>1
<1>3. QED
    BY <1>2

\* Elements that are paired off, one of each pair the opposite of the other, sum to zero.
LEMMA SumCancels ==
    ASSUME NEW f, NEW S, NEW T, IsFiniteSet(S), IsFiniteSet(T), NEW p \in [S -> T],
           \A x \in S : f[x] \in Int /\ f[p[x]] = 0 - f[x],
           \A x, y \in S : p[x] = p[y] => x = y,
           \A y \in T : \E x \in S : p[x] = y
    PROVE  SumFunctionOnSet(f, S) + SumFunctionOnSet(f, T) = 0
<1> DEFINE Sum(s) == SumFunctionOnSet(f, s)
           Mates(s) == {p[x] : x \in s}
           B == {s \in SUBSET S : Sum(s) + Sum(Mates(s)) # 0}
<1>0. \A y \in T : f[y] \in Int
    OBVIOUS
<1>1. ASSUME B # {} PROVE FALSE
    <2>1. PICK s \in B : \A v \in B : v \subseteq s => v = s
        <3>1. B \in SUBSET SUBSET S
            OBVIOUS
        <3> HIDE DEF B
        <3>2. QED
            BY <1>1, <3>1, MinimalSubset
    <2>2. IsFiniteSet(s) /\ IsFiniteSet(Mates(s)) /\ Mates(s) \subseteq T
        <3>1. Mates(s) \in SUBSET T
            OBVIOUS
        <3> HIDE DEF Mates
        <3>2. QED
            BY <3>1, FS_Subset
    <2>3. s # {}
        <3>1. ASSUME s = {} PROVE FALSE
            <4>1. Mates(s) = {}
                BY <3>1
            <4>2. Sum(s) = 0 /\ Sum(Mates(s)) = 0
                BY <2>2, <3>1, <4>1, SumUnfolds
            <4>3. Sum(s) + Sum(Mates(s)) # 0
                OBVIOUS
            <4> HIDE DEF Sum, Mates
            <4>4. QED
                BY <4>2, <4>3
        <3>2. QED
            BY <3>1
    <2>4. PICK x \in s : TRUE
        BY <2>3
    <2>5. Sum(s) = f[x] + Sum(s \ {x})
        BY <2>2, SumRemove
    <2>6. Sum(Mates(s)) = f[p[x]] + Sum(Mates(s) \ {p[x]})
        <3>1. p[x] \in Mates(s) /\ \A y \in Mates(s) : f[y] \in Int
            BY <1>0, <2>2
        <3> HIDE DEF Mates
        <3>2. QED
            BY <2>2, <3>1, SumRemove
    <2>7. Mates(s) \ {p[x]} = Mates(s \ {x})
        OBVIOUS
    <2>8. Sum(s \ {x}) + Sum(Mates(s \ {x})) = 0
        <3>1. s \ {x} # s /\ s \ {x} \in SUBSET S /\ s \ {x} \subseteq s
            OBVIOUS
        <3>2. s \ {x} \notin B
            <4> HIDE DEF B
            <4>1. QED
                BY <2>1, <3>1
        <3> HIDE DEF Sum, Mates
        <3>3. QED
            BY <3>1, <3>2
    <2>9. Sum(s \ {x}) \in Int
        <3>1. IsFiniteSet(s \ {x}) /\ \A y \in s \ {x} : f[y] \in Int
            BY <2>2, FS_RemoveElement
        <3>2. QED
            BY <3>1, SumInt
    <2>10. Sum(Mates(s \ {x})) \in Int
        <3>1. IsFiniteSet(Mates(s) \ {p[x]}) /\ \A y \in Mates(s) \ {p[x]} : f[y] \in Int
            <4> HIDE DEF Mates
            <4>1. QED
                BY <1>0, <2>2, FS_RemoveElement
        <3>2. QED
            BY <2>7, <3>1, SumInt
    <2>11. f[x] \in Int /\ f[p[x]] = 0 - f[x] /\ Sum(s) + Sum(Mates(s)) # 0
        OBVIOUS
    <2> HIDE DEF Sum, Mates, B
    <2>12. Sum(Mates(s)) = (0 - f[x]) + Sum(Mates(s \ {x}))
        BY <2>6, <2>7, <2>11
    <2>13. (f[x] + Sum(s \ {x})) + ((0 - f[x]) + Sum(Mates(s \ {x}))) = 0
        BY <2>8, <2>9, <2>10, <2>11
    <2>14. QED
        BY <2>5, <2>11, <2>12, <2>13
<1>2. Sum(S) + Sum(Mates(S)) = 0
    BY <1>1
<1>3. Mates(S) = T
    OBVIOUS
<1>4. QED
    BY <1>2, <1>3

\* Element by element, sums add up.
LEMMA SumAdds ==
    ASSUME NEW f, NEW g, NEW h, NEW S, IsFiniteSet(S),
           \A x \in S : g[x] \in Int /\ h[x] \in Int /\ f[x] = g[x] + h[x]
    PROVE  SumFunctionOnSet(f, S) = SumFunctionOnSet(g, S) + SumFunctionOnSet(h, S)
<1> DEFINE B == {s \in SUBSET S : SumFunctionOnSet(f, s)
                                    # SumFunctionOnSet(g, s) + SumFunctionOnSet(h, s)}
<1>1. ASSUME B # {} PROVE FALSE
    <2>1. PICK s \in B : \A v \in B : v \subseteq s => v = s
        <3>1. B \in SUBSET SUBSET S
            OBVIOUS
        <3> HIDE DEF B
        <3>2. QED
            BY <1>1, <3>1, MinimalSubset
    <2> DEFINE y == Chosen(s)  r == s \ {y}
    <2>2. IsFiniteSet(s)
        BY FS_Subset
    <2>3. /\ SumFunctionOnSet(f, s) = IF s = {} THEN 0 ELSE f[y] + SumFunctionOnSet(f, r)
          /\ SumFunctionOnSet(g, s) = IF s = {} THEN 0 ELSE g[y] + SumFunctionOnSet(g, r)
          /\ SumFunctionOnSet(h, s) = IF s = {} THEN 0 ELSE h[y] + SumFunctionOnSet(h, r)
        BY <2>2, SumUnfolds
    <2>4. s # {}
        BY <2>3
    <2>5. y \in s
        BY <2>4, ChosenInSet
    <2>6. SumFunctionOnSet(f, r) = SumFunctionOnSet(g, r) + SumFunctionOnSet(h, r)
        <3>1. r # s /\ r \subseteq s /\ r \in SUBSET S
            BY <2>5
        <3> HIDE DEF r
        <3>2. QED
            BY <2>1, <3>1
    <2>7. SumFunctionOnSet(g, r) \in Int /\ SumFunctionOnSet(h, r) \in Int
        <3>1. IsFiniteSet(r)
            BY <2>2, FS_RemoveElement
        <3>2. (\A x \in r : g[x] \in Int) /\ (\A x \in r : h[x] \in Int)
            OBVIOUS
        <3> HIDE DEF r
        <3>3. QED
            BY <3>1, <3>2, SumInt
    <2>8. g[y] \in Int /\ h[y] \in Int /\ f[y] = g[y] + h[y]
        BY <2>5
    <2>9. SumFunctionOnSet(f, s) # SumFunctionOnSet(g, s) + SumFunctionOnSet(h, s)
        OBVIOUS
    <2> HIDE DEF y, r, B
    <2>10. QED
        BY <2>3, <2>4, <2>6, <2>7, <2>8, <2>9
<1>2. QED
    BY <1>1

\* The sum of a function over its whole domain.
LEMMA SumOfAll ==
    ASSUME NEW f, NEW S, f = [x \in S |-> f[x]]
    PROVE  SumFunction(f) = SumFunctionOnSet(f, S)
BY DEF SumFunction

LEMMA SumOfNone ==
    ASSUME NEW f, DOMAIN f = {}
    PROVE  SumFunction(f) = 0
BY FS_EmptySet, SumUnfolds DEF SumFunction

LEMMA SumIsInt ==
    ASSUME NEW S, IsFiniteSet(S), NEW f \in [S -> Int]
    PROVE  SumFunction(f) \in Int
BY SumInt, DOMAIN f = S DEF SumFunction

LEMMA SumIsNat ==
    ASSUME NEW S, IsFiniteSet(S), NEW f \in [S -> Nat]
    PROVE  SumFunction(f) \in Nat
BY SumNat, DOMAIN f = S DEF SumFunction

\* A sum in which one element has changed: what a step that touches one row does.
LEMMA SumChanged ==
    ASSUME NEW S, IsFiniteSet(S), NEW f \in [S -> Int], NEW g \in [S -> Int],
           NEW x \in S, \A y \in S \ {x} : g[y] = f[y]
    PROVE  SumFunction(g) = SumFunction(f) - f[x] + g[x]
<1>1. DOMAIN f = S /\ DOMAIN g = S
    OBVIOUS
<1>2. SumFunction(f) = f[x] + SumFunctionOnSet(f, S \ {x})
    BY <1>1, SumRemove DEF SumFunction
<1>3. SumFunction(g) = g[x] + SumFunctionOnSet(g, S \ {x})
    BY <1>1, SumRemove DEF SumFunction
<1>4. IsFiniteSet(S \ {x})
    BY FS_RemoveElement
<1>5. SumFunctionOnSet(f, S \ {x}) = SumFunctionOnSet(g, S \ {x})
    BY <1>4, SumSame
<1>6. SumFunctionOnSet(f, S \ {x}) \in Int
    BY <1>4, SumInt
<1>7. f[x] \in Int /\ g[x] \in Int
    OBVIOUS
<1>8. QED
    BY <1>2, <1>3, <1>5, <1>6, <1>7

\* A sum in which one element has come, gone or changed.
LEMMA SumMoved ==
    ASSUME NEW S, NEW T, IsFiniteSet(S), IsFiniteSet(T), NEW f \in [S -> Int], NEW g \in [T -> Int],
           NEW x, S \ {x} = T \ {x}, \A y \in S \ {x} : f[y] = g[y]
    PROVE  /\ SumFunction(f) \in Int /\ SumFunction(g) \in Int
           /\ x \in S => f[x] \in Int
           /\ x \in T => g[x] \in Int
           /\ SumFunction(g) = SumFunction(f) - (IF x \in S THEN f[x] ELSE 0)
                                              + (IF x \in T THEN g[x] ELSE 0)
<1>1. SumFunction(f) = SumFunctionOnSet(f, S) /\ SumFunction(g) = SumFunctionOnSet(g, T)
    BY SumOfAll
<1>2. SumFunction(f) \in Int /\ SumFunction(g) \in Int
    BY SumIsInt
<1>. DEFINE rest == SumFunctionOnSet(f, S \ {x})
<1>3. rest \in Int
    BY SumInt, FS_Subset
<1>4. SumFunctionOnSet(g, T \ {x}) = rest
    <2>1. IsFiniteSet(S \ {x})
        BY FS_RemoveElement
    <2>2. SumFunctionOnSet(f, S \ {x}) = SumFunctionOnSet(g, S \ {x})
        BY <2>1, SumSame
    <2>. QED  BY <2>2
<1>. HIDE DEF rest
<1>5. SumFunction(f) = (IF x \in S THEN f[x] ELSE 0) + rest
    <2>1. CASE x \in S
        <3>1. SumFunctionOnSet(f, S) = f[x] + SumFunctionOnSet(f, S \ {x})
            BY <2>1, SumRemove
        <3>. QED  BY <1>1, <2>1, <3>1 DEF rest
    <2>2. CASE x \notin S
        <3>1. S \ {x} = S
            BY <2>2
        <3>2. SumFunction(f) = rest
            BY <1>1, <3>1 DEF rest
        <3>. QED  BY <1>3, <2>2, <3>2
    <2>. QED  BY <2>1, <2>2
<1>6. SumFunction(g) = (IF x \in T THEN g[x] ELSE 0) + rest
    <2>1. CASE x \in T
        <3>1. SumFunctionOnSet(g, T) = g[x] + SumFunctionOnSet(g, T \ {x})
            BY <2>1, SumRemove
        <3>. QED  BY <1>1, <1>4, <2>1, <3>1
    <2>2. CASE x \notin T
        <3>1. T \ {x} = T
            BY <2>2
        <3>. QED  BY <1>1, <1>3, <1>4, <2>2, <3>1
    <2>. QED  BY <2>1, <2>2
<1>. QED  BY <1>2, <1>3, <1>5, <1>6
=============================================================================
