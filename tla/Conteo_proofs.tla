----------------------------- MODULE Conteo_proofs -----------------------------
(***************************************************************************)
(* Laws of Suma and EnPosiciones, from the theorems about finite sets.     *)
(***************************************************************************)
EXTENDS Conteo, FiniteSetTheorems, SequenceTheorems, WellFoundedInduction, TLAPS

\* A token of the sum, and nothing else, is a pair <<x, k>> within f[x].
LEMMA FichasPares ==
    ASSUME NEW S, NEW f
    PROVE  \A p : p \in Fichas(S, f) <=> \E x \in S : \E k \in 1..f[x] : p = <<x, k>>
  BY DEF Fichas

\* The tokens of one element: as many as its value.
LEMMA FichasDeUno ==
    ASSUME NEW x, NEW n \in Nat
    PROVE  /\ IsFiniteSet({x} \X (1..n))
           /\ Cardinality({x} \X (1..n)) = n
  <1>1. IsFiniteSet({x}) /\ Cardinality({x}) = 1
    BY FS_Singleton
  <1>2. IsFiniteSet(1..n) /\ Cardinality(1..n) = n
    BY FS_Interval
  <1>3. Cardinality({x} \X (1..n)) = 1 * n
    BY <1>1, <1>2, FS_Product
  <1>4. IsFiniteSet({x} \X (1..n))
    BY <1>1, <1>2, FS_Product
  <1>5. QED
    BY <1>3, <1>4

\* A sum over a finite set of naturals is a natural number.
THEOREM SumaNat ==
    ASSUME NEW S, IsFiniteSet(S), NEW f, \A x \in S : f[x] \in Nat
    PROVE  /\ IsFiniteSet(Fichas(S, f))
           /\ Suma(S, f) \in Nat
  <1> DEFINE g == [x \in S |-> {x} \X (1..f[x])]
             T == {{x} \X (1..f[x]) : x \in S}
  <1>1. g \in Surjection(S, T)
    BY DEF Surjection
  <1>2. IsFiniteSet(T)
    BY <1>1, FS_Surjection
  <1>3. ASSUME NEW U \in T
        PROVE  IsFiniteSet(U)
    <2>1. PICK x \in S : U = {x} \X (1..f[x])
      OBVIOUS
    <2>2. IsFiniteSet({x} \X (1..f[x]))
      BY FichasDeUno
    <2>3. QED
      BY <2>1, <2>2
  <1>4. IsFiniteSet(UNION T)
    BY <1>2, <1>3, FS_UNION
  <1>5. QED
    BY <1>4, FS_CardinalityType DEF Suma, Fichas

\* A sum depends on the values only.
THEOREM SumaIgual ==
    ASSUME NEW S, NEW f, NEW g, \A x \in S : f[x] = g[x]
    PROVE  Suma(S, f) = Suma(S, g)
  <1>1. Fichas(S, f) = Fichas(S, g)
    BY DEF Fichas
  <1>2. QED
    BY <1>1 DEF Suma

\* The sum of zeros.
THEOREM SumaCero ==
    ASSUME NEW S, NEW f, \A x \in S : f[x] = 0
    PROVE  Suma(S, f) = 0
  <1>1. \A x \in S : 1..f[x] = {}
    OBVIOUS
  <1>2. Fichas(S, f) = {}
    BY <1>1 DEF Fichas
  <1>3. QED
    BY <1>2, FS_EmptySet DEF Suma

\* A sum splits into two when each value goes whole to one of the sides.
THEOREM SumaParticion ==
    ASSUME NEW S, IsFiniteSet(S), NEW f, NEW g, NEW h,
           \A x \in S : /\ g[x] \in Nat /\ h[x] \in Nat
                        /\ \/ g[x] = 0 /\ f[x] = h[x]
                           \/ h[x] = 0 /\ f[x] = g[x]
    PROVE  Suma(S, f) = Suma(S, g) + Suma(S, h)
  <1>1. Fichas(S, f) = Fichas(S, g) \cup Fichas(S, h)
    <2>1. \A x \in S : 1..f[x] = (1..g[x]) \cup (1..h[x])
      OBVIOUS
    <2>2. QED
      BY <2>1 DEF Fichas
  <1>2. Fichas(S, g) \cap Fichas(S, h) = {}
    <2>1. \A x \in S : (1..g[x]) \cap (1..h[x]) = {}
      OBVIOUS
    <2>2. QED
      BY <2>1, FichasPares
  <1>3. IsFiniteSet(Fichas(S, g)) /\ IsFiniteSet(Fichas(S, h))
    BY SumaNat
  <1>4. Suma(S, g) \in Nat /\ Suma(S, h) \in Nat
    BY SumaNat
  <1>5. Cardinality(Fichas(S, g) \cap Fichas(S, h)) = 0
    BY <1>2, FS_EmptySet
  <1>6. Cardinality(Fichas(S, f)) =
          Cardinality(Fichas(S, g)) + Cardinality(Fichas(S, h)) - 0
    BY <1>1, <1>3, <1>5, FS_Union
  <1>7. QED
    BY <1>4, <1>6 DEF Suma

\* One element taken out of the sum.
LEMMA SumaPaso ==
    ASSUME NEW S, IsFiniteSet(S), NEW f, \A y \in S : f[y] \in Nat, NEW x \in S
    PROVE  Suma(S, f) = Suma(S \ {x}, f) + f[x]
  <1> DEFINE A == Fichas(S \ {x}, f)
             B == {x} \X (1..f[x])
  <1>1. Fichas(S, f) = A \cup B
    BY DEF Fichas
  <1>2. A \cap B = {}
    BY FichasPares
  <1>3. IsFiniteSet(S \ {x})
    BY FS_RemoveElement
  <1>4. IsFiniteSet(A) /\ Cardinality(A) \in Nat
    BY <1>3, SumaNat DEF Suma
  <1>5. IsFiniteSet(B) /\ Cardinality(B) = f[x]
    BY FichasDeUno
  <1>6. Cardinality(A \cap B) = 0
    BY <1>2, FS_EmptySet
  <1> HIDE DEF A, B
  <1>7. Cardinality(A \cup B) = Cardinality(A) + Cardinality(B) - 0
    BY <1>4, <1>5, <1>6, FS_Union
  <1>8. Suma(S, f) = Cardinality(A \cup B) /\ Suma(S \ {x}, f) = Cardinality(A)
    BY <1>1 DEF Suma, A
  <1>9. QED
    BY <1>4, <1>5, <1>7, <1>8

\* Changing the value at one element changes the sum by as much.
THEOREM SumaCambio ==
    ASSUME NEW S, IsFiniteSet(S), NEW f, NEW g, NEW x \in S,
           \A y \in S : f[y] \in Nat /\ g[y] \in Nat,
           \A y \in S \ {x} : g[y] = f[y]
    PROVE  Suma(S, g) + f[x] = Suma(S, f) + g[x]
  <1>1. Suma(S \ {x}, f) = Suma(S \ {x}, g)
    BY SumaIgual
  <1>2. Suma(S \ {x}, f) \in Nat
    BY FS_RemoveElement, SumaNat
  <1>3. Suma(S, f) = Suma(S \ {x}, f) + f[x]
    BY SumaPaso
  <1>4. Suma(S, g) = Suma(S \ {x}, g) + g[x]
    BY SumaPaso
  <1>5. QED
    BY <1>1, <1>2, <1>3, <1>4

\* Fewer elements sum no more.
LEMMA SumaDentro ==
    ASSUME NEW T, IsFiniteSet(T), NEW g, \A x \in T : g[x] \in Nat,
           NEW S, S \subseteq T, NEW f, \A x \in S : f[x] = g[x]
    PROVE  Suma(S, f) <= Suma(T, g)
  <1>1. Fichas(S, f) \subseteq Fichas(T, g)
    BY DEF Fichas
  <1>2. IsFiniteSet(Fichas(T, g))
    BY SumaNat
  <1>3. QED
    BY <1>1, <1>2, FS_Subset DEF Suma

\* The elements that give nothing may be left out.
LEMMA SumaSinCeros ==
    ASSUME NEW T, NEW g, NEW S, S \subseteq T, \A x \in T \ S : g[x] = 0,
           NEW f, \A x \in S : f[x] = g[x]
    PROVE  Suma(S, f) = Suma(T, g)
  <1>1. \A p : p \in Fichas(S, f) <=> p \in Fichas(T, g)
    <2>1. \A x \in T : \A k \in 1..g[x] : x \in S /\ k \in 1..f[x]
      <3>1. \A x \in T \ S : 1..g[x] = {}
        OBVIOUS
      <3>2. QED
        BY <3>1
    <2>2. \A x \in S : \A k \in 1..f[x] : x \in T /\ k \in 1..g[x]
      OBVIOUS
    <2>3. QED
      BY <2>1, <2>2, FichasPares
  <1>2. Fichas(S, f) = Fichas(T, g)
    BY <1>1
  <1>3. QED
    BY <1>2 DEF Suma

\* A sum does not depend on what its elements are called.
LEMMA SumaBiyeccion ==
    ASSUME NEW S, IsFiniteSet(S), NEW f, \A x \in S : f[x] \in Nat,
           NEW T, NEW phi \in Bijection(S, T),
           NEW g, \A x \in S : g[phi[x]] = f[x]
    PROVE  Suma(T, g) = Suma(S, f)
  <1>1. /\ \A x \in S : phi[x] \in T
        /\ \A x, y \in S : phi[x] = phi[y] => x = y
        /\ \A z \in T : \E x \in S : phi[x] = z
    BY DEF Bijection, Injection, Surjection, IsInjective
  <1>2. PICK F : F = Fichas(S, f)
    OBVIOUS
  <1>3. PICK G : G = Fichas(T, g)
    OBVIOUS
  <1>4. \A p : p \in F <=> \E x \in S : \E k \in 1..f[x] : p = <<x, k>>
    BY <1>2, FichasPares
  <1>5. \A p : p \in G <=> \E x \in T : \E k \in 1..g[x] : p = <<x, k>>
    BY <1>3, FichasPares
  <1> DEFINE psi == [p \in F |-> <<phi[p[1]], p[2]>>]
  <1>6. \A p \in F : /\ p = <<p[1], p[2]>> /\ p[1] \in S /\ p[2] \in 1..f[p[1]]
                     /\ psi[p] = <<phi[p[1]], p[2]>>
    BY <1>4
  <1>7. psi \in [F -> G]
    <2>1. \A p \in F : <<phi[p[1]], p[2]>> \in G
      BY <1>1, <1>5, <1>6
    <2>2. QED
      BY <2>1
  <1> HIDE DEF psi
  <1>8. \A p, q \in F : psi[p] = psi[q] => p = q
    BY <1>1, <1>6
  <1>9. \A q \in G : \E p \in F : psi[p] = q
    <2>1. SUFFICES ASSUME NEW q \in G PROVE \E p \in F : psi[p] = q
      OBVIOUS
    <2>2. PICK z \in T : \E k \in 1..g[z] : q = <<z, k>>
      BY <1>5
    <2>3. PICK k \in 1..g[z] : q = <<z, k>>
      BY <2>2
    <2>4. PICK x \in S : phi[x] = z
      BY <1>1
    <2>5. k \in 1..f[x]
      BY <2>3, <2>4
    <2>6. <<x, k>> \in F
      BY <1>4, <2>5
    <2>7. psi[<<x, k>>] = q
      BY <1>6, <2>3, <2>4, <2>6
    <2>8. QED
      BY <2>6, <2>7
  <1>10. psi \in Bijection(F, G)
    BY <1>7, <1>8, <1>9 DEF Bijection, Injection, Surjection, IsInjective
  <1>11. IsFiniteSet(F)
    BY <1>2, SumaNat
  <1>12. Cardinality(G) = Cardinality(F)
    BY <1>10, <1>11, FS_Bijection DEF ExistsBijection
  <1>13. QED
    BY <1>2, <1>3, <1>12 DEF Suma

\* The sum of one value.
LEMMA SumaUno ==
    ASSUME NEW x, NEW f, f[x] \in Nat
    PROVE  Suma({x}, f) = f[x]
  <1>1. IsFiniteSet({x}) /\ {x} \ {x} = {}
    BY FS_Singleton
  <1>2. Suma({}, f) = 0
    BY SumaCero
  <1>3. QED
    BY <1>1, <1>2, SumaPaso

\* The k-th of the positions other than i.
Salta(i, k) == IF k < i THEN k ELSE k + 1

\* The i-th of the values 1..(m + 1) taken out of their sum.
LEMMA SumaQuitar ==
    ASSUME NEW m \in Nat, NEW f, \A k \in 1..(m + 1) : f[k] \in Nat,
           NEW i \in 1..(m + 1),
           NEW g, \A k \in 1..m : g[k] = f[Salta(i, k)]
    PROVE  Suma(1..(m + 1), f) = f[i] + Suma(1..m, g)
  <1> DEFINE S == (1..(m + 1)) \ {i}
             phi == [k \in 1..m |-> Salta(i, k)]
  <1>1. \A k \in 1..m : phi[k] = IF k < i THEN k ELSE k + 1
    BY DEF Salta
  <1>2. phi \in [1..m -> S]
    BY DEF Salta
  <1>3. \A j, k \in 1..m : phi[j] = phi[k] => j = k
    BY <1>1
  <1>4. \A z \in S : \E k \in 1..m : phi[k] = z
    <2>1. SUFFICES ASSUME NEW z \in S PROVE \E k \in 1..m : phi[k] = z
      OBVIOUS
    <2>2. CASE z < i
      <3>1. z \in 1..m /\ phi[z] = z
        BY <1>1, <2>2
      <3>2. QED
        BY <3>1
    <2>3. CASE ~ (z < i)
      <3>1. z - 1 \in 1..m /\ ~ (z - 1 < i) /\ (z - 1) + 1 = z
        BY <2>3
      <3>2. phi[z - 1] = z
        BY <1>1, <3>1
      <3>3. QED
        BY <3>1, <3>2
    <2>4. QED
      BY <2>2, <2>3
  <1>5. phi \in Bijection(1..m, S)
    <2> HIDE DEF phi, S
    <2>1. QED
      BY <1>2, <1>3, <1>4 DEF Bijection, Injection, Surjection, IsInjective
  <1>6. \A k \in 1..m : f[phi[k]] = g[k] /\ g[k] \in Nat
    <2>1. SUFFICES ASSUME NEW k \in 1..m PROVE f[phi[k]] = g[k] /\ g[k] \in Nat
      OBVIOUS
    <2>2. phi[k] \in 1..(m + 1) /\ g[k] = f[phi[k]]
      BY <1>1 DEF Salta
    <2>3. QED
      BY <2>2
  <1>7. IsFiniteSet(1..m) /\ IsFiniteSet(1..(m + 1))
    BY FS_Interval
  <1> HIDE DEF phi, S
  <1>8. Suma(S, f) = Suma(1..m, g)
    BY <1>5, <1>6, <1>7, SumaBiyeccion
  <1>9. Suma(1..(m + 1), f) = Suma(S, f) + f[i]
    BY <1>7, SumaPaso DEF S
  <1>10. Suma(1..m, g) \in Nat
    BY <1>6, <1>7, SumaNat
  <1>11. QED
    BY <1>8, <1>9, <1>10
-----------------------------------------------------------------------------
\* A set of naturals that is not empty has a least element: the intervals 1..n
\* of its elements are ordered by inclusion, which is well founded.
LEMMA Minimo ==
    ASSUME NEW J \in SUBSET Nat, J # {}
    PROVE  \E m \in J : \A j \in J : m <= j
  <1> DEFINE T == {1..j : j \in J}
             R == StrictSubsetOrdering(Nat)
  <1>1. IsWellFoundedOn(R, FiniteSubsetsOf(Nat))
    BY FS_StrictSubsetOrderingWellFounded
  <1>2. T \subseteq FiniteSubsetsOf(Nat)
    <2>1. ASSUME NEW j \in J
          PROVE  1..j \in FiniteSubsetsOf(Nat)
      <3>1. IsFiniteSet(1..j)
        BY FS_Interval
      <3>2. QED
        BY <3>1 DEF FiniteSubsetsOf
    <2>2. QED
      BY <2>1
  <1>3. T # {}
    OBVIOUS
  <1> HIDE DEF T, R
  <1>4. PICK U \in T : \A V \in T : ~(<<V, U>> \in R)
    BY <1>1, <1>2, <1>3, WFMin
  <1>5. PICK m \in J : U = 1..m
    BY <1>4 DEF T
  <1>6. ASSUME NEW j \in J, ~(m <= j)
        PROVE  FALSE
    <2>1. 1..j \in T
      BY DEF T
    <2>2. 1..j \subseteq 1..m /\ 1..j # 1..m
      <3>1. m \in 1..m /\ m \notin 1..j
        BY <1>6
      <3>2. QED
        BY <1>6, <3>1
    <2>3. <<1..j, 1..m>> \in R
      BY <2>2 DEF R, StrictSubsetOrdering
    <2>4. QED
      BY <1>4, <1>5, <2>1, <2>3
  <1>7. QED
    BY <1>6

\* What holds of 0, and of the next number when it holds of one below n, holds
\* of all the numbers up to n.
LEMMA HastaN ==
    ASSUME NEW n \in Nat, NEW A,
           0 \in A,
           \A k \in 1..n : k - 1 \in A => k \in A
    PROVE  \A k \in 0..n : k \in A
  <1> DEFINE M == {k \in 0..n : k \notin A}
  <1>1. SUFFICES ASSUME M # {} PROVE FALSE
    OBVIOUS
  <1>2. M \subseteq Nat
    OBVIOUS
  <1> HIDE DEF M
  <1>3. PICK m \in M : \A k \in M : m <= k
    BY <1>2, <1>1, Minimo
  <1> USE DEF M
  <1>4. m \in 1..n /\ m - 1 \in 0..n /\ m - 1 \notin M
    BY <1>3
  <1>5. m \notin A /\ m - 1 \in A
    BY <1>3, <1>4
  <1>6. QED
    BY <1>4, <1>5

\* Every rank up to the size of a set of positions is the rank of one of them.
LEMMA RangoAlcanzado ==
    ASSUME NEW n \in Nat, NEW I \in SUBSET (1..n), NEW k \in 1..Cardinality(I)
    PROVE  \E i \in I : Rango(I, i) = k
  <1> DEFINE J == {j \in 0..n : Rango(I, j) >= k}
  <1>1. IsFiniteSet(I) /\ Cardinality(I) \in Nat
    <2>1. IsFiniteSet(1..n)
      BY FS_Interval
    <2>2. IsFiniteSet(I)
      BY <2>1, FS_Subset
    <2>3. QED
      BY <2>2, FS_CardinalityType
  <1>a. k \in Nat /\ 1 <= k /\ k <= Cardinality(I)
    BY <1>1
  <1>b. \A h \in I : h \in Nat /\ 1 <= h /\ h <= n
    OBVIOUS
  <1>2. \A j \in 0..n : IsFiniteSet({h \in I : h <= j}) /\ Rango(I, j) \in Nat
    <2>1. ASSUME NEW j \in 0..n
          PROVE  IsFiniteSet({h \in I : h <= j})
      BY <1>1, FS_Subset
    <2>2. QED
      BY <2>1, FS_CardinalityType DEF Rango
  <1>3. Rango(I, n) = Cardinality(I)
    <2>1. {h \in I : h <= n} = I
      BY <1>b
    <2>2. QED
      BY <2>1 DEF Rango
  <1>4. Rango(I, 0) = 0
    <2>1. \A h \in I : ~(h <= 0)
      BY <1>b
    <2>2. {h \in I : h <= 0} = {}
      BY <2>1
    <2>3. QED
      BY <2>2, FS_EmptySet DEF Rango
  <1>5. n \in J
    BY <1>a, <1>3
  <1>6. PICK m \in J : \A j \in J : m <= j
    <2>1. J \subseteq Nat /\ J # {}
      BY <1>5
    <2>2. QED
      BY <2>1, Minimo
  <1>7. m \in 1..n /\ m - 1 \in 0..n /\ m - 1 \notin J
    <2>1. m # 0
      BY <1>a, <1>4, <1>6
    <2>2. m \in 1..n /\ m - 1 \in 0..n
      BY <1>6, <2>1
    <2>3. QED
      BY <1>6, <2>2
  <1>8. Rango(I, m - 1) < k /\ Rango(I, m) >= k
    <2>1. Rango(I, m) >= k
      BY <1>6
    <2>2. ~(Rango(I, m - 1) >= k) /\ Rango(I, m - 1) \in Nat
      BY <1>2, <1>7
    <2>3. QED
      BY <1>a, <2>1, <2>2
  <1>9. m \in I /\ Rango(I, m) = Rango(I, m - 1) + 1
    <2>1. {h \in I : h <= m} = {h \in I : h <= m - 1} \cup (I \cap {m})
      <3>1. \A h \in I : h <= m <=> (h <= m - 1 \/ h = m)
        BY <1>7, <1>b
      <3>2. QED
        BY <3>1
    <2>2. m \in I
      <3>1. SUFFICES ASSUME m \notin I PROVE FALSE
        OBVIOUS
      <3>2. {h \in I : h <= m} = {h \in I : h <= m - 1}
        BY <2>1, <3>1
      <3>3. QED
        BY <1>2, <1>7, <1>8, <3>2 DEF Rango
    <2>3. {h \in I : h <= m} = {h \in I : h <= m - 1} \cup {m}
      BY <2>1, <2>2
    <2>4. m \notin {h \in I : h <= m - 1}
      BY <1>7
    <2>5. Cardinality({h \in I : h <= m - 1} \cup {m})
            = Cardinality({h \in I : h <= m - 1}) + 1
      BY <1>2, <1>7, <2>4, FS_AddElement
    <2>6. QED
      BY <2>2, <2>3, <2>5 DEF Rango
  <1>10. QED
    <2>1. Rango(I, m - 1) \in Nat
      BY <1>2, <1>7
    <2>2. Rango(I, m) = k
      BY <1>a, <1>8, <1>9, <2>1
    <2>3. QED
      BY <1>9, <2>2

\* A subsequence of a sequence over C is a sequence over C, as long as there
\* are positions, and each of its elements is one of those at the positions.
THEOREM EnPosicionesSeq ==
    ASSUME NEW C, NEW s \in Seq(C), NEW I \in SUBSET DOMAIN s
    PROVE  /\ EnPosiciones(s, I) \in Seq(C)
           /\ Len(EnPosiciones(s, I)) = Cardinality(I)
           /\ \A k \in 1..Cardinality(I) : \E i \in I : EnPosiciones(s, I)[k] = s[i]
  <1> DEFINE q == EnPosiciones(s, I)
             pos(k) == CHOOSE i \in I : Rango(I, i) = k
  <1>1. Len(s) \in Nat /\ DOMAIN s = 1..Len(s)
    BY LenProperties
  <1>2. Cardinality(I) \in Nat
    <2>1. IsFiniteSet(1..Len(s))
      BY <1>1, FS_Interval
    <2>2. QED
      BY <1>1, <2>1, FS_Subset, FS_CardinalityType
  <1>3. \A k \in 1..Cardinality(I) : pos(k) \in I
    BY <1>1, RangoAlcanzado
  <1>4. \A k \in 1..Cardinality(I) : q[k] = s[pos(k)]
    BY DEF EnPosiciones
  <1>5. q \in [1..Cardinality(I) -> C]
    BY <1>1, <1>3 DEF EnPosiciones
  <1>6. QED
    BY <1>2, <1>3, <1>4, <1>5
=============================================================================
