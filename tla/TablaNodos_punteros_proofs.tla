---------------------- MODULE TablaNodos_punteros_proofs ----------------------
(***************************************************************************)
(* What the pointer operations of tablanodos.c do to a table, for any      *)
(* hash and any memory: which cells a list and a chain hold, how each      *)
(* operation links and unlinks them, and what it leaves alone.             *)
(***************************************************************************)
EXTENDS TablaNodos, Conteo_proofs

-----------------------------------------------------------------------------
(* Numbers *)

\* The remainder of a division.
LEMMA Resto ==
    ASSUME NEW a \in Nat, NEW n \in Nat \ {0}
    PROVE  a % n \in 0..(n - 1)
  OBVIOUS

-----------------------------------------------------------------------------
(* Following pointers *)

\* The recursion of Pasos, over 0..n.
SonPasos(p, T, ini, sig, n) ==
    p = [k \in 0..n |-> IF k = 0 THEN ini
                        ELSE IF p[k - 1] = NULO THEN NULO ELSE T.celda[p[k - 1]][sig]]

\* It has a solution.
LEMMA HayPasos ==
    ASSUME NEW T, NEW ini, NEW sig, NEW n \in Nat
    PROVE  \E p : SonPasos(p, T, ini, sig, n)
  <1> DEFINE Es(p, m) == SonPasos(p, T, ini, sig, m)
             A == {m \in Nat : \E p : Es(p, m)}
  <1>1. 0 \in A
    <2>1. Es([k \in 0..0 |-> ini], 0)
      BY DEF SonPasos
    <2>2. QED
      BY <2>1
  <1>2. \A m \in 1..n : m - 1 \in A => m \in A
    <2>1. SUFFICES ASSUME NEW m \in 1..n, m - 1 \in A PROVE m \in A
      OBVIOUS
    <2>2. PICK p : Es(p, m - 1)
      BY <2>1
    <2> DEFINE q == [k \in 0..m |-> IF k < m THEN p[k]
                                    ELSE IF p[m - 1] = NULO THEN NULO
                                         ELSE T.celda[p[m - 1]][sig]]
    <2>3. \A k \in 0..m : q[k] = IF k = 0 THEN ini
                                ELSE IF q[k - 1] = NULO THEN NULO ELSE T.celda[q[k - 1]][sig]
      <3>1. SUFFICES ASSUME NEW k \in 0..m
                     PROVE  q[k] = IF k = 0 THEN ini
                                   ELSE IF q[k - 1] = NULO THEN NULO
                                        ELSE T.celda[q[k - 1]][sig]
        OBVIOUS
      <3>2. k # 0 => q[k - 1] = p[k - 1]
        OBVIOUS
      <3>3. k < m => p[k] = IF k = 0 THEN ini
                            ELSE IF p[k - 1] = NULO THEN NULO ELSE T.celda[p[k - 1]][sig]
        BY <2>2 DEF SonPasos
      <3>4. QED
        BY <3>2, <3>3
    <2>4. Es(q, m)
      BY <2>3 DEF SonPasos
    <2>5. m \in Nat
      OBVIOUS
    <2> HIDE DEF Es, q
    <2>6. QED
      BY <2>4, <2>5
  <1> HIDE DEF Es, A
  <1>3. n \in A
    BY <1>1, <1>2, HastaN
  <1>4. QED
    BY <1>3 DEF Es, A

\* What Pasos is.
LEMMA PasosDef ==
    ASSUME NEW T, NEW ini, NEW sig
    PROVE  Pasos(T, ini, sig) =
             [k \in 0..Cardinality(Celdas) |->
                IF k = 0 THEN ini
                ELSE IF Pasos(T, ini, sig)[k - 1] = NULO THEN NULO
                     ELSE T.celda[Pasos(T, ini, sig)[k - 1]][sig]]
  <1>1. Cardinality(Celdas) \in Nat
    BY CeldasAssumption, FS_CardinalityType
  <1> DEFINE paso == CHOOSE p : p = [k \in 0..Cardinality(Celdas) |->
                IF k = 0 THEN ini
                ELSE IF p[k - 1] = NULO THEN NULO ELSE T.celda[p[k - 1]][sig]]
  <1>2. paso = [k \in 0..Cardinality(Celdas) |->
                IF k = 0 THEN ini
                ELSE IF paso[k - 1] = NULO THEN NULO ELSE T.celda[paso[k - 1]][sig]]
    <2>1. PICK n \in Nat : n = Cardinality(Celdas)
      BY <1>1
    <2>2. \E p : SonPasos(p, T, ini, sig, n)
      BY HayPasos
    <2>3. \E p : p = [k \in 0..Cardinality(Celdas) |->
                IF k = 0 THEN ini
                ELSE IF p[k - 1] = NULO THEN NULO ELSE T.celda[p[k - 1]][sig]]
      BY <2>1, <2>2, Zenon DEF SonPasos
    <2>4. QED
      BY <2>3, Zenon
  <1>3. Pasos(T, ini, sig) = paso
    BY DEF Pasos
  <1> HIDE DEF paso
  <1>4. QED
    BY <1>2, <1>3

\* The cells S lie on one way from ini by the field sig: ranks r grow along it,
\* and every cell but the first has one before it.
Sendero(T, S, ini, sig, r, b) ==
    /\ S \subseteq Celdas
    /\ b \in Nat /\ r \in [Celdas -> (-b)..b]
    /\ ini \in S \cup {NULO}
    /\ \A c \in S : /\ T.celda[c][sig] \in S \cup {NULO}
                    /\ T.celda[c][sig] # NULO => r[c] < r[T.celda[c][sig]]
                    /\ c = ini \/ \E d \in S : T.celda[d][sig] = c

\* Each step is at a cell of S, higher than the one before, or at the end.
LEMMA PasoAPaso ==
    ASSUME NEW T, NEW S, NEW ini, NEW sig, NEW r, NEW b, Sendero(T, S, ini, sig, r, b),
           NEW p, p = Pasos(T, ini, sig),
           NEW n, n = Cardinality(Celdas)
    PROVE  /\ n \in Nat /\ DOMAIN p = 0..n /\ p[0] = ini
           /\ \A k \in 0..n : p[k] \in S \cup {NULO}
           /\ \A k \in 0..(n - 1) :
                /\ p[k] = NULO => p[k + 1] = NULO
                /\ p[k] # NULO => p[k + 1] = T.celda[p[k]][sig]
           /\ \A j, k \in 0..n : j < k /\ p[k] # NULO => p[j] # NULO /\ r[p[j]] < r[p[k]]
  <1>1. n \in Nat
    BY CeldasAssumption, FS_CardinalityType
  <1>2. p = [k \in 0..n |-> IF k = 0 THEN ini
                            ELSE IF p[k - 1] = NULO THEN NULO ELSE T.celda[p[k - 1]][sig]]
    BY PasosDef
  <1>3. DOMAIN p = 0..n /\ p[0] = ini
    BY <1>1, <1>2
  <1>4. \A k \in 1..n : p[k] = IF p[k - 1] = NULO THEN NULO ELSE T.celda[p[k - 1]][sig]
    BY <1>1, <1>2
  <1>5. \A k \in 0..n : p[k] \in S \cup {NULO}
    <2> DEFINE A == {k \in 0..n : p[k] \in S \cup {NULO}}
    <2>1. 0 \in A
      BY <1>1, <1>3 DEF Sendero
    <2>2. \A k \in 1..n : k - 1 \in A => k \in A
      BY <1>1, <1>4 DEF Sendero
    <2> HIDE DEF A
    <2>3. \A k \in 0..n : k \in A
      BY <1>1, <2>1, <2>2, HastaN
    <2>4. QED
      BY <2>3 DEF A
  <1>6. \A k \in 0..(n - 1) : /\ p[k] = NULO => p[k + 1] = NULO
                              /\ p[k] # NULO => p[k + 1] = T.celda[p[k]][sig]
    <2>1. SUFFICES ASSUME NEW k \in 0..(n - 1)
                   PROVE  p[k + 1] = IF p[k] = NULO THEN NULO ELSE T.celda[p[k]][sig]
      OBVIOUS
    <2>2. k + 1 \in 1..n /\ (k + 1) - 1 = k
      BY <1>1
    <2>3. QED
      BY <1>4, <2>2
  <1>7. \A j, k \in 0..n : j < k /\ p[k] # NULO => p[j] # NULO /\ r[p[j]] < r[p[k]]
    <2> DEFINE A == {k \in 0..n : p[k] # NULO =>
                        \A j \in 0..n : j < k => p[j] # NULO /\ r[p[j]] < r[p[k]]}
    <2>1. 0 \in A
      BY <1>1
    <2>2. \A k \in 1..n : k - 1 \in A => k \in A
      <3>1. SUFFICES ASSUME NEW k \in 1..n, k - 1 \in A, p[k] # NULO,
                            NEW j \in 0..n, j < k
                     PROVE  p[j] # NULO /\ r[p[j]] < r[p[k]]
        OBVIOUS
      <3>2. p[k - 1] \in S /\ p[k] = T.celda[p[k - 1]][sig] /\ p[k] \in S
        BY <1>4, <1>5, <3>1
      <3>3. r[p[k - 1]] < r[p[k]]
        BY <3>1, <3>2 DEF Sendero
      <3>4. j < k - 1 => p[j] # NULO /\ r[p[j]] < r[p[k - 1]]
        BY <3>1, <3>2, CeldasAssumption DEF Sendero
      <3>5. p[j] \in S \cup {NULO} /\ (j = k - 1 \/ j < k - 1)
        BY <1>5, <3>1
      <3>6. \A c \in S : r[c] \in Int
        BY DEF Sendero
      <3>7. QED
        BY <3>2, <3>3, <3>4, <3>5, <3>6, CeldasAssumption DEF Sendero
    <2> HIDE DEF A
    <2>3. \A k \in 0..n : k \in A
      BY <1>1, <2>1, <2>2, HastaN
    <2>4. QED
      BY <2>3 DEF A
  <1>8. QED
    BY <1>1, <1>3, <1>5, <1>6, <1>7

\* A way ends within as many steps as there are cells.
LEMMA HayFin ==
    ASSUME NEW T, NEW S, NEW ini, NEW sig, NEW r, NEW b, Sendero(T, S, ini, sig, r, b),
           NEW p, p = Pasos(T, ini, sig),
           NEW n, n = Cardinality(Celdas)
    PROVE  p[n] = NULO
  <1>1. SUFFICES ASSUME p[n] # NULO PROVE FALSE
    OBVIOUS
  <1>2. /\ n \in Nat /\ DOMAIN p = 0..n
        /\ \A k \in 0..n : p[k] \in S \cup {NULO}
        /\ \A j, k \in 0..n : j < k /\ p[k] # NULO => p[j] # NULO /\ r[p[j]] < r[p[k]]
    BY PasoAPaso
  <1>3. \A k \in 0..n : p[k] \in S /\ p[k] \in Celdas
    BY <1>1, <1>2 DEF Sendero
  <1> DEFINE q == [k \in 0..n |-> p[k]]
  <1>4. q \in [0..n -> Celdas]
    BY <1>3
  <1>5. \A c \in Celdas : r[c] \in Int
    BY DEF Sendero
  <1>6. \A j, k \in 0..n : j # k => q[j] # q[k]
    <2>1. \A j, k \in 0..n : j < k => r[p[j]] < r[p[k]]
      BY <1>2, <1>3, CeldasAssumption
    <2>2. \A j, k \in 0..n : j < k => p[j] # p[k]
      BY <1>3, <1>5, <2>1
    <2>3. \A j, k \in 0..n : j # k => j < k \/ k < j
      BY <1>2
    <2>4. QED
      BY <2>2, <2>3
  <1>7. IsFiniteSet(0..n) /\ Cardinality(0..n) = n + 1
    BY <1>2, FS_Interval
  <1>8. Cardinality(0..n) > Cardinality(Celdas)
    BY <1>2, <1>7
  <1> HIDE DEF q
  <1>9. \E j, k \in 0..n : j # k /\ q[j] = q[k]
    BY <1>4, <1>7, <1>8, CeldasAssumption, FS_PigeonHole
  <1>10. QED
    BY <1>6, <1>9

\* The way visits every cell of S.
LEMMA Visita ==
    ASSUME NEW T, NEW S, NEW ini, NEW sig, NEW r, NEW b, Sendero(T, S, ini, sig, r, b),
           NEW p, p = Pasos(T, ini, sig),
           NEW n, n = Cardinality(Celdas)
    PROVE  \A c \in S : \E k \in 0..n : p[k] = c
  <1> DEFINE M == {c \in S : ~ \E k \in 0..n : p[k] = c}
             A == {r[c] + b : c \in M}
  <1>1. SUFFICES ASSUME M # {} PROVE FALSE
    OBVIOUS
  <1>2. b \in Nat /\ \A c \in S : r[c] \in (-b)..b /\ c # NULO
    BY CeldasAssumption DEF Sendero
  <1>3. A \subseteq Nat /\ A # {}
    BY <1>1, <1>2
  <1>4. PICK m \in A : \A a \in A : m <= a
    BY <1>3, Minimo
  <1>5. PICK c \in M : m = r[c] + b
    BY <1>4
  <1>6. \A d \in M : r[c] <= r[d]
    BY <1>2, <1>4, <1>5
  <1>7. /\ n \in Nat /\ p[0] = ini
        /\ \A k \in 0..(n - 1) : p[k] # NULO => p[k + 1] = T.celda[p[k]][sig]
    BY PasoAPaso
  <1>8. p[n] = NULO
    BY HayFin
  <1>9. c # ini
    BY <1>7
  <1>10. PICK d \in S : T.celda[d][sig] = c
    BY <1>9 DEF Sendero
  <1>11. r[d] < r[c]
    BY <1>2, <1>10 DEF Sendero
  <1>12. d \notin M
    BY <1>2, <1>6, <1>11
  <1>13. PICK k \in 0..n : p[k] = d
    BY <1>12
  <1>14. k \in 0..(n - 1)
    BY <1>2, <1>7, <1>8, <1>13
  <1>15. p[k + 1] = c /\ k + 1 \in 0..n
    BY <1>2, <1>7, <1>10, <1>13, <1>14
  <1>16. QED
    BY <1>15

\* Following a way lists its cells, each once, in its order.
LEMMA SeguirSendero ==
    ASSUME NEW T, NEW S, NEW ini, NEW sig, NEW r, NEW b, Sendero(T, S, ini, sig, r, b),
           NEW s, s = Seguir(T, ini, sig)
    PROVE  /\ IsFiniteSet(S)
           /\ s \in Seq(S) /\ Len(s) = Cardinality(S) /\ IsInjective(s) /\ ToSet(s) = S
           /\ s = <<>> <=> ini = NULO
           /\ s # <<>> => s[1] = ini /\ T.celda[s[Len(s)]][sig] = NULO
           /\ \A k \in 1..(Len(s) - 1) : T.celda[s[k]][sig] = s[k + 1]
  <1> DEFINE n == Cardinality(Celdas)
             p == Pasos(T, ini, sig)
             K == {k \in DOMAIN p : p[k] # NULO}
             B == {k \in 0..n : p[k] = NULO}
  <1>1. /\ n \in Nat /\ DOMAIN p = 0..n /\ p[0] = ini
        /\ \A k \in 0..n : p[k] \in S \cup {NULO}
        /\ \A k \in 0..(n - 1) : p[k] # NULO => p[k + 1] = T.celda[p[k]][sig]
        /\ \A j, k \in 0..n : j < k /\ p[k] # NULO => p[j] # NULO /\ r[p[j]] < r[p[k]]
    BY PasoAPaso
  <1>2. p[n] = NULO
    BY HayFin
  <1>3. \A c \in S : \E k \in 0..n : p[k] = c
    BY Visita
  <1>4. \A c \in S : c \in Celdas /\ c # NULO /\ r[c] \in Int
    BY CeldasAssumption DEF Sendero
  <1>5. s = [k \in 1..Cardinality(K) |-> p[k - 1]]
    BY DEF Seguir
  <1> HIDE DEF p, n
  <1>6. B \subseteq Nat /\ B # {}
    BY <1>1, <1>2
  <1> HIDE DEF B
  <1>7. PICK m \in B : \A k \in B : m <= k
    BY <1>6, Minimo
  <1>8. K = 0..(m - 1) /\ m \in Nat
    BY <1>1, <1>7 DEF B
  <1>9. m \in 0..n /\ p[m] = NULO /\ \A k \in 0..(m - 1) : k \in 0..n /\ p[k] # NULO
    BY <1>1, <1>7 DEF B
  <1> HIDE DEF K
  <1>10. Cardinality(K) = m
    BY <1>8, FS_Interval
  <1>11. DOMAIN s = 1..m /\ \A k \in 1..m : s[k] = p[k - 1] /\ s[k] \in S
    <2>1. DOMAIN s = 1..m /\ \A k \in 1..m : s[k] = p[k - 1]
      BY <1>5, <1>10
    <2>2. \A k \in 1..m : k - 1 \in 0..n /\ p[k - 1] # NULO
      BY <1>9
    <2>3. QED
      BY <1>1, <2>1, <2>2
  <1>12. s \in Seq(S) /\ Len(s) = m
    <2>1. s \in [1..m -> S]
      BY <1>5, <1>10, <1>11
    <2>2. QED
      BY <1>8, <2>1
  <1>13. IsInjective(s)
    <2>1. \A j, k \in 1..m : j < k => r[s[j]] < r[s[k]]
      <3>1. SUFFICES ASSUME NEW j \in 1..m, NEW k \in 1..m, j < k
                     PROVE  r[s[j]] < r[s[k]]
        OBVIOUS
      <3>2. j - 1 \in 0..n /\ k - 1 \in 0..n /\ j - 1 < k - 1 /\ p[k - 1] # NULO
        BY <1>9, <3>1
      <3>3. QED
        BY <1>1, <1>11, <3>2
    <2>2. \A j, k \in 1..m : j < k => s[j] # s[k]
      <3>1. SUFFICES ASSUME NEW j \in 1..m, NEW k \in 1..m, j < k, s[j] = s[k]
                     PROVE  FALSE
        OBVIOUS
      <3>2. r[s[j]] < r[s[j]] /\ r[s[j]] \in Int
        BY <1>4, <1>11, <2>1, <3>1
      <3>3. QED
        BY <3>2
    <2>3. \A j, k \in 1..m : j # k => j < k \/ k < j
      BY <1>8
    <2>4. QED
      BY <1>11, <2>2, <2>3 DEF IsInjective
  <1>14. ToSet(s) = S
    <2>1. \A c \in S : \E k \in 1..m : s[k] = c
      <3>1. SUFFICES ASSUME NEW c \in S PROVE \E k \in 1..m : s[k] = c
        OBVIOUS
      <3>2. PICK k \in 0..n : p[k] = c
        BY <1>3
      <3>3. k \in K
        BY <1>1, <1>4, <3>2 DEF K
      <3>4. k + 1 \in 1..m /\ (k + 1) - 1 = k
        BY <1>8, <3>3
      <3>5. QED
        BY <1>11, <3>2, <3>4
    <2>2. QED
      BY <1>11, <2>1 DEF ToSet
  <1>15. IsFiniteSet(S) /\ Cardinality(S) = m
    <2>1. IsFiniteSet(S)
      BY CeldasAssumption, FS_Subset DEF Sendero
    <2> DEFINE q == [k \in 1..m |-> s[k]]
    <2>2. q \in Bijection(1..m, S)
      <3>1. q \in [1..m -> S]
        BY <1>11
      <3>2. \A j, k \in 1..m : q[j] = q[k] => j = k
        BY <1>11, <1>13 DEF IsInjective
      <3>3. \A c \in S : \E k \in 1..m : q[k] = c
        BY <1>11, <1>14 DEF ToSet
      <3> HIDE DEF q
      <3>4. QED
        BY <3>1, <3>2, <3>3 DEF Bijection, Injection, Surjection, IsInjective
    <2>3. IsFiniteSet(1..m) /\ Cardinality(1..m) = m
      BY <1>8, FS_Interval
    <2>4. ExistsBijection(1..m, S)
      BY <2>2 DEF ExistsBijection
    <2>5. QED
      BY <2>1, <2>3, <2>4, FS_Bijection
  <1>16. s = <<>> <=> ini = NULO
    <2>1. s = <<>> <=> m = 0
      BY <1>12
    <2>2. m = 0 <=> p[0] = NULO
      BY <1>8, <1>9
    <2>3. QED
      BY <1>1, <2>1, <2>2
  <1>17. s # <<>> => s[1] = ini /\ T.celda[s[Len(s)]][sig] = NULO
    <2>1. SUFFICES ASSUME s # <<>> PROVE s[1] = ini /\ T.celda[s[m]][sig] = NULO
      BY <1>12
    <2>2. m \in 1..n
      BY <1>1, <1>12, <1>9, <2>1
    <2>3. s[1] = p[0] /\ s[m] = p[m - 1]
      <3>1. 1 \in 1..m /\ m \in 1..m /\ 1 - 1 = 0
        BY <2>2
      <3>2. QED
        BY <1>11, <3>1
    <2>4. m - 1 \in 0..(n - 1) /\ m - 1 \in 0..(m - 1)
      BY <1>1, <2>2
    <2>5. p[m] = T.celda[p[m - 1]][sig]
      <3>1. (m - 1) + 1 = m
        BY <2>2
      <3>2. QED
        BY <1>1, <1>9, <2>4, <3>1
    <2>6. QED
      BY <1>1, <1>9, <2>3, <2>5
  <1>18. \A k \in 1..(m - 1) : T.celda[s[k]][sig] = s[k + 1]
    <2>1. SUFFICES ASSUME NEW k \in 1..(m - 1) PROVE T.celda[s[k]][sig] = s[k + 1]
      OBVIOUS
    <2>2. s[k] = p[k - 1] /\ k - 1 \in 0..(n - 1) /\ p[k - 1] # NULO
      BY <1>1, <1>8, <1>9, <1>11, <2>1
    <2>3. s[k + 1] = p[k] /\ (k - 1) + 1 = k
      BY <1>8, <1>11, <2>1
    <2>4. QED
      BY <1>1, <2>2, <2>3
  <1>19. QED
    BY <1>12, <1>13, <1>14, <1>15, <1>16, <1>17, <1>18

-----------------------------------------------------------------------------
(* Shapes *)

\* A table of n chains.
Tablas(n) == [cap : {n}, num : Int, primero : Punteros, ultimo : Punteros,
              casilla : [Casillas(n) -> Punteros], celda : [Celdas -> Nodo \cup {NULO}]]

\* The cells S are linked both ways by the pointers of the list, in the order
\* of the ranks r, from primero to ultimo.
EnLista(T, S, r, c) ==
    LET n == T.celda[c] IN
    /\ n \in Nodo
    /\ n.antLista = NULO => T.primero = c
    /\ n.antLista # NULO => n.antLista \in S /\ T.celda[n.antLista].sigLista = c
    /\ n.sigLista = NULO => T.ultimo = c
    /\ n.sigLista # NULO => /\ n.sigLista \in S /\ T.celda[n.sigLista].antLista = c
                            /\ r[c] < r[n.sigLista]
FormaLista(T, S, r, b) ==
    /\ S \subseteq Celdas /\ b \in Nat /\ r \in [Celdas -> (-b)..b]
    /\ T.primero \in S \cup {NULO} /\ T.ultimo \in S \cup {NULO}
    /\ T.primero # NULO => T.celda[T.primero].antLista = NULO
    /\ T.ultimo # NULO => T.celda[T.ultimo].sigLista = NULO
    /\ \A c \in S : EnLista(T, S, r, c)

\* The cells A are linked both ways by the pointers of the chains, in the
\* order of the ranks h, each in the chain of its address.
EnSuCadena(T, A, h, c) ==
    LET n == T.celda[c] IN
    /\ n \in Nodo
    /\ n.antHash = NULO => T.casilla[Idx(T, n.ip)] = c
    /\ n.antHash # NULO => /\ n.antHash \in A /\ T.celda[n.antHash].sigHash = c
                           /\ Idx(T, T.celda[n.antHash].ip) = Idx(T, n.ip)
    /\ n.sigHash # NULO => /\ n.sigHash \in A /\ T.celda[n.sigHash].antHash = c
                           /\ Idx(T, T.celda[n.sigHash].ip) = Idx(T, n.ip)
                           /\ h[c] < h[n.sigHash]
EsCabeza(T, A, k) ==
    T.casilla[k] # NULO => /\ T.casilla[k] \in A /\ T.celda[T.casilla[k]].antHash = NULO
                           /\ Idx(T, T.celda[T.casilla[k]].ip) = k
FormaCadenas(T, A, h, b) ==
    /\ A \subseteq Celdas /\ b \in Nat /\ h \in [Celdas -> (-b)..b]
    /\ \A k \in Casillas(T.cap) : EsCabeza(T, A, k)
    /\ \A c \in A : EnSuCadena(T, A, h, c)

\* Every address has a chain.
LEMMA IdxRango ==
    ASSUME NEW n \in Nat \ {0}, NEW T \in Tablas(n), NEW i \in Ips
    PROVE  Idx(T, i) \in Casillas(n) /\ Idx(T, i) = Hash[i] % n
  <1>1. T.cap = n /\ Hash[i] \in Nat
    BY HashAssumption DEF Tablas
  <1>2. Hash[i] % n \in 0..(n - 1)
    BY <1>1, Resto
  <1>3. QED
    BY <1>1, <1>2 DEF Idx, Casillas

\* Following the list lists its cells.
LEMMA ListaForma ==
    ASSUME NEW T, NEW S, NEW r, NEW b, FormaLista(T, S, r, b),
           NEW s, s = Lista(T)
    PROVE  /\ IsFiniteSet(S)
           /\ s \in Seq(S) /\ Len(s) = Cardinality(S) /\ IsInjective(s) /\ ToSet(s) = S
           /\ s = <<>> <=> T.primero = NULO
           /\ s # <<>> => s[1] = T.primero /\ T.celda[s[Len(s)]].sigLista = NULO
           /\ \A k \in 1..(Len(s) - 1) : T.celda[s[k]].sigLista = s[k + 1]
  <1>1. Sendero(T, S, T.primero, "sigLista", r, b)
    <2>1. S \subseteq Celdas /\ b \in Nat /\ r \in [Celdas -> (-b)..b]
          /\ T.primero \in S \cup {NULO}
      BY DEF FormaLista
    <2>2. SUFFICES ASSUME NEW c \in S
                   PROVE  /\ T.celda[c]["sigLista"] \in S \cup {NULO}
                          /\ T.celda[c]["sigLista"] # NULO => r[c] < r[T.celda[c]["sigLista"]]
                          /\ c = T.primero \/ \E d \in S : T.celda[d]["sigLista"] = c
      BY <2>1 DEF Sendero
    <2>3. EnLista(T, S, r, c)
      BY DEF FormaLista
    <2>4. QED
      BY <2>3 DEF EnLista
  <1>2. s = Seguir(T, T.primero, "sigLista")
    BY DEF Lista
  <1>3. QED
    BY <1>1, <1>2, SeguirSendero

\* The list is empty when it has no last cell.
LEMMA UltimoForma ==
    ASSUME NEW T, NEW S, NEW r, NEW b, FormaLista(T, S, r, b)
    PROVE  T.ultimo = NULO <=> S = {}
  <1>1. PICK s : s = Lista(T)
    OBVIOUS
  <1>2. /\ s \in Seq(S) /\ ToSet(s) = S
        /\ s # <<>> => T.celda[s[Len(s)]].sigLista = NULO
    BY <1>1, ListaForma
  <1>3. S # {} => s # <<>>
    BY <1>2 DEF ToSet
  <1>4. s # <<>> => s[Len(s)] \in S
    BY <1>2
  <1>5. S # {} => \E c \in S : T.celda[c].sigLista = NULO
    BY <1>2, <1>3, <1>4
  <1>6. \A c \in S : c # NULO /\ EnLista(T, S, r, c)
    BY CeldasAssumption DEF FormaLista
  <1>7. QED
    BY <1>5, <1>6 DEF FormaLista, EnLista

\* The list is empty when it has no first cell.
LEMMA PrimeroForma ==
    ASSUME NEW T, NEW S, NEW r, NEW b, FormaLista(T, S, r, b)
    PROVE  T.primero = NULO <=> S = {}
  <1>1. PICK s : s = Lista(T)
    OBVIOUS
  <1>2. s \in Seq(S) /\ ToSet(s) = S /\ (s = <<>> <=> T.primero = NULO)
    BY <1>1, ListaForma
  <1>3. S # {} <=> s # <<>>
    BY <1>2 DEF ToSet
  <1>4. QED
    BY <1>2, <1>3

\* The cells of a chain.
DeCasilla(T, A, k) == {c \in A : Idx(T, T.celda[c].ip) = k}

\* Following a chain lists its cells.
LEMMA CadenaForma ==
    ASSUME NEW n \in Nat \ {0}, NEW T \in Tablas(n), NEW A, NEW h, NEW b,
           FormaCadenas(T, A, h, b),
           NEW k \in Casillas(n), NEW s, s = Cadena(T, k)
    PROVE  /\ IsFiniteSet(DeCasilla(T, A, k))
           /\ s \in Seq(DeCasilla(T, A, k)) /\ IsInjective(s) /\ ToSet(s) = DeCasilla(T, A, k)
           /\ s = <<>> <=> T.casilla[k] = NULO
           /\ s # <<>> => s[1] = T.casilla[k]
           /\ \A j \in 1..(Len(s) - 1) : T.celda[s[j]].sigHash = s[j + 1]
  <1> DEFINE S == DeCasilla(T, A, k)
  <1>1. T.cap = n /\ EsCabeza(T, A, k)
    BY DEF FormaCadenas, Tablas
  <1>2. Sendero(T, S, T.casilla[k], "sigHash", h, b)
    <2>1. S \subseteq Celdas /\ b \in Nat /\ h \in [Celdas -> (-b)..b]
      BY DEF FormaCadenas, DeCasilla
    <2>2. T.casilla[k] \in S \cup {NULO}
      BY <1>1 DEF EsCabeza, DeCasilla
    <2>3. SUFFICES ASSUME NEW c \in S
                   PROVE  /\ T.celda[c]["sigHash"] \in S \cup {NULO}
                          /\ T.celda[c]["sigHash"] # NULO => h[c] < h[T.celda[c]["sigHash"]]
                          /\ c = T.casilla[k] \/ \E d \in S : T.celda[d]["sigHash"] = c
      BY <2>1, <2>2 DEF Sendero
    <2>4. c \in A /\ Idx(T, T.celda[c].ip) = k /\ EnSuCadena(T, A, h, c)
      BY DEF FormaCadenas, DeCasilla
    <2>5. T.celda[c]["sigHash"] \in S \cup {NULO}
      BY <2>4 DEF EnSuCadena, DeCasilla
    <2>6. c = T.casilla[k] \/ \E d \in S : T.celda[d]["sigHash"] = c
      BY <2>4 DEF EnSuCadena, DeCasilla
    <2>7. QED
      BY <2>4, <2>5, <2>6 DEF EnSuCadena
  <1>3. s = Seguir(T, T.casilla[k], "sigHash")
    BY DEF Cadena
  <1> HIDE DEF S
  <1>4. QED
    BY <1>2, <1>3, SeguirSendero DEF S

-----------------------------------------------------------------------------
(* Writes *)

\* The fields a pointer is written to.
Campos == {"sigHash", "antHash", "sigLista", "antLista"}

\* A write changes one field of one cell.
LEMMA PonCampo ==
    ASSUME NEW n, NEW T \in Tablas(n), NEW c \in Celdas, T.celda[c] \in Nodo,
           NEW campo \in Campos, NEW v \in Punteros,
           NEW U, U = Pon(T, c, campo, v)
    PROVE  /\ U \in Tablas(n)
           /\ U.celda[c] \in Nodo /\ U.celda[c] = [T.celda[c] EXCEPT ![campo] = v]
           /\ \A d \in Celdas : d # c => U.celda[d] = T.celda[d]
           /\ U.cap = T.cap /\ U.num = T.num /\ U.primero = T.primero
           /\ U.ultimo = T.ultimo /\ U.casilla = T.casilla
  <1>1. [T.celda[c] EXCEPT ![campo] = v] \in Nodo
    BY DEF Nodo, Campos
  <1>2. U.celda = [T.celda EXCEPT ![c] = [T.celda[c] EXCEPT ![campo] = v]]
    BY DEF Pon, Tablas
  <1>3. U \in Tablas(n)
    BY <1>1 DEF Pon, Tablas
  <1>4. /\ U.cap = T.cap /\ U.num = T.num /\ U.primero = T.primero
        /\ U.ultimo = T.ultimo /\ U.casilla = T.casilla
    BY DEF Pon, Tablas
  <1>5. QED
    BY <1>1, <1>2, <1>3, <1>4 DEF Tablas

\* What EnCadena writes: c becomes the head of chain k, before p.
TrasEnCadena(T, U, n, c, k, p) ==
    /\ U \in Tablas(n)
    /\ U.num = T.num /\ U.primero = T.primero /\ U.ultimo = T.ultimo
    /\ U.celda[c] = [T.celda[c] EXCEPT !.antHash = NULO, !.sigHash = p]
    /\ p # NULO => U.celda[p] = [T.celda[p] EXCEPT !.antHash = c]
    /\ \A d \in Celdas : d # c /\ d # p => U.celda[d] = T.celda[d]
    /\ U.casilla = [T.casilla EXCEPT ![k] = c]

\* It writes that.
LEMMA EnCadenaEs ==
    ASSUME NEW n \in Nat \ {0}, NEW T \in Tablas(n), NEW c \in Celdas, T.celda[c] \in Nodo,
           NEW k \in Casillas(n), k = Idx(T, T.celda[c].ip),
           NEW p, p = T.casilla[k], p # NULO => p \in Celdas /\ p # c /\ T.celda[p] \in Nodo,
           NEW U, U = EnCadena(T, c)
    PROVE  TrasEnCadena(T, U, n, c, k, p)
  <1>1. p \in Punteros /\ NULO \in Punteros /\ c \in Punteros
    BY DEF Punteros, Tablas
  <1>2. "antHash" \in Campos /\ "sigHash" \in Campos
    BY DEF Campos
  <1>3. PICK T0 : T0 = Pon(T, c, "antHash", NULO)
    OBVIOUS
  <1>4. /\ T0 \in Tablas(n)
        /\ T0.celda[c] \in Nodo /\ T0.celda[c] = [T.celda[c] EXCEPT !["antHash"] = NULO]
        /\ \A d \in Celdas : d # c => T0.celda[d] = T.celda[d]
        /\ T0.cap = T.cap /\ T0.num = T.num /\ T0.primero = T.primero
        /\ T0.ultimo = T.ultimo /\ T0.casilla = T.casilla
    BY <1>1, <1>2, <1>3, PonCampo
  <1>5. PICK T1 : T1 = Pon(T0, c, "sigHash", p)
    OBVIOUS
  <1>6. /\ T1 \in Tablas(n)
        /\ T1.celda[c] \in Nodo /\ T1.celda[c] = [T0.celda[c] EXCEPT !["sigHash"] = p]
        /\ \A d \in Celdas : d # c => T1.celda[d] = T0.celda[d]
        /\ T1.cap = T0.cap /\ T1.num = T0.num /\ T1.primero = T0.primero
        /\ T1.ultimo = T0.ultimo /\ T1.casilla = T0.casilla
    BY <1>1, <1>2, <1>4, <1>5, PonCampo
  <1>7. PICK T2 : T2 = IF p = NULO THEN T1 ELSE Pon(T1, p, "antHash", c)
    OBVIOUS
  <1>8. /\ T2 \in Tablas(n)
        /\ p # NULO => T2.celda[p] = [T1.celda[p] EXCEPT !["antHash"] = c]
        /\ \A d \in Celdas : d # p => T2.celda[d] = T1.celda[d]
        /\ T2.cap = T1.cap /\ T2.num = T1.num /\ T2.primero = T1.primero
        /\ T2.ultimo = T1.ultimo /\ T2.casilla = T1.casilla
    <2>1. CASE p = NULO
      BY <1>6, <1>7, <2>1
    <2>2. CASE p # NULO
      <3>1. p \in Celdas /\ T1.celda[p] \in Nodo /\ T2 = Pon(T1, p, "antHash", c)
        BY <1>4, <1>6, <1>7, <2>2
      <3>2. ASSUME NEW q \in Celdas, T1.celda[q] \in Nodo, T2 = Pon(T1, q, "antHash", c)
            PROVE  /\ T2 \in Tablas(n)
                   /\ T2.celda[q] = [T1.celda[q] EXCEPT !["antHash"] = c]
                   /\ \A d \in Celdas : d # q => T2.celda[d] = T1.celda[d]
                   /\ T2.cap = T1.cap /\ T2.num = T1.num /\ T2.primero = T1.primero
                   /\ T2.ultimo = T1.ultimo /\ T2.casilla = T1.casilla
        <4>1. T1 \in Tablas(n) /\ c \in Punteros
          BY <1>1, <1>6
        <4>2. QED
          BY <1>2, <3>2, <4>1, PonCampo
      <3>3. QED
        BY Zenon, <3>1, <3>2
    <2>3. QED
      BY <2>1, <2>2
  <1>9. U = [T2 EXCEPT !.casilla[k] = c]
    BY <1>3, <1>5, <1>7 DEF EnCadena
  <1>10. /\ U \in Tablas(n)
         /\ U.num = T2.num /\ U.primero = T2.primero /\ U.ultimo = T2.ultimo
         /\ U.celda = T2.celda /\ U.casilla = [T2.casilla EXCEPT ![k] = c]
    BY <1>1, <1>8, <1>9 DEF Tablas
  <1>11. T1.celda[c] = [T.celda[c] EXCEPT !.antHash = NULO, !.sigHash = p]
    BY <1>4, <1>6 DEF Nodo
  <1>12. p # NULO => T1.celda[p] = T.celda[p]
    BY <1>4, <1>6
  <1>13. c # p
    BY CeldasAssumption
  <1>14. U.celda[c] = T1.celda[c]
    BY <1>8, <1>10, <1>13
  <1>15. p # NULO => U.celda[p] = [T.celda[p] EXCEPT !.antHash = c]
    BY <1>8, <1>10, <1>12
  <1>16. \A d \in Celdas : d # c /\ d # p => U.celda[d] = T.celda[d]
    BY <1>4, <1>6, <1>8, <1>10
  <1>17. U.casilla = [T.casilla EXCEPT ![k] = c]
    BY <1>4, <1>6, <1>8, <1>10
  <1>18. U.num = T.num /\ U.primero = T.primero /\ U.ultimo = T.ultimo
    BY <1>4, <1>6, <1>8, <1>10
  <1>19. QED
    BY <1>10, <1>11, <1>14, <1>15, <1>16, <1>17, <1>18 DEF TrasEnCadena

\* Two tables hold the same cells, with the same data.
MismosDatos(T, U) ==
    \A d \in Celdas : /\ U.celda[d] = NULO <=> T.celda[d] = NULO
                      /\ T.celda[d] # NULO => /\ U.celda[d].ip = T.celda[d].ip
                                              /\ U.celda[d].anuncio = T.celda[d].anuncio

\* Two tables have the same list over the cells S.
MismaLista(T, U, S) ==
    /\ U.num = T.num /\ U.primero = T.primero /\ U.ultimo = T.ultimo
    /\ \A d \in S : T.celda[d] \in Nodo => /\ U.celda[d] \in Nodo
                                           /\ U.celda[d].sigLista = T.celda[d].sigLista
                                           /\ U.celda[d].antLista = T.celda[d].antLista

\* The same list has the same shape.
LEMMA MismaForma ==
    ASSUME NEW T, NEW U, NEW S, NEW r, NEW b, FormaLista(T, S, r, b), MismaLista(T, U, S)
    PROVE  FormaLista(U, S, r, b)
  <1>1. \A c \in S : EnLista(T, S, r, c)
    BY DEF FormaLista
  <1>2. \A c \in S : /\ T.celda[c] \in Nodo /\ U.celda[c] \in Nodo
                     /\ U.celda[c].sigLista = T.celda[c].sigLista
                     /\ U.celda[c].antLista = T.celda[c].antLista
    BY <1>1 DEF EnLista, MismaLista
  <1>3. \A c \in S : EnLista(U, S, r, c)
    BY <1>1, <1>2 DEF EnLista, MismaLista
  <1>4. QED
    BY <1>2, <1>3 DEF FormaLista, MismaLista

\* The ranks where c comes before all others, or after them.
Antes(r, c, b) == [r EXCEPT ![c] = -(b + 1)]
Despues(r, c, b) == [r EXCEPT ![c] = b + 1]

\* The bounds of ranks may be wider.
LEMMA MasAncho ==
    ASSUME NEW b \in Nat, NEW r \in [Celdas -> (-b)..b], NEW c \in Celdas
    PROVE  /\ r \in [Celdas -> (-(b + 1))..(b + 1)]
           /\ Antes(r, c, b) \in [Celdas -> (-(b + 1))..(b + 1)]
           /\ Despues(r, c, b) \in [Celdas -> (-(b + 1))..(b + 1)]
           /\ \A d \in Celdas : r[d] \in (-b)..b
           /\ Antes(r, c, b)[c] = -(b + 1) /\ Despues(r, c, b)[c] = b + 1
           /\ \A d \in Celdas : d # c => Antes(r, c, b)[d] = r[d] /\ Despues(r, c, b)[d] = r[d]
  BY DEF Antes, Despues

\* EnCadena makes a cell the head of its chain and leaves the list alone.
LEMMA EnCadenaForma ==
    ASSUME NEW n \in Nat \ {0}, NEW T \in Tablas(n), NEW A, NEW h, NEW b,
           FormaCadenas(T, A, h, b),
           NEW c \in Celdas, c \notin A, T.celda[c] \in Nodo,
           NEW U, U = EnCadena(T, c)
    PROVE  /\ U \in Tablas(n) /\ MismosDatos(T, U) /\ MismaLista(T, U, Celdas)
           /\ FormaCadenas(U, A \cup {c}, Antes(h, c, b), b + 1)
  <1>1. PICK k : k = Idx(T, T.celda[c].ip)
    OBVIOUS
  <1>2. T.celda[c].ip \in Ips
    BY DEF Nodo
  <1>3. k \in Casillas(n)
    BY <1>1, <1>2, IdxRango
  <1>4. PICK p : p = T.casilla[k]
    OBVIOUS
  <1>5. T.cap = n /\ EsCabeza(T, A, k) /\ \A d \in A : d \in Celdas /\ EnSuCadena(T, A, h, d)
    BY <1>3 DEF Tablas, FormaCadenas
  <1>6. p # NULO => /\ p \in A /\ p \in Celdas /\ p # c /\ T.celda[p] \in Nodo
                    /\ T.celda[p].antHash = NULO /\ Idx(T, T.celda[p].ip) = k
    BY <1>4, <1>5 DEF EsCabeza, EnSuCadena
  <1>7. /\ U \in Tablas(n)
        /\ U.num = T.num /\ U.primero = T.primero /\ U.ultimo = T.ultimo
        /\ U.celda[c] = [T.celda[c] EXCEPT !.antHash = NULO, !.sigHash = p]
        /\ p # NULO => U.celda[p] = [T.celda[p] EXCEPT !.antHash = c]
        /\ \A d \in Celdas : d # c /\ d # p => U.celda[d] = T.celda[d]
        /\ U.casilla = [T.casilla EXCEPT ![k] = c]
    <2>1. p # NULO => p \in Celdas /\ p # c /\ T.celda[p] \in Nodo
      BY <1>6
    <2>2. TrasEnCadena(T, U, n, c, k, p)
      BY <1>1, <1>3, <1>4, <2>1, EnCadenaEs
    <2>3. QED
      BY <2>2 DEF TrasEnCadena
  <1>8. \A d \in Celdas : d = c \/ (p # NULO /\ d = p) \/ U.celda[d] = T.celda[d]
    BY <1>7, CeldasAssumption
  <1>9. p \in Punteros /\ c \in Punteros /\ NULO \in Punteros /\ c # NULO
    BY <1>6, CeldasAssumption DEF Punteros
  <1>10. /\ U.celda[c] \in Nodo /\ U.celda[c].antHash = NULO /\ U.celda[c].sigHash = p
        /\ U.celda[c].ip = T.celda[c].ip /\ U.celda[c].anuncio = T.celda[c].anuncio
        /\ U.celda[c].sigLista = T.celda[c].sigLista
        /\ U.celda[c].antLista = T.celda[c].antLista
    BY <1>7, <1>9 DEF Nodo
  <1>11. p # NULO => /\ U.celda[p] \in Nodo /\ U.celda[p].antHash = c
                     /\ U.celda[p].sigHash = T.celda[p].sigHash
                     /\ U.celda[p].ip = T.celda[p].ip /\ U.celda[p].anuncio = T.celda[p].anuncio
                     /\ U.celda[p].sigLista = T.celda[p].sigLista
                     /\ U.celda[p].antLista = T.celda[p].antLista
    BY <1>6, <1>7, <1>9 DEF Nodo
  <1>12. MismosDatos(T, U)
    <2>1. SUFFICES ASSUME NEW d \in Celdas
                   PROVE  /\ U.celda[d] = NULO <=> T.celda[d] = NULO
                          /\ T.celda[d] # NULO => /\ U.celda[d].ip = T.celda[d].ip
                                                  /\ U.celda[d].anuncio = T.celda[d].anuncio
      BY DEF MismosDatos
    <2>2. CASE d = c
      BY <1>10, <2>2, NodoAssumption
    <2>3. CASE p # NULO /\ d = p
      BY <1>6, <1>11, <2>3, NodoAssumption
    <2>4. QED
      BY <1>8, <2>2, <2>3
  <1>13. MismaLista(T, U, Celdas)
    <2>1. SUFFICES ASSUME NEW d \in Celdas, T.celda[d] \in Nodo
                   PROVE  /\ U.celda[d] \in Nodo
                          /\ U.celda[d].sigLista = T.celda[d].sigLista
                          /\ U.celda[d].antLista = T.celda[d].antLista
      BY <1>7 DEF MismaLista
    <2>2. QED
      BY <1>10, <1>11, <1>8, <2>1
  <1>14. U.cap = n /\ \A i : Idx(U, i) = Idx(T, i)
    BY <1>5, <1>7 DEF Tablas, Idx
  <1>15. \A j \in Casillas(n) : U.casilla[j] = IF j = k THEN c ELSE T.casilla[j]
    BY <1>3, <1>7 DEF Tablas
  <1> DEFINE g == Antes(h, c, b)
             B == A \cup {c}
  <1>16. b \in Nat /\ h \in [Celdas -> (-b)..b]
    BY DEF FormaCadenas
  <1>17. /\ g \in [Celdas -> (-(b + 1))..(b + 1)] /\ g[c] = -(b + 1)
         /\ \A d \in Celdas : h[d] \in (-b)..b /\ (d # c => g[d] = h[d])
    BY <1>16, MasAncho
  <1>18. \A j \in Casillas(n) : EsCabeza(U, B, j)
    <2>1. SUFFICES ASSUME NEW j \in Casillas(n) PROVE EsCabeza(U, B, j)
      OBVIOUS
    <2>2. CASE j = k
      BY <1>1, <1>10, <1>14, <1>15, <2>2 DEF EsCabeza
    <2>3. CASE j # k
      <3>1. EsCabeza(T, A, j) /\ U.casilla[j] = T.casilla[j]
        BY <1>5, <1>15, <2>3 DEF FormaCadenas
      <3>2. SUFFICES ASSUME T.casilla[j] # NULO
                     PROVE  /\ T.casilla[j] \in B /\ U.celda[T.casilla[j]].antHash = NULO
                            /\ Idx(U, U.celda[T.casilla[j]].ip) = j
        BY <3>1 DEF EsCabeza
      <3>3. /\ T.casilla[j] \in A /\ T.celda[T.casilla[j]].antHash = NULO
            /\ Idx(T, T.celda[T.casilla[j]].ip) = j
        BY <3>1, <3>2 DEF EsCabeza
      <3>4. T.casilla[j] # c /\ T.casilla[j] # p
        BY <1>6, <2>3, <3>2, <3>3
      <3>5. U.celda[T.casilla[j]] = T.celda[T.casilla[j]]
        BY <1>5, <1>7, <3>3, <3>4
      <3>6. QED
        BY <1>14, <3>3, <3>5
    <2>4. QED
      BY <2>2, <2>3
  <1>19. EnSuCadena(U, B, g, c)
    BY <1>1, <1>3, <1>6, <1>10, <1>11, <1>14, <1>15, <1>16, <1>17 DEF EnSuCadena
  <1>20. \A d \in A : EnSuCadena(U, B, g, d)
    <2>1. SUFFICES ASSUME NEW d \in A PROVE EnSuCadena(U, B, g, d)
      OBVIOUS
    <2>2. d \in Celdas /\ d # c /\ EnSuCadena(T, A, h, d)
      BY <1>5
    <2>3. /\ U.celda[d] \in Nodo /\ U.celda[d].ip = T.celda[d].ip
          /\ U.celda[d].sigHash = T.celda[d].sigHash
          /\ d # p => U.celda[d].antHash = T.celda[d].antHash
      BY <1>11, <1>8, <2>2 DEF EnSuCadena
    <2>4. \A e \in A : U.celda[e].ip = T.celda[e].ip /\ U.celda[e].sigHash = T.celda[e].sigHash
      <3>1. SUFFICES ASSUME NEW e \in A
                     PROVE  U.celda[e].ip = T.celda[e].ip /\ U.celda[e].sigHash = T.celda[e].sigHash
        OBVIOUS
      <3>2. e \in Celdas /\ e # c
        BY <1>5
      <3>3. QED
        BY <1>11, <1>8, <3>2
    <2>5. T.celda[d].sigHash # NULO => T.celda[d].sigHash # p
      BY <1>6, <2>2, CeldasAssumption DEF EnSuCadena
    <2>6. \A e \in A : e # p => U.celda[e].antHash = T.celda[e].antHash
      BY <1>5, <1>7
    <2>7. d # p /\ T.casilla[Idx(T, T.celda[d].ip)] = d => Idx(T, T.celda[d].ip) # k
      BY <1>4
    <2>8. Idx(T, T.celda[d].ip) \in Casillas(n)
      BY <2>2, IdxRango DEF EnSuCadena, Nodo
    <2>9. U.celda[d].antHash = NULO => U.casilla[Idx(U, U.celda[d].ip)] = d
      <3>1. SUFFICES ASSUME U.celda[d].antHash = NULO PROVE U.casilla[Idx(T, T.celda[d].ip)] = d
        BY <1>14, <2>3
      <3>2. d # p
        BY <1>9, <1>11, <2>2, <3>1, CeldasAssumption
      <3>3. T.casilla[Idx(T, T.celda[d].ip)] = d
        BY <2>2, <2>3, <3>1, <3>2 DEF EnSuCadena
      <3>4. QED
        BY <1>15, <2>7, <2>8, <3>2, <3>3
    <2>10. U.celda[d].antHash # NULO =>
             /\ U.celda[d].antHash \in B /\ U.celda[U.celda[d].antHash].sigHash = d
             /\ Idx(U, U.celda[U.celda[d].antHash].ip) = Idx(U, U.celda[d].ip)
      <3>1. CASE d = p
        <4>1. p # NULO /\ U.celda[d].antHash = c /\ c \in B /\ U.celda[c].sigHash = d
          BY <1>10, <1>11, <2>2, <3>1, CeldasAssumption
        <4>2. Idx(U, U.celda[c].ip) = k /\ Idx(U, U.celda[d].ip) = k
          BY <1>1, <1>6, <1>10, <1>11, <1>14, <3>1, <4>1
        <4>3. QED
          BY <4>1, <4>2
      <3>2. CASE d # p
        BY <1>14, <2>2, <2>3, <2>4, <3>2 DEF EnSuCadena
      <3>3. QED
        BY <3>1, <3>2
    <2>11. U.celda[d].sigHash # NULO =>
             /\ U.celda[d].sigHash \in B /\ U.celda[U.celda[d].sigHash].antHash = d
             /\ Idx(U, U.celda[U.celda[d].sigHash].ip) = Idx(U, U.celda[d].ip)
             /\ g[d] < g[U.celda[d].sigHash]
      BY <1>5, <1>14, <1>17, <2>2, <2>3, <2>4, <2>5, <2>6 DEF EnSuCadena
    <2>12. QED
      BY <2>3, <2>9, <2>10, <2>11 DEF EnSuCadena
  <1>21. FormaCadenas(U, B, g, b + 1)
    <2>1. B \subseteq Celdas /\ b + 1 \in Nat
      BY <1>5, <1>16
    <2> HIDE DEF B, g
    <2>2. \A d \in B : EnSuCadena(U, B, g, d)
      BY <1>19, <1>20 DEF B
    <2>3. QED
      BY <1>14, <1>17, <1>18, <2>1, <2>2 DEF FormaCadenas
  <1>22. QED
    BY <1>7, <1>12, <1>13, <1>21

\* Two tables have the same chains over the cells A.
MismasCadenas(T, U, A) ==
    /\ U.cap = T.cap /\ U.casilla = T.casilla
    /\ \A d \in A : T.celda[d] \in Nodo => /\ U.celda[d] \in Nodo
                                           /\ U.celda[d].ip = T.celda[d].ip
                                           /\ U.celda[d].sigHash = T.celda[d].sigHash
                                           /\ U.celda[d].antHash = T.celda[d].antHash

\* The same chains have the same shape.
LEMMA MismaFormaCadenas ==
    ASSUME NEW T, NEW U, NEW A, NEW h, NEW b, FormaCadenas(T, A, h, b), MismasCadenas(T, U, A)
    PROVE  FormaCadenas(U, A, h, b)
  <1>1. \A c \in A : EnSuCadena(T, A, h, c)
    BY DEF FormaCadenas
  <1>2. \A c \in A : /\ T.celda[c] \in Nodo /\ U.celda[c] \in Nodo
                     /\ U.celda[c].ip = T.celda[c].ip
                     /\ U.celda[c].sigHash = T.celda[c].sigHash
                     /\ U.celda[c].antHash = T.celda[c].antHash
    BY <1>1 DEF EnSuCadena, MismasCadenas
  <1>3. \A i : Idx(U, i) = Idx(T, i)
    BY DEF Idx, MismasCadenas
  <1>4. U.casilla = T.casilla /\ U.cap = T.cap
    BY DEF MismasCadenas
  <1>5. \A c \in A : EnSuCadena(U, A, h, c)
    BY <1>1, <1>2, <1>3, <1>4 DEF EnSuCadena
  <1>6. \A k \in Casillas(U.cap) : EsCabeza(U, A, k)
    BY <1>2, <1>3, <1>4 DEF EsCabeza, FormaCadenas
  <1>7. QED
    BY <1>5, <1>6 DEF FormaCadenas

\* What AlFinal writes: c becomes the last cell, after u.
TrasAlFinal(T, U, n, c, u) ==
    /\ U \in Tablas(n)
    /\ U.num = T.num + 1 /\ U.casilla = T.casilla /\ U.ultimo = c
    /\ U.primero = IF u = NULO THEN c ELSE T.primero
    /\ U.celda[c] = [T.celda[c] EXCEPT !.antLista = u, !.sigLista = NULO]
    /\ u # NULO => U.celda[u] = [T.celda[u] EXCEPT !.sigLista = c]
    /\ \A d \in Celdas : d # c /\ d # u => U.celda[d] = T.celda[d]

\* It writes that.
LEMMA AlFinalEs ==
    ASSUME NEW n \in Nat \ {0}, NEW T \in Tablas(n), NEW c \in Celdas, T.celda[c] \in Nodo,
           NEW u, u = T.ultimo, u # NULO => u \in Celdas /\ u # c /\ T.celda[u] \in Nodo,
           T.num = 0 <=> u = NULO,
           NEW U, U = AlFinal(T, c)
    PROVE  TrasAlFinal(T, U, n, c, u)
  <1>1. u \in Punteros /\ NULO \in Punteros /\ c \in Punteros /\ c # NULO
    BY CeldasAssumption DEF Punteros, Tablas
  <1>2. "antLista" \in Campos /\ "sigLista" \in Campos
    BY DEF Campos
  <1>3. PICK T1 : T1 = IF T.num = 0
              THEN [T EXCEPT !.primero = c, !.celda[c].antLista = NULO]
              ELSE Pon(Pon(T, c, "antLista", T.ultimo), T.ultimo, "sigLista", c)
    OBVIOUS
  <1>4. /\ T1 \in Tablas(n)
        /\ T1.num = T.num /\ T1.casilla = T.casilla
        /\ T1.primero = IF u = NULO THEN c ELSE T.primero
        /\ T1.celda[c] \in Nodo /\ T1.celda[c] = [T.celda[c] EXCEPT !.antLista = u]
        /\ u # NULO => T1.celda[u] = [T.celda[u] EXCEPT !.sigLista = c]
        /\ \A d \in Celdas : d # c /\ d # u => T1.celda[d] = T.celda[d]
    <2>1. CASE u = NULO
      <3>1. T1 = [T EXCEPT !.primero = c, !.celda[c].antLista = NULO]
        BY <1>3, <2>1
      <3>2. [T.celda[c] EXCEPT !.antLista = NULO] \in Nodo
        BY <1>1 DEF Nodo
      <3>3. T1.celda = [T.celda EXCEPT ![c] = [T.celda[c] EXCEPT !.antLista = NULO]]
        BY <3>1 DEF Tablas
      <3>4. /\ T1 \in Tablas(n)
            /\ T1.num = T.num /\ T1.casilla = T.casilla /\ T1.primero = c
        BY <1>1, <3>1, <3>2 DEF Tablas
      <3>5. T1.celda[c] = [T.celda[c] EXCEPT !.antLista = NULO]
            /\ \A d \in Celdas : d # c => T1.celda[d] = T.celda[d]
        BY <3>3 DEF Tablas
      <3>6. QED
        BY <2>1, <3>2, <3>4, <3>5
    <2>2. CASE u # NULO
      <3>1. PICK T0 : T0 = Pon(T, c, "antLista", u)
        OBVIOUS
      <3>2. /\ T0 \in Tablas(n)
            /\ T0.celda[c] \in Nodo /\ T0.celda[c] = [T.celda[c] EXCEPT !["antLista"] = u]
            /\ \A d \in Celdas : d # c => T0.celda[d] = T.celda[d]
            /\ T0.cap = T.cap /\ T0.num = T.num /\ T0.primero = T.primero
            /\ T0.ultimo = T.ultimo /\ T0.casilla = T.casilla
        BY <1>1, <1>2, <3>1, PonCampo
      <3>3. T1 = Pon(T0, u, "sigLista", c)
        BY <1>3, <2>2, <3>1
      <3>4. u \in Celdas /\ u # c /\ T0.celda[u] \in Nodo /\ T0.celda[u] = T.celda[u]
        BY <2>2, <3>2
      <3>5. /\ T1 \in Tablas(n)
            /\ T1.celda[u] = [T0.celda[u] EXCEPT !["sigLista"] = c]
            /\ \A d \in Celdas : d # u => T1.celda[d] = T0.celda[d]
            /\ T1.cap = T0.cap /\ T1.num = T0.num /\ T1.primero = T0.primero
            /\ T1.ultimo = T0.ultimo /\ T1.casilla = T0.casilla
        <4>1. ASSUME NEW q \in Celdas, T0.celda[q] \in Nodo, T1 = Pon(T0, q, "sigLista", c)
              PROVE  /\ T1 \in Tablas(n)
                     /\ T1.celda[q] = [T0.celda[q] EXCEPT !["sigLista"] = c]
                     /\ \A d \in Celdas : d # q => T1.celda[d] = T0.celda[d]
                     /\ T1.cap = T0.cap /\ T1.num = T0.num /\ T1.primero = T0.primero
                     /\ T1.ultimo = T0.ultimo /\ T1.casilla = T0.casilla
          BY <1>1, <1>2, <3>2, <4>1, PonCampo
        <4>2. QED
          BY Zenon, <3>3, <3>4, <4>1
      <3>6. T1.celda[c] = T0.celda[c]
        BY <3>4, <3>5
      <3>7. QED
        BY <2>2, <3>2, <3>4, <3>5, <3>6
    <2>3. QED
      BY <2>1, <2>2
  <1>5. PICK T2 : T2 = Pon(T1, c, "sigLista", NULO)
    OBVIOUS
  <1>6. /\ T2 \in Tablas(n)
        /\ T2.celda[c] = [T1.celda[c] EXCEPT !["sigLista"] = NULO]
        /\ \A d \in Celdas : d # c => T2.celda[d] = T1.celda[d]
        /\ T2.cap = T1.cap /\ T2.num = T1.num /\ T2.primero = T1.primero
        /\ T2.ultimo = T1.ultimo /\ T2.casilla = T1.casilla
    <2>1. T1 \in Tablas(n) /\ T1.celda[c] \in Nodo
      BY <1>4
    <2>2. QED
      BY <1>1, <1>2, <1>5, <2>1, PonCampo
  <1>7. U = [T2 EXCEPT !.ultimo = c, !.num = @ + 1]
    BY <1>3, <1>5 DEF AlFinal
  <1>8. /\ U \in Tablas(n)
        /\ U.num = T2.num + 1 /\ U.primero = T2.primero /\ U.ultimo = c
        /\ U.celda = T2.celda /\ U.casilla = T2.casilla
    <2>1. T2 \in Tablas(n)
      BY <1>6
    <2>2. PICK v \in Int : v = T2.num + 1
      BY <2>1 DEF Tablas
    <2>3. U = [T2 EXCEPT !.ultimo = c, !.num = v]
      BY <1>7, <2>1, <2>2 DEF Tablas
    <2>4. QED
      BY <1>1, <2>1, <2>2, <2>3 DEF Tablas
  <1>9. U.celda[c] = [T.celda[c] EXCEPT !.antLista = u, !.sigLista = NULO]
    BY <1>4, <1>6, <1>8 DEF Nodo
  <1>10. u # NULO => U.celda[u] = [T.celda[u] EXCEPT !.sigLista = c]
    BY <1>4, <1>6, <1>8
  <1>11. \A d \in Celdas : d # c /\ d # u => U.celda[d] = T.celda[d]
    BY <1>4, <1>6, <1>8
  <1>12. QED
    BY <1>4, <1>6, <1>8, <1>9, <1>10, <1>11 DEF TrasAlFinal

\* AlFinal adds a cell to the list and leaves the chains alone.
LEMMA AlFinalForma ==
    ASSUME NEW n \in Nat \ {0}, NEW T \in Tablas(n), NEW S, NEW r, NEW b,
           FormaLista(T, S, r, b), T.num = Cardinality(S),
           NEW c \in Celdas, c \notin S, T.celda[c] \in Nodo,
           NEW U, U = AlFinal(T, c)
    PROVE  /\ U \in Tablas(n) /\ U.num = T.num + 1
           /\ MismosDatos(T, U) /\ MismasCadenas(T, U, Celdas)
           /\ FormaLista(U, S \cup {c}, Despues(r, c, b), b + 1)
  <1>1. PICK u : u = T.ultimo
    OBVIOUS
  <1>2. /\ \A d \in S : d \in Celdas /\ d # NULO /\ EnLista(T, S, r, d)
        /\ T.primero \in S \cup {NULO} /\ T.ultimo \in S \cup {NULO}
        /\ T.primero # NULO => T.celda[T.primero].antLista = NULO
        /\ T.ultimo # NULO => T.celda[T.ultimo].sigLista = NULO
        /\ b \in Nat /\ r \in [Celdas -> (-b)..b] /\ S \subseteq Celdas
    BY CeldasAssumption DEF FormaLista
  <1>3. u # NULO => u \in S /\ u \in Celdas /\ u # c /\ T.celda[u] \in Nodo
                    /\ T.celda[u].sigLista = NULO
    BY <1>1, <1>2 DEF EnLista
  <1>4. u = NULO <=> S = {}
    BY <1>1, UltimoForma
  <1>5. T.num = 0 <=> u = NULO
    <2>1. IsFiniteSet(S)
      BY <1>2, CeldasAssumption, FS_Subset
    <2>2. QED
      BY <1>4, <2>1, FS_EmptySet
  <1>6. TrasAlFinal(T, U, n, c, u)
    <2>1. u # NULO => u \in Celdas /\ u # c /\ T.celda[u] \in Nodo
      BY <1>3
    <2>2. QED
      BY <1>1, <1>5, <2>1, AlFinalEs
  <1>7. u \in Punteros /\ c \in Punteros /\ NULO \in Punteros /\ c # NULO
    BY <1>3, CeldasAssumption DEF Punteros
  <1>8. /\ U.celda[c] \in Nodo /\ U.celda[c].antLista = u /\ U.celda[c].sigLista = NULO
        /\ U.celda[c].ip = T.celda[c].ip /\ U.celda[c].anuncio = T.celda[c].anuncio
        /\ U.celda[c].sigHash = T.celda[c].sigHash /\ U.celda[c].antHash = T.celda[c].antHash
    BY <1>6, <1>7 DEF Nodo, TrasAlFinal
  <1>9. u # NULO => /\ U.celda[u] \in Nodo /\ U.celda[u].sigLista = c
                    /\ U.celda[u].antLista = T.celda[u].antLista
                    /\ U.celda[u].ip = T.celda[u].ip /\ U.celda[u].anuncio = T.celda[u].anuncio
                    /\ U.celda[u].sigHash = T.celda[u].sigHash
                    /\ U.celda[u].antHash = T.celda[u].antHash
    BY <1>3, <1>6, <1>7 DEF Nodo, TrasAlFinal
  <1>10. \A d \in Celdas : d = c \/ (u # NULO /\ d = u) \/ U.celda[d] = T.celda[d]
    BY <1>6, CeldasAssumption DEF TrasAlFinal
  <1>11. MismosDatos(T, U)
    <2>1. SUFFICES ASSUME NEW d \in Celdas
                   PROVE  /\ U.celda[d] = NULO <=> T.celda[d] = NULO
                          /\ T.celda[d] # NULO => /\ U.celda[d].ip = T.celda[d].ip
                                                  /\ U.celda[d].anuncio = T.celda[d].anuncio
      BY DEF MismosDatos
    <2>2. CASE d = c
      BY <1>8, <2>2, NodoAssumption
    <2>3. CASE u # NULO /\ d = u
      BY <1>3, <1>9, <2>3, NodoAssumption
    <2>4. QED
      BY <1>10, <2>2, <2>3
  <1>12. MismasCadenas(T, U, Celdas)
    <2>1. U.cap = T.cap /\ U.casilla = T.casilla
      BY <1>6 DEF TrasAlFinal, Tablas
    <2>2. SUFFICES ASSUME NEW d \in Celdas, T.celda[d] \in Nodo
                   PROVE  /\ U.celda[d] \in Nodo
                          /\ U.celda[d].ip = T.celda[d].ip
                          /\ U.celda[d].sigHash = T.celda[d].sigHash
                          /\ U.celda[d].antHash = T.celda[d].antHash
      BY <2>1 DEF MismasCadenas
    <2>3. QED
      BY <1>8, <1>9, <1>10, <2>2
  <1> DEFINE q == Despues(r, c, b)
             S1 == S \cup {c}
  <1>13. /\ q \in [Celdas -> (-(b + 1))..(b + 1)] /\ q[c] = b + 1
         /\ \A d \in Celdas : r[d] \in (-b)..b /\ (d # c => q[d] = r[d])
    BY <1>2, MasAncho
  <1>14. /\ U.ultimo = c /\ U.num = T.num + 1 /\ U \in Tablas(n)
         /\ U.primero = IF u = NULO THEN c ELSE T.primero
    BY <1>6 DEF TrasAlFinal
  <1>15. EnLista(U, S1, q, c)
    BY <1>3, <1>7, <1>8, <1>9, <1>14 DEF EnLista
  <1>16. \A d \in S : EnLista(U, S1, q, d)
    <2>1. SUFFICES ASSUME NEW d \in S PROVE EnLista(U, S1, q, d)
      OBVIOUS
    <2>2. /\ d \in Celdas /\ d # c /\ EnLista(T, S, r, d) /\ u # NULO
      BY <1>2, <1>4
    <2>3. \A e \in S : /\ U.celda[e] \in Nodo /\ U.celda[e].antLista = T.celda[e].antLista
                       /\ e # u => U.celda[e].sigLista = T.celda[e].sigLista
      <3>1. SUFFICES ASSUME NEW e \in S
                     PROVE  /\ U.celda[e] \in Nodo /\ U.celda[e].antLista = T.celda[e].antLista
                            /\ e # u => U.celda[e].sigLista = T.celda[e].sigLista
        OBVIOUS
      <3>2. e \in Celdas /\ e # c /\ T.celda[e] \in Nodo
        BY <1>2 DEF EnLista
      <3>3. QED
        BY <1>9, <1>10, <3>2
    <2>4. U.celda[d].antLista = NULO => U.primero = d
      BY <1>14, <2>2, <2>3 DEF EnLista
    <2>5. U.celda[d].antLista # NULO =>
             U.celda[d].antLista \in S1 /\ U.celda[U.celda[d].antLista].sigLista = d
      <3>1. SUFFICES ASSUME T.celda[d].antLista # NULO
                     PROVE  /\ T.celda[d].antLista \in S1
                            /\ U.celda[T.celda[d].antLista].sigLista = d
        BY <2>3
      <3>2. T.celda[d].antLista \in S /\ T.celda[T.celda[d].antLista].sigLista = d
        BY <2>2, <3>1 DEF EnLista
      <3>3. T.celda[d].antLista # u
        BY <1>3, <2>2, <3>2, CeldasAssumption
      <3>4. QED
        BY <2>3, <3>2, <3>3
    <2>6. d = u => U.celda[d].sigLista = c /\ U.celda[c].antLista = d /\ q[d] < q[c]
      BY <1>2, <1>8, <1>9, <1>13, <2>2
    <2>7. d # u => U.celda[d].sigLista = T.celda[d].sigLista /\ T.celda[d].sigLista # NULO
      BY <1>1, <2>2, <2>3 DEF EnLista
    <2>8. d # u => /\ U.celda[d].sigLista \in S
                   /\ U.celda[U.celda[d].sigLista].antLista = d
                   /\ q[d] < q[U.celda[d].sigLista]
      <3>1. SUFFICES ASSUME d # u
                     PROVE  /\ T.celda[d].sigLista \in S
                            /\ U.celda[T.celda[d].sigLista].antLista = d
                            /\ q[d] < q[T.celda[d].sigLista]
        BY <2>7
      <3>2. /\ T.celda[d].sigLista \in S /\ T.celda[T.celda[d].sigLista].antLista = d
            /\ r[d] < r[T.celda[d].sigLista]
        BY <2>2, <2>7, <3>1 DEF EnLista
      <3>3. QED
        BY <1>2, <1>13, <2>2, <2>3, <3>2
    <2>9. U.celda[d] \in Nodo
      BY <2>3
    <2> HIDE DEF q
    <2>10. QED
      BY <1>7, <2>4, <2>5, <2>6, <2>7, <2>8, <2>9 DEF EnLista
  <1>17. FormaLista(U, S1, q, b + 1)
    <2>1. S1 \subseteq Celdas /\ b + 1 \in Nat
      BY <1>2
    <2>2. U.primero \in S1 /\ U.celda[U.primero].antLista = NULO
      <3>1. CASE u = NULO
        BY <1>8, <1>14, <3>1
      <3>2. CASE u # NULO
        <4>1. PICK d \in S : d = u
          BY <1>3, <3>2
        <4>2. T.primero # NULO
          BY <3>2, PrimeroForma, <1>4
        <4>3. T.primero \in S /\ T.primero \in Celdas /\ T.primero # c
          BY <1>2, <4>2
        <4>4. U.celda[T.primero].antLista = T.celda[T.primero].antLista
          BY <1>9, <1>10, <4>3
        <4>5. QED
          BY <1>2, <1>14, <3>2, <4>2, <4>3, <4>4
      <3>3. QED
        BY <3>1, <3>2
    <2> HIDE DEF S1, q
    <2>3. \A d \in S1 : EnLista(U, S1, q, d)
      BY <1>15, <1>16 DEF S1
    <2>4. c \in S1
      BY DEF S1
    <2>5. QED
      BY <1>8, <1>13, <1>14, <2>1, <2>2, <2>3, <2>4 DEF FormaLista
  <1>18. QED
    BY <1>11, <1>12, <1>14, <1>17

-----------------------------------------------------------------------------
(* Taking a cell out *)

\* What DeLista writes: a and s, the neighbours of c, point at each other.
TrasDeLista(T, U, n, c, a, s) ==
    /\ U \in Tablas(n)
    /\ U.num = T.num /\ U.casilla = T.casilla
    /\ U.primero = IF a = NULO THEN s ELSE T.primero
    /\ U.ultimo = IF s = NULO THEN a ELSE T.ultimo
    /\ a # NULO => U.celda[a] = [T.celda[a] EXCEPT !.sigLista = s]
    /\ s # NULO => U.celda[s] = [T.celda[s] EXCEPT !.antLista = a]
    /\ \A d \in Celdas : d # a /\ d # s => U.celda[d] = T.celda[d]

\* It writes that.
LEMMA DeListaEs ==
    ASSUME NEW n \in Nat \ {0}, NEW T \in Tablas(n), NEW c \in Celdas, T.celda[c] \in Nodo,
           NEW a, a = T.celda[c].antLista, a # NULO => a \in Celdas /\ T.celda[a] \in Nodo,
           NEW s, s = T.celda[c].sigLista, s # NULO => s \in Celdas /\ T.celda[s] \in Nodo,
           a # NULO => a # s,
           NEW U, U = DeLista(T, c)
    PROVE  TrasDeLista(T, U, n, c, a, s)
  <1>1. a \in Punteros /\ s \in Punteros
    BY DEF Nodo
  <1>2. "antLista" \in Campos /\ "sigLista" \in Campos
    BY DEF Campos
  <1>3. PICK T1 : T1 = IF a = NULO THEN [T EXCEPT !.primero = s] ELSE Pon(T, a, "sigLista", s)
    OBVIOUS
  <1>4. /\ T1 \in Tablas(n)
        /\ T1.num = T.num /\ T1.casilla = T.casilla /\ T1.ultimo = T.ultimo
        /\ T1.primero = IF a = NULO THEN s ELSE T.primero
        /\ a # NULO => T1.celda[a] = [T.celda[a] EXCEPT !.sigLista = s]
        /\ \A d \in Celdas : d # a => T1.celda[d] = T.celda[d]
    <2>1. CASE a = NULO
      <3>1. T1 = [T EXCEPT !.primero = s]
        BY <1>3, <2>1
      <3>2. QED
        BY <1>1, <2>1, <3>1 DEF Tablas
    <2>2. CASE a # NULO
      <3>1. T1 = Pon(T, a, "sigLista", s) /\ a \in Celdas /\ T.celda[a] \in Nodo
        BY <1>3, <2>2
      <3>2. /\ T1 \in Tablas(n)
            /\ T1.celda[a] = [T.celda[a] EXCEPT !["sigLista"] = s]
            /\ \A d \in Celdas : d # a => T1.celda[d] = T.celda[d]
            /\ T1.cap = T.cap /\ T1.num = T.num /\ T1.primero = T.primero
            /\ T1.ultimo = T.ultimo /\ T1.casilla = T.casilla
        BY <1>1, <1>2, <3>1, PonCampo
      <3>3. QED
        BY <2>2, <3>2
    <2>3. QED
      BY <2>1, <2>2
  <1>5. U = IF s = NULO THEN [T1 EXCEPT !.ultimo = a] ELSE Pon(T1, s, "antLista", a)
    BY <1>3 DEF DeLista
  <1>6. CASE s = NULO
    <2>1. U = [T1 EXCEPT !.ultimo = a] /\ T1 \in Tablas(n)
      BY <1>4, <1>5, <1>6
    <2>2. /\ U \in Tablas(n) /\ U.num = T1.num /\ U.casilla = T1.casilla
          /\ U.ultimo = a /\ U.primero = T1.primero /\ U.celda = T1.celda
      BY <1>1, <2>1 DEF Tablas
    <2>3. QED
      BY <1>4, <1>6, <2>2 DEF TrasDeLista
  <1>7. CASE s # NULO
    <2>1. /\ U = Pon(T1, s, "antLista", a) /\ T1 \in Tablas(n)
          /\ s \in Celdas /\ T1.celda[s] = T.celda[s] /\ T1.celda[s] \in Nodo
      BY <1>4, <1>5, <1>7
    <2>2. /\ U \in Tablas(n)
          /\ U.celda[s] = [T1.celda[s] EXCEPT !["antLista"] = a]
          /\ \A d \in Celdas : d # s => U.celda[d] = T1.celda[d]
          /\ U.cap = T1.cap /\ U.num = T1.num /\ U.primero = T1.primero
          /\ U.ultimo = T1.ultimo /\ U.casilla = T1.casilla
      BY <1>1, <1>2, <2>1, PonCampo
    <2>3. U.celda[s] = [T.celda[s] EXCEPT !.antLista = a]
      BY <2>1, <2>2
    <2>4. a # NULO => U.celda[a] = [T.celda[a] EXCEPT !.sigLista = s]
      BY <1>4, <2>2
    <2>5. QED
      BY <1>4, <1>7, <2>2, <2>3, <2>4 DEF TrasDeLista
  <1>8. QED
    BY <1>6, <1>7

\* DeLista takes a cell out of the list and leaves the chains alone.
LEMMA DeListaForma ==
    ASSUME NEW n \in Nat \ {0}, NEW T \in Tablas(n), NEW S, NEW r, NEW b,
           FormaLista(T, S, r, b), NEW c \in S,
           NEW U, U = DeLista(T, c)
    PROVE  /\ U \in Tablas(n) /\ U.num = T.num
           /\ MismosDatos(T, U) /\ MismasCadenas(T, U, Celdas)
           /\ FormaLista(U, S \ {c}, r, b)
  <1>1. PICK a : a = T.celda[c].antLista
    OBVIOUS
  <1>2. PICK s : s = T.celda[c].sigLista
    OBVIOUS
  <1>3. /\ \A d \in S : d \in Celdas /\ d # NULO /\ EnLista(T, S, r, d)
        /\ T.primero \in S \cup {NULO} /\ T.ultimo \in S \cup {NULO}
        /\ T.primero # NULO => T.celda[T.primero].antLista = NULO
        /\ T.ultimo # NULO => T.celda[T.ultimo].sigLista = NULO
        /\ b \in Nat /\ r \in [Celdas -> (-b)..b] /\ S \subseteq Celdas
    BY CeldasAssumption DEF FormaLista
  <1>4. \A d \in S : r[d] \in Int
    BY <1>3
  <1>5. a # NULO => /\ a \in S /\ a \in Celdas /\ T.celda[a] \in Nodo /\ a # c
                    /\ T.celda[a].sigLista = c /\ r[a] < r[c]
    <2>1. SUFFICES ASSUME a # NULO
                   PROVE  /\ a \in S /\ a \in Celdas /\ T.celda[a] \in Nodo /\ a # c
                          /\ T.celda[a].sigLista = c /\ r[a] < r[c]
      OBVIOUS
    <2>2. a \in S /\ T.celda[a].sigLista = c
      BY <1>1, <1>3, <2>1 DEF EnLista
    <2>3. EnLista(T, S, r, a) /\ c # NULO /\ a \in Celdas
      BY <1>3, <2>2
    <2>4. T.celda[a] \in Nodo /\ r[a] < r[c]
      BY <2>2, <2>3 DEF EnLista
    <2>5. QED
      BY <1>4, <2>2, <2>3, <2>4
  <1>6. s # NULO => /\ s \in S /\ s \in Celdas /\ T.celda[s] \in Nodo /\ s # c
                    /\ T.celda[s].antLista = c /\ r[c] < r[s]
    BY <1>2, <1>3, <1>4 DEF EnLista
  <1>7. a # NULO /\ s # NULO => a # s /\ r[a] < r[s]
    BY <1>4, <1>5, <1>6
  <1>8. TrasDeLista(T, U, n, c, a, s)
    <2>1. a # NULO => a \in Celdas /\ T.celda[a] \in Nodo
      BY <1>5
    <2>2. s # NULO => s \in Celdas /\ T.celda[s] \in Nodo
      BY <1>6
    <2>3. a # NULO => a # s
      BY <1>7
    <2>4. c \in Celdas /\ T.celda[c] \in Nodo
      BY <1>3 DEF EnLista
    <2>5. QED
      BY <1>1, <1>2, <2>1, <2>2, <2>3, <2>4, DeListaEs
  <1>9. a \in Punteros /\ s \in Punteros
    BY <1>5, <1>6 DEF Punteros
  <1>10. a # NULO => /\ U.celda[a] \in Nodo /\ U.celda[a].sigLista = s
                     /\ U.celda[a].antLista = T.celda[a].antLista
                     /\ U.celda[a].ip = T.celda[a].ip
                     /\ U.celda[a].anuncio = T.celda[a].anuncio
                     /\ U.celda[a].sigHash = T.celda[a].sigHash
                     /\ U.celda[a].antHash = T.celda[a].antHash
    BY <1>5, <1>8, <1>9 DEF Nodo, TrasDeLista
  <1>11. s # NULO => /\ U.celda[s] \in Nodo /\ U.celda[s].antLista = a
                     /\ U.celda[s].sigLista = T.celda[s].sigLista
                     /\ U.celda[s].ip = T.celda[s].ip
                     /\ U.celda[s].anuncio = T.celda[s].anuncio
                     /\ U.celda[s].sigHash = T.celda[s].sigHash
                     /\ U.celda[s].antHash = T.celda[s].antHash
    BY <1>6, <1>8, <1>9 DEF Nodo, TrasDeLista
  <1>12. \A d \in Celdas : \/ a # NULO /\ d = a
                           \/ s # NULO /\ d = s
                           \/ U.celda[d] = T.celda[d]
    BY <1>8, CeldasAssumption DEF TrasDeLista
  <1>13. MismosDatos(T, U)
    <2>1. SUFFICES ASSUME NEW d \in Celdas
                   PROVE  /\ U.celda[d] = NULO <=> T.celda[d] = NULO
                          /\ T.celda[d] # NULO => /\ U.celda[d].ip = T.celda[d].ip
                                                  /\ U.celda[d].anuncio = T.celda[d].anuncio
      BY DEF MismosDatos
    <2>2. CASE a # NULO /\ d = a
      BY <1>5, <1>10, <2>2, NodoAssumption
    <2>3. CASE s # NULO /\ d = s
      BY <1>6, <1>11, <2>3, NodoAssumption
    <2>4. QED
      BY <1>12, <2>2, <2>3
  <1>14. MismasCadenas(T, U, Celdas)
    <2>1. U.cap = T.cap /\ U.casilla = T.casilla
      BY <1>8 DEF TrasDeLista, Tablas
    <2>2. SUFFICES ASSUME NEW d \in Celdas, T.celda[d] \in Nodo
                   PROVE  /\ U.celda[d] \in Nodo
                          /\ U.celda[d].ip = T.celda[d].ip
                          /\ U.celda[d].sigHash = T.celda[d].sigHash
                          /\ U.celda[d].antHash = T.celda[d].antHash
      BY <2>1 DEF MismasCadenas
    <2>3. QED
      BY <1>10, <1>11, <1>12, <2>2
  <1>15. /\ U \in Tablas(n) /\ U.num = T.num
         /\ U.primero = IF a = NULO THEN s ELSE T.primero
         /\ U.ultimo = IF s = NULO THEN a ELSE T.ultimo
    BY <1>8 DEF TrasDeLista
  <1>16. \A d \in S : /\ U.celda[d] \in Nodo
                      /\ U.celda[d].sigLista = IF a # NULO /\ d = a THEN s ELSE T.celda[d].sigLista
                      /\ U.celda[d].antLista = IF s # NULO /\ d = s THEN a ELSE T.celda[d].antLista
    <2>1. SUFFICES ASSUME NEW d \in S
                   PROVE  /\ U.celda[d] \in Nodo
                          /\ U.celda[d].sigLista = IF a # NULO /\ d = a THEN s
                                                   ELSE T.celda[d].sigLista
                          /\ U.celda[d].antLista = IF s # NULO /\ d = s THEN a
                                                   ELSE T.celda[d].antLista
      OBVIOUS
    <2>2. d \in Celdas /\ T.celda[d] \in Nodo
      BY <1>3 DEF EnLista
    <2>3. CASE a # NULO /\ d = a
      BY <1>7, <1>10, <2>3
    <2>4. CASE s # NULO /\ d = s
      BY <1>7, <1>11, <2>4
    <2>5. QED
      BY <1>12, <2>2, <2>3, <2>4
  <1> DEFINE R == S \ {c}
  <1>17. \A d \in R : EnLista(U, R, r, d)
    <2>1. SUFFICES ASSUME NEW d \in R PROVE EnLista(U, R, r, d)
      OBVIOUS
    <2>2. d \in S /\ d # c /\ d # NULO /\ EnLista(T, S, r, d)
      BY <1>3
    <2>3. U.celda[d].antLista = NULO => U.primero = d
      <3>1. SUFFICES ASSUME U.celda[d].antLista = NULO PROVE U.primero = d
        OBVIOUS
      <3>2. CASE s # NULO /\ d = s
        BY <1>11, <1>15, <3>1, <3>2
      <3>3. CASE ~ (s # NULO /\ d = s)
        <4>1. T.celda[d].antLista = NULO /\ T.primero = d
          BY <1>16, <2>2, <3>1, <3>3 DEF EnLista
        <4>2. a # NULO
          BY <1>1, <1>3, <2>2, <4>1 DEF EnLista
        <4>3. QED
          BY <1>15, <4>1, <4>2
      <3>4. QED
        BY <3>2, <3>3
    <2>4. U.celda[d].antLista # NULO =>
            U.celda[d].antLista \in R /\ U.celda[U.celda[d].antLista].sigLista = d
      <3>1. SUFFICES ASSUME U.celda[d].antLista # NULO
                     PROVE  /\ U.celda[d].antLista \in R
                            /\ U.celda[U.celda[d].antLista].sigLista = d
        OBVIOUS
      <3>2. CASE s # NULO /\ d = s
        BY <1>5, <1>10, <1>11, <3>1, <3>2
      <3>3. CASE ~ (s # NULO /\ d = s)
        <4>1. PICK e : e = T.celda[d].antLista
          OBVIOUS
        <4>2. U.celda[d].antLista = e /\ e \in S /\ T.celda[e].sigLista = d
          BY <1>16, <2>2, <3>1, <3>3, <4>1 DEF EnLista
        <4>3. e # c /\ e # a
          BY <1>2, <1>5, <2>2, <3>1, <3>3, <4>2
        <4>4. QED
          BY <1>16, <4>2, <4>3
      <3>4. QED
        BY <3>2, <3>3
    <2>5. U.celda[d].sigLista = NULO => U.ultimo = d
      <3>1. SUFFICES ASSUME U.celda[d].sigLista = NULO PROVE U.ultimo = d
        OBVIOUS
      <3>2. CASE a # NULO /\ d = a
        BY <1>10, <1>15, <3>1, <3>2
      <3>3. CASE ~ (a # NULO /\ d = a)
        <4>1. T.celda[d].sigLista = NULO /\ T.ultimo = d
          BY <1>16, <2>2, <3>1, <3>3 DEF EnLista
        <4>2. s # NULO
          BY <1>2, <1>3, <2>2, <4>1 DEF EnLista
        <4>3. QED
          BY <1>15, <4>1, <4>2
      <3>4. QED
        BY <3>2, <3>3
    <2>6. U.celda[d].sigLista # NULO =>
            /\ U.celda[d].sigLista \in R /\ U.celda[U.celda[d].sigLista].antLista = d
            /\ r[d] < r[U.celda[d].sigLista]
      <3>1. SUFFICES ASSUME U.celda[d].sigLista # NULO
                     PROVE  /\ U.celda[d].sigLista \in R
                            /\ U.celda[U.celda[d].sigLista].antLista = d
                            /\ r[d] < r[U.celda[d].sigLista]
        OBVIOUS
      <3>2. CASE a # NULO /\ d = a
        BY <1>6, <1>7, <1>10, <1>11, <3>1, <3>2
      <3>3. CASE ~ (a # NULO /\ d = a)
        <4>1. PICK e : e = T.celda[d].sigLista
          OBVIOUS
        <4>2. /\ U.celda[d].sigLista = e /\ e \in S /\ T.celda[e].antLista = d
              /\ r[d] < r[e]
          BY <1>16, <2>2, <3>1, <3>3, <4>1 DEF EnLista
        <4>3. e # c /\ e # s
          BY <1>1, <1>6, <2>2, <3>1, <3>3, <4>2
        <4>4. QED
          BY <1>16, <4>2, <4>3
      <3>4. QED
        BY <3>2, <3>3
    <2>7. U.celda[d] \in Nodo
      BY <1>16, <2>2
    <2> HIDE DEF R
    <2>8. QED
      BY <2>3, <2>4, <2>5, <2>6, <2>7 DEF EnLista
  <1>18. U.primero \in R \cup {NULO} /\ (U.primero # NULO => U.celda[U.primero].antLista = NULO)
    <2>1. CASE a = NULO
      BY <1>6, <1>11, <1>15, <2>1
    <2>2. CASE a # NULO
      <3>1. U.primero = T.primero /\ T.primero # c /\ (s # NULO => T.primero # s)
        BY <1>1, <1>3, <1>6, <1>15, <2>2, CeldasAssumption
      <3>2. QED
        BY <1>3, <1>16, <2>2, <3>1
    <2>3. QED
      BY <2>1, <2>2
  <1>19. U.ultimo \in R \cup {NULO} /\ (U.ultimo # NULO => U.celda[U.ultimo].sigLista = NULO)
    <2>1. CASE s = NULO
      BY <1>5, <1>10, <1>15, <2>1
    <2>2. CASE s # NULO
      <3>1. U.ultimo = T.ultimo /\ T.ultimo # c /\ (a # NULO => T.ultimo # a)
        BY <1>2, <1>3, <1>5, <1>15, <2>2, CeldasAssumption
      <3>2. QED
        BY <1>3, <1>16, <2>2, <3>1
    <2>3. QED
      BY <2>1, <2>2
  <1>20. FormaLista(U, R, r, b)
    BY <1>3, <1>17, <1>18, <1>19 DEF FormaLista
  <1>21. QED
    BY <1>13, <1>14, <1>15, <1>20

\* What DeCadena writes: a and s, the neighbours of c in chain k, point at each
\* other.
TrasDeCadena(T, U, n, c, a, s, k) ==
    /\ U \in Tablas(n)
    /\ U.num = T.num /\ U.primero = T.primero /\ U.ultimo = T.ultimo
    /\ U.casilla = IF a = NULO THEN [T.casilla EXCEPT ![k] = s] ELSE T.casilla
    /\ a # NULO => U.celda[a] = [T.celda[a] EXCEPT !.sigHash = s]
    /\ s # NULO => U.celda[s] = [T.celda[s] EXCEPT !.antHash = a]
    /\ \A d \in Celdas : d # a /\ d # s => U.celda[d] = T.celda[d]

\* It writes that.
LEMMA DeCadenaEs ==
    ASSUME NEW n \in Nat \ {0}, NEW T \in Tablas(n), NEW c \in Celdas, T.celda[c] \in Nodo,
           NEW a, a = T.celda[c].antHash, a # NULO => a \in Celdas /\ T.celda[a] \in Nodo,
           NEW s, s = T.celda[c].sigHash, s # NULO => s \in Celdas /\ T.celda[s] \in Nodo,
           a # NULO => a # s,
           NEW k \in Casillas(n), k = Idx(T, T.celda[c].ip),
           NEW U, U = DeCadena(T, c)
    PROVE  TrasDeCadena(T, U, n, c, a, s, k)
  <1>1. a \in Punteros /\ s \in Punteros
    BY DEF Nodo
  <1>2. "antHash" \in Campos /\ "sigHash" \in Campos
    BY DEF Campos
  <1>3. PICK T1 : T1 = IF a = NULO THEN [T EXCEPT !.casilla[k] = s]
                       ELSE Pon(T, a, "sigHash", s)
    OBVIOUS
  <1>4. /\ T1 \in Tablas(n)
        /\ T1.num = T.num /\ T1.primero = T.primero /\ T1.ultimo = T.ultimo
        /\ T1.casilla = IF a = NULO THEN [T.casilla EXCEPT ![k] = s] ELSE T.casilla
        /\ a # NULO => T1.celda[a] = [T.celda[a] EXCEPT !.sigHash = s]
        /\ \A d \in Celdas : d # a => T1.celda[d] = T.celda[d]
    <2>1. CASE a = NULO
      <3>1. T1 = [T EXCEPT !.casilla[k] = s]
        BY <1>3, <2>1
      <3>2. QED
        BY <1>1, <2>1, <3>1 DEF Tablas
    <2>2. CASE a # NULO
      <3>1. T1 = Pon(T, a, "sigHash", s) /\ a \in Celdas /\ T.celda[a] \in Nodo
        BY <1>3, <2>2
      <3>2. /\ T1 \in Tablas(n)
            /\ T1.celda[a] = [T.celda[a] EXCEPT !["sigHash"] = s]
            /\ \A d \in Celdas : d # a => T1.celda[d] = T.celda[d]
            /\ T1.cap = T.cap /\ T1.num = T.num /\ T1.primero = T.primero
            /\ T1.ultimo = T.ultimo /\ T1.casilla = T.casilla
        BY <1>1, <1>2, <3>1, PonCampo
      <3>3. QED
        BY <2>2, <3>2
    <2>3. QED
      BY <2>1, <2>2
  <1>5. U = IF s = NULO THEN T1 ELSE Pon(T1, s, "antHash", a)
    BY <1>3 DEF DeCadena
  <1>6. CASE s = NULO
    BY <1>4, <1>5, <1>6 DEF TrasDeCadena
  <1>7. CASE s # NULO
    <2>1. /\ U = Pon(T1, s, "antHash", a) /\ T1 \in Tablas(n)
          /\ s \in Celdas /\ T1.celda[s] = T.celda[s] /\ T1.celda[s] \in Nodo
      BY <1>4, <1>5, <1>7
    <2>2. /\ U \in Tablas(n)
          /\ U.celda[s] = [T1.celda[s] EXCEPT !["antHash"] = a]
          /\ \A d \in Celdas : d # s => U.celda[d] = T1.celda[d]
          /\ U.cap = T1.cap /\ U.num = T1.num /\ U.primero = T1.primero
          /\ U.ultimo = T1.ultimo /\ U.casilla = T1.casilla
      BY <1>1, <1>2, <2>1, PonCampo
    <2>3. U.celda[s] = [T.celda[s] EXCEPT !.antHash = a]
      BY <2>1, <2>2
    <2>4. a # NULO => U.celda[a] = [T.celda[a] EXCEPT !.sigHash = s]
      BY <1>4, <2>2
    <2>5. QED
      BY <1>4, <1>7, <2>2, <2>3, <2>4 DEF TrasDeCadena
  <1>8. QED
    BY <1>6, <1>7

\* DeCadena takes a cell out of its chain and leaves the list alone.
LEMMA DeCadenaForma ==
    ASSUME NEW n \in Nat \ {0}, NEW T \in Tablas(n), NEW A, NEW h, NEW b,
           FormaCadenas(T, A, h, b), NEW c \in A,
           NEW U, U = DeCadena(T, c)
    PROVE  /\ U \in Tablas(n)
           /\ MismosDatos(T, U) /\ MismaLista(T, U, Celdas)
           /\ FormaCadenas(U, A \ {c}, h, b)
  <1>1. PICK a : a = T.celda[c].antHash
    OBVIOUS
  <1>2. PICK s : s = T.celda[c].sigHash
    OBVIOUS
  <1>3. /\ \A d \in A : d \in Celdas /\ d # NULO /\ EnSuCadena(T, A, h, d)
        /\ T.cap = n /\ \A j \in Casillas(n) : EsCabeza(T, A, j)
        /\ b \in Nat /\ h \in [Celdas -> (-b)..b] /\ A \subseteq Celdas
    BY CeldasAssumption DEF FormaCadenas, Tablas
  <1>4. \A d \in A : h[d] \in Int
    BY <1>3
  <1>5. \A d \in A : T.celda[d] \in Nodo /\ Idx(T, T.celda[d].ip) \in Casillas(n)
    <2>1. SUFFICES ASSUME NEW d \in A
                   PROVE  T.celda[d] \in Nodo /\ Idx(T, T.celda[d].ip) \in Casillas(n)
      OBVIOUS
    <2>2. T.celda[d] \in Nodo /\ T.celda[d].ip \in Ips
      BY <1>3 DEF EnSuCadena, Nodo
    <2>3. QED
      BY <2>2, IdxRango
  <1>6. PICK k \in Casillas(n) : k = Idx(T, T.celda[c].ip)
    BY <1>5
  <1>7. a # NULO => /\ a \in A /\ a \in Celdas /\ T.celda[a] \in Nodo /\ a # c
                    /\ T.celda[a].sigHash = c /\ h[a] < h[c]
                    /\ Idx(T, T.celda[a].ip) = k
    <2>1. SUFFICES ASSUME a # NULO
                   PROVE  /\ a \in A /\ a \in Celdas /\ T.celda[a] \in Nodo /\ a # c
                          /\ T.celda[a].sigHash = c /\ h[a] < h[c]
                          /\ Idx(T, T.celda[a].ip) = k
      OBVIOUS
    <2>2. a \in A /\ T.celda[a].sigHash = c /\ Idx(T, T.celda[a].ip) = k
      BY <1>1, <1>3, <1>6, <2>1 DEF EnSuCadena
    <2>3. EnSuCadena(T, A, h, a) /\ c # NULO /\ a \in Celdas
      BY <1>3, <2>2
    <2>4. T.celda[a] \in Nodo /\ h[a] < h[c]
      BY <2>2, <2>3 DEF EnSuCadena
    <2>5. QED
      BY <1>4, <2>2, <2>3, <2>4
  <1>8. s # NULO => /\ s \in A /\ s \in Celdas /\ T.celda[s] \in Nodo /\ s # c
                    /\ T.celda[s].antHash = c /\ h[c] < h[s]
                    /\ Idx(T, T.celda[s].ip) = k
    BY <1>2, <1>3, <1>6, <1>4 DEF EnSuCadena
  <1>9. a # NULO /\ s # NULO => a # s /\ h[a] < h[s]
    BY <1>4, <1>7, <1>8
  <1>10. TrasDeCadena(T, U, n, c, a, s, k)
    <2>1. a # NULO => a \in Celdas /\ T.celda[a] \in Nodo
      BY <1>7
    <2>2. s # NULO => s \in Celdas /\ T.celda[s] \in Nodo
      BY <1>8
    <2>3. a # NULO => a # s
      BY <1>9
    <2>4. c \in Celdas /\ T.celda[c] \in Nodo
      BY <1>3, <1>5
    <2>5. QED
      BY <1>1, <1>2, <1>6, <2>1, <2>2, <2>3, <2>4, DeCadenaEs
  <1>11. a \in Punteros /\ s \in Punteros
    BY <1>7, <1>8 DEF Punteros
  <1>12. a # NULO => /\ U.celda[a] \in Nodo /\ U.celda[a].sigHash = s
                     /\ U.celda[a].antHash = T.celda[a].antHash
                     /\ U.celda[a].ip = T.celda[a].ip
                     /\ U.celda[a].anuncio = T.celda[a].anuncio
                     /\ U.celda[a].sigLista = T.celda[a].sigLista
                     /\ U.celda[a].antLista = T.celda[a].antLista
    BY <1>7, <1>10, <1>11 DEF Nodo, TrasDeCadena
  <1>13. s # NULO => /\ U.celda[s] \in Nodo /\ U.celda[s].antHash = a
                     /\ U.celda[s].sigHash = T.celda[s].sigHash
                     /\ U.celda[s].ip = T.celda[s].ip
                     /\ U.celda[s].anuncio = T.celda[s].anuncio
                     /\ U.celda[s].sigLista = T.celda[s].sigLista
                     /\ U.celda[s].antLista = T.celda[s].antLista
    BY <1>8, <1>10, <1>11 DEF Nodo, TrasDeCadena
  <1>14. \A d \in Celdas : \/ a # NULO /\ d = a
                           \/ s # NULO /\ d = s
                           \/ U.celda[d] = T.celda[d]
    BY <1>10, CeldasAssumption DEF TrasDeCadena
  <1>15. MismosDatos(T, U)
    <2>1. SUFFICES ASSUME NEW d \in Celdas
                   PROVE  /\ U.celda[d] = NULO <=> T.celda[d] = NULO
                          /\ T.celda[d] # NULO => /\ U.celda[d].ip = T.celda[d].ip
                                                  /\ U.celda[d].anuncio = T.celda[d].anuncio
      BY DEF MismosDatos
    <2>2. CASE a # NULO /\ d = a
      BY <1>7, <1>12, <2>2, NodoAssumption
    <2>3. CASE s # NULO /\ d = s
      BY <1>8, <1>13, <2>3, NodoAssumption
    <2>4. QED
      BY <1>14, <2>2, <2>3
  <1>16. MismaLista(T, U, Celdas)
    <2>1. U.num = T.num /\ U.primero = T.primero /\ U.ultimo = T.ultimo
      BY <1>10 DEF TrasDeCadena
    <2>2. SUFFICES ASSUME NEW d \in Celdas, T.celda[d] \in Nodo
                   PROVE  /\ U.celda[d] \in Nodo
                          /\ U.celda[d].sigLista = T.celda[d].sigLista
                          /\ U.celda[d].antLista = T.celda[d].antLista
      BY <2>1 DEF MismaLista
    <2>3. QED
      BY <1>12, <1>13, <1>14, <2>2
  <1>17. /\ U \in Tablas(n) /\ U.cap = n /\ \A i : Idx(U, i) = Idx(T, i)
         /\ \A j \in Casillas(n) : U.casilla[j] = IF a = NULO /\ j = k THEN s ELSE T.casilla[j]
    <2>1. U \in Tablas(n) /\ U.cap = n /\ T.cap = n
      BY <1>10 DEF TrasDeCadena, Tablas
    <2>2. \A i : Idx(U, i) = Idx(T, i)
      BY <2>1 DEF Idx
    <2>3. \A j \in Casillas(n) : U.casilla[j] = IF a = NULO /\ j = k THEN s ELSE T.casilla[j]
      BY <1>10, <1>6 DEF TrasDeCadena, Tablas
    <2>4. QED
      BY <2>1, <2>2, <2>3
  <1>18. \A d \in A : /\ U.celda[d] \in Nodo /\ U.celda[d].ip = T.celda[d].ip
                      /\ U.celda[d].sigHash = IF a # NULO /\ d = a THEN s ELSE T.celda[d].sigHash
                      /\ U.celda[d].antHash = IF s # NULO /\ d = s THEN a ELSE T.celda[d].antHash
    <2>1. SUFFICES ASSUME NEW d \in A
                   PROVE  /\ U.celda[d] \in Nodo /\ U.celda[d].ip = T.celda[d].ip
                          /\ U.celda[d].sigHash = IF a # NULO /\ d = a THEN s
                                                  ELSE T.celda[d].sigHash
                          /\ U.celda[d].antHash = IF s # NULO /\ d = s THEN a
                                                  ELSE T.celda[d].antHash
      OBVIOUS
    <2>2. d \in Celdas /\ T.celda[d] \in Nodo
      BY <1>3, <1>5
    <2>3. CASE a # NULO /\ d = a
      BY <1>9, <1>12, <2>3
    <2>4. CASE s # NULO /\ d = s
      BY <1>9, <1>13, <2>4
    <2>5. QED
      BY <1>14, <2>2, <2>3, <2>4
  <1> DEFINE R == A \ {c}
  <1>19. \A d \in R : EnSuCadena(U, R, h, d)
    <2>1. SUFFICES ASSUME NEW d \in R PROVE EnSuCadena(U, R, h, d)
      OBVIOUS
    <2>2. /\ d \in A /\ d # c /\ d # NULO /\ EnSuCadena(T, A, h, d)
          /\ U.celda[d].ip = T.celda[d].ip
      BY <1>3, <1>18
    <2>3. U.celda[d].antHash = NULO => U.casilla[Idx(U, U.celda[d].ip)] = d
      <3>1. SUFFICES ASSUME U.celda[d].antHash = NULO
                     PROVE  U.casilla[Idx(T, T.celda[d].ip)] = d
        BY <1>17, <2>2
      <3>2. CASE s # NULO /\ d = s
        BY <1>8, <1>13, <1>17, <3>1, <3>2
      <3>3. CASE ~ (s # NULO /\ d = s)
        <4>1. T.celda[d].antHash = NULO /\ T.casilla[Idx(T, T.celda[d].ip)] = d
          BY <1>18, <2>2, <3>1, <3>3 DEF EnSuCadena
        <4>2. a # NULO \/ Idx(T, T.celda[d].ip) # k
          BY <1>1, <1>3, <1>6, <2>2, <4>1 DEF EnSuCadena
        <4>3. QED
          BY <1>17, <1>5, <2>2, <4>1, <4>2
      <3>4. QED
        BY <3>2, <3>3
    <2>4. U.celda[d].antHash # NULO =>
            /\ U.celda[d].antHash \in R /\ U.celda[U.celda[d].antHash].sigHash = d
            /\ Idx(U, U.celda[U.celda[d].antHash].ip) = Idx(U, U.celda[d].ip)
      <3>1. SUFFICES ASSUME U.celda[d].antHash # NULO
                     PROVE  /\ U.celda[d].antHash \in R
                            /\ U.celda[U.celda[d].antHash].sigHash = d
                            /\ Idx(T, U.celda[U.celda[d].antHash].ip) = Idx(T, T.celda[d].ip)
        BY <1>17, <2>2
      <3>2. CASE s # NULO /\ d = s
        BY <1>7, <1>8, <1>12, <1>13, <3>1, <3>2
      <3>3. CASE ~ (s # NULO /\ d = s)
        <4>1. PICK e : e = T.celda[d].antHash
          OBVIOUS
        <4>2. /\ U.celda[d].antHash = e /\ e \in A /\ T.celda[e].sigHash = d
              /\ Idx(T, T.celda[e].ip) = Idx(T, T.celda[d].ip)
          BY <1>18, <2>2, <3>1, <3>3, <4>1 DEF EnSuCadena
        <4>3. e # c /\ e # a
          BY <1>2, <1>7, <2>2, <3>1, <3>3, <4>2
        <4>4. QED
          BY <1>18, <4>2, <4>3
      <3>4. QED
        BY <3>2, <3>3
    <2>5. U.celda[d].sigHash # NULO =>
            /\ U.celda[d].sigHash \in R /\ U.celda[U.celda[d].sigHash].antHash = d
            /\ Idx(U, U.celda[U.celda[d].sigHash].ip) = Idx(U, U.celda[d].ip)
            /\ h[d] < h[U.celda[d].sigHash]
      <3>1. SUFFICES ASSUME U.celda[d].sigHash # NULO
                     PROVE  /\ U.celda[d].sigHash \in R
                            /\ U.celda[U.celda[d].sigHash].antHash = d
                            /\ Idx(T, U.celda[U.celda[d].sigHash].ip) = Idx(T, T.celda[d].ip)
                            /\ h[d] < h[U.celda[d].sigHash]
        BY <1>17, <2>2
      <3>2. CASE a # NULO /\ d = a
        BY <1>7, <1>8, <1>9, <1>12, <1>13, <3>1, <3>2
      <3>3. CASE ~ (a # NULO /\ d = a)
        <4>1. PICK e : e = T.celda[d].sigHash
          OBVIOUS
        <4>2. /\ U.celda[d].sigHash = e /\ e \in A /\ T.celda[e].antHash = d
              /\ Idx(T, T.celda[e].ip) = Idx(T, T.celda[d].ip) /\ h[d] < h[e]
          BY <1>18, <2>2, <3>1, <3>3, <4>1 DEF EnSuCadena
        <4>3. e # c /\ e # s
          BY <1>1, <1>8, <2>2, <3>1, <3>3, <4>2
        <4>4. QED
          BY <1>18, <4>2, <4>3
      <3>4. QED
        BY <3>2, <3>3
    <2>6. U.celda[d] \in Nodo
      BY <1>18, <2>2
    <2> HIDE DEF R
    <2>7. QED
      BY <2>3, <2>4, <2>5, <2>6 DEF EnSuCadena
  <1>20. \A j \in Casillas(n) : EsCabeza(U, R, j)
    <2>1. SUFFICES ASSUME NEW j \in Casillas(n), U.casilla[j] # NULO
                   PROVE  /\ U.casilla[j] \in R /\ U.celda[U.casilla[j]].antHash = NULO
                          /\ Idx(T, U.celda[U.casilla[j]].ip) = j
      BY <1>17 DEF EsCabeza
    <2>2. CASE a = NULO /\ j = k
      BY <1>8, <1>13, <1>17, <2>1, <2>2
    <2>3. CASE ~ (a = NULO /\ j = k)
      <3>1. PICK e : e = T.casilla[j]
        OBVIOUS
      <3>2. U.casilla[j] = e /\ e # NULO /\ EsCabeza(T, A, j)
        BY <1>3, <1>17, <2>1, <2>3, <3>1
      <3>3. e \in A /\ T.celda[e].antHash = NULO /\ Idx(T, T.celda[e].ip) = j
        BY <3>1, <3>2 DEF EsCabeza
      <3>4. e # c /\ (s # NULO => e # s)
        BY <1>1, <1>3, <1>6, <1>8, <2>3, <3>3
      <3>5. QED
        BY <1>18, <3>2, <3>3, <3>4
    <2>4. QED
      BY <2>2, <2>3
  <1>21. FormaCadenas(U, R, h, b)
    BY <1>3, <1>17, <1>19, <1>20 DEF FormaCadenas
  <1>22. QED
    BY <1>15, <1>16, <1>17, <1>21

-----------------------------------------------------------------------------
(* The operations *)

\* No two cells of S have the same address.
Distintas(T, S) == \A c, d \in S : T.celda[c].ip = T.celda[d].ip => c = d

\* A table of n chains that holds the cells S, of distinct addresses, rightly
\* linked.
Buena(T, S, n) ==
    /\ n \in Nat \ {0} /\ T \in Tablas(n) /\ IsFiniteSet(S) /\ T.num = Cardinality(S)
    /\ \E r, b : FormaLista(T, S, r, b)
    /\ \E h, b : FormaCadenas(T, S, h, b)
    /\ Distintas(T, S)

\* The cells of a table are nodes.
LEMMA BuenaNodos ==
    ASSUME NEW T, NEW S, NEW n, Buena(T, S, n)
    PROVE  /\ S \subseteq Celdas
           /\ \A c \in S : T.celda[c] \in Nodo /\ T.celda[c] # NULO /\ T.celda[c].ip \in Ips
  <1>1. PICK r, b : FormaLista(T, S, r, b)
    BY DEF Buena
  <1>2. \A c \in S : T.celda[c] \in Nodo
    BY <1>1 DEF FormaLista, EnLista
  <1>3. QED
    BY <1>1, <1>2, NodoAssumption DEF FormaLista, Nodo

\* Two steps that keep the data keep them together.
LEMMA MismosDatosDos ==
    ASSUME NEW T, NEW U, NEW V, MismosDatos(T, U), MismosDatos(U, V)
    PROVE  MismosDatos(T, V)
  BY DEF MismosDatos

\* Two steps that keep the list keep it together.
LEMMA MismaListaDos ==
    ASSUME NEW T, NEW U, NEW V, NEW S, MismaLista(T, U, S), MismaLista(U, V, S)
    PROVE  MismaLista(T, V, S)
  BY DEF MismaLista

\* Fewer cells have no more repeated addresses.
LEMMA IpsDistintas ==
    ASSUME NEW T, NEW U, NEW S, NEW R, S \subseteq Celdas, R \subseteq S, MismosDatos(T, U),
           \A c \in S : T.celda[c] # NULO, Distintas(T, S)
    PROVE  Distintas(U, R)
  <1>1. \A c \in R : c \in S /\ U.celda[c].ip = T.celda[c].ip
    BY DEF MismosDatos
  <1>2. QED
    BY <1>1 DEF Distintas

\* desconectar_nodo takes one cell out.
LEMMA DesconectarBuena ==
    ASSUME NEW T, NEW S, NEW n, Buena(T, S, n), NEW c \in S,
           NEW U, U = Desconectar(T, c)
    PROVE  Buena(U, S \ {c}, n) /\ MismosDatos(T, U)
  <1>1. /\ n \in Nat \ {0} /\ T \in Tablas(n) /\ IsFiniteSet(S) /\ T.num = Cardinality(S)
        /\ Distintas(T, S)
    BY DEF Buena
  <1>2. PICK r, b : FormaLista(T, S, r, b)
    BY DEF Buena
  <1>3. PICK h, l : FormaCadenas(T, S, h, l)
    BY DEF Buena
  <1>4. S \subseteq Celdas /\ \A d \in S : T.celda[d] # NULO
    BY BuenaNodos
  <1>5. PICK T1 : T1 = DeLista(T, c)
    OBVIOUS
  <1>6. /\ T1 \in Tablas(n) /\ T1.num = T.num
        /\ MismosDatos(T, T1) /\ MismasCadenas(T, T1, Celdas)
        /\ FormaLista(T1, S \ {c}, r, b)
    BY <1>1, <1>2, <1>5, DeListaForma
  <1>7. FormaCadenas(T1, S, h, l)
    <2>1. MismasCadenas(T, T1, S)
      BY <1>4, <1>6 DEF MismasCadenas
    <2>2. QED
      BY <1>3, <2>1, MismaFormaCadenas
  <1>8. PICK T2 : T2 = DeCadena(T1, c)
    OBVIOUS
  <1>9. /\ T2 \in Tablas(n)
        /\ MismosDatos(T1, T2) /\ MismaLista(T1, T2, Celdas)
        /\ FormaCadenas(T2, S \ {c}, h, l)
    BY <1>1, <1>6, <1>7, <1>8, DeCadenaForma
  <1>10. U = [T2 EXCEPT !.num = @ - 1]
    BY <1>5, <1>8 DEF Desconectar
  <1>11. /\ U \in Tablas(n) /\ U.num = T2.num - 1
         /\ U.cap = T2.cap /\ U.primero = T2.primero /\ U.ultimo = T2.ultimo
         /\ U.casilla = T2.casilla /\ U.celda = T2.celda
    BY <1>9, <1>10 DEF Tablas
  <1>12. FormaLista(T2, S \ {c}, r, b)
    <2>1. MismaLista(T1, T2, S \ {c})
      BY <1>4, <1>9 DEF MismaLista
    <2>2. QED
      BY <1>6, <2>1, MismaForma
  <1>13. FormaLista(U, S \ {c}, r, b)
    BY <1>11, <1>12 DEF FormaLista, EnLista
  <1>14. FormaCadenas(U, S \ {c}, h, l)
    <2>1. \A i : Idx(U, i) = Idx(T2, i)
      BY <1>11 DEF Idx
    <2>2. QED
      BY <1>9, <1>11, <2>1 DEF FormaCadenas, EnSuCadena, EsCabeza
  <1>15. MismosDatos(T, T2) /\ MismosDatos(T2, U)
    <2>1. MismosDatos(T2, U)
      BY <1>11 DEF MismosDatos
    <2>2. QED
      BY <1>6, <1>9, <2>1, MismosDatosDos
  <1>16. MismosDatos(T, U)
    BY <1>15, MismosDatosDos
  <1>17. Distintas(U, S \ {c})
    BY <1>1, <1>4, <1>16, IpsDistintas
  <1>18. IsFiniteSet(S \ {c}) /\ Cardinality(S \ {c}) = Cardinality(S) - 1
    BY <1>1, FS_RemoveElement
  <1>19. T2.num = T.num
    BY <1>6, <1>9 DEF MismaLista
  <1>20. QED
    BY <1>1, <1>11, <1>13, <1>14, <1>16, <1>17, <1>18, <1>19 DEF Buena

\* The recursion of Redimensionar, over 0..m.
SonCon(f, T0, L, m) == f = [k \in 0..m |-> IF k = 0 THEN T0 ELSE EnCadena(f[k - 1], L[k])]

\* It has a solution.
LEMMA HayCon ==
    ASSUME NEW T0, NEW L, NEW n \in Nat
    PROVE  \E f : SonCon(f, T0, L, n)
  <1> DEFINE Es(f, m) == SonCon(f, T0, L, m)
             A == {m \in Nat : \E f : Es(f, m)}
  <1>1. 0 \in A
    <2>1. Es([k \in 0..0 |-> T0], 0)
      BY DEF SonCon
    <2>2. QED
      BY <2>1
  <1>2. \A m \in 1..n : m - 1 \in A => m \in A
    <2>1. SUFFICES ASSUME NEW m \in 1..n, m - 1 \in A PROVE m \in A
      OBVIOUS
    <2>2. PICK f : Es(f, m - 1)
      BY <2>1
    <2> DEFINE q == [k \in 0..m |-> IF k < m THEN f[k] ELSE EnCadena(f[m - 1], L[m])]
    <2>3. \A k \in 0..m : q[k] = IF k = 0 THEN T0 ELSE EnCadena(q[k - 1], L[k])
      <3>1. SUFFICES ASSUME NEW k \in 0..m
                     PROVE  q[k] = IF k = 0 THEN T0 ELSE EnCadena(q[k - 1], L[k])
        OBVIOUS
      <3>2. k # 0 => q[k - 1] = f[k - 1]
        OBVIOUS
      <3>3. k < m => f[k] = IF k = 0 THEN T0 ELSE EnCadena(f[k - 1], L[k])
        BY <2>2 DEF SonCon
      <3>4. QED
        BY <3>2, <3>3
    <2>4. Es(q, m)
      BY <2>3 DEF SonCon
    <2>5. m \in Nat
      OBVIOUS
    <2> HIDE DEF Es, q
    <2>6. QED
      BY <2>4, <2>5
  <1> HIDE DEF Es, A
  <1>3. n \in A
    BY <1>1, <1>2, HastaN
  <1>4. QED
    BY <1>3 DEF Es, A

\* What Redimensionar returns.
LEMMA RedimensionarEs ==
    ASSUME NEW T, NEW L, L = Lista(T), NEW m \in Nat, m = Len(L)
    PROVE  \E f : SonCon(f, Ampliada(T), L, m) /\ Redimensionar(T) = f[m]
  <1> DEFINE con == CHOOSE f : f = [k \in 0..Len(L) |-> IF k = 0 THEN Ampliada(T)
                                                       ELSE EnCadena(f[k - 1], L[k])]
  <1>1. \E f : SonCon(f, Ampliada(T), L, m)
    BY HayCon
  <1>2. \E f : f = [k \in 0..Len(L) |-> IF k = 0 THEN Ampliada(T) ELSE EnCadena(f[k - 1], L[k])]
    BY <1>1, Zenon DEF SonCon
  <1>3. con = [k \in 0..Len(L) |-> IF k = 0 THEN Ampliada(T) ELSE EnCadena(con[k - 1], L[k])]
    BY <1>2, Zenon
  <1>4. Redimensionar(T) = con[Len(L)]
    BY DEF Redimensionar
  <1> HIDE DEF con
  <1>5. SonCon(con, Ampliada(T), L, m)
    BY <1>3, Zenon DEF SonCon
  <1>6. QED
    BY <1>4, <1>5

\* tablanodos_redimensionar doubles the chains and keeps the cells.
LEMMA RedimensionarBuena ==
    ASSUME NEW T, NEW S, NEW n, Buena(T, S, n),
           NEW U, U = Redimensionar(T)
    PROVE  Buena(U, S, 2 * n) /\ MismosDatos(T, U)
  <1>1. /\ n \in Nat \ {0} /\ T \in Tablas(n) /\ IsFiniteSet(S) /\ T.num = Cardinality(S)
        /\ Distintas(T, S)
    BY DEF Buena
  <1>2. PICK r, b : FormaLista(T, S, r, b)
    BY DEF Buena
  <1>3. S \subseteq Celdas /\ \A d \in S : T.celda[d] \in Nodo /\ T.celda[d] # NULO
    BY BuenaNodos
  <1>4. PICK L : L = Lista(T)
    OBVIOUS
  <1>5. PICK m \in Nat : m = Len(L) /\ DOMAIN L = 1..m /\ \A k \in 1..m : L[k] \in S
    BY <1>2, <1>4, ListaForma
  <1>6. IsInjective(L) /\ ToSet(L) = S
    BY <1>2, <1>4, ListaForma
  <1>7. PICK f : SonCon(f, Ampliada(T), L, m) /\ U = f[m]
    BY <1>4, <1>5, RedimensionarEs
  <1>8. PICK T0 : T0 = Ampliada(T)
    OBVIOUS
  <1>9. f[0] = T0 /\ \A k \in 1..m : f[k] = EnCadena(f[k - 1], L[k])
    BY <1>7, <1>8 DEF SonCon
  <1>10. 2 * n \in Nat \ {0}
    BY <1>1
  <1>11. /\ T0 \in Tablas(2 * n) /\ T0.cap = 2 * n
         /\ T0.num = T.num /\ T0.primero = T.primero /\ T0.ultimo = T.ultimo
         /\ T0.celda = T.celda /\ \A k \in Casillas(2 * n) : T0.casilla[k] = NULO
    <2>1. T.cap = n /\ NULO \in Punteros
      BY <1>1 DEF Tablas, Punteros
    <2>2. PICK v : v = [k \in Casillas(2 * n) |-> NULO]
      OBVIOUS
    <2>3. v \in [Casillas(2 * n) -> Punteros] /\ \A k \in Casillas(2 * n) : v[k] = NULO
      BY <2>1, <2>2
    <2>4. PICK nn : nn = 2 * n
      OBVIOUS
    <2>5. T0 = [T EXCEPT !.cap = nn, !.casilla = v]
      BY <1>1, <1>8, <2>1, <2>2, <2>4 DEF Ampliada, Tablas
    <2>6. QED
      BY <1>1, <2>3, <2>4, <2>5 DEF Tablas
  <1> DEFINE Hechas(k) == {L[j] : j \in 1..k}
             Bien(V, k) == /\ V \in Tablas(2 * n) /\ MismosDatos(T, V)
                           /\ MismaLista(T, V, Celdas)
                           /\ \E h, l : FormaCadenas(V, Hechas(k), h, l)
             A == {k \in 0..m : Bien(f[k], k)}
  <1>12. 0 \in A
    <2>1. MismosDatos(T, T0) /\ MismaLista(T, T0, Celdas)
      BY <1>11 DEF MismosDatos, MismaLista
    <2>2. Hechas(0) = {}
      OBVIOUS
    <2>3. PICK h : h = [c \in Celdas |-> 0]
      OBVIOUS
    <2>4. FormaCadenas(T0, {}, h, 0)
      BY <1>11, <2>3 DEF FormaCadenas, EsCabeza
    <2> HIDE DEF Hechas
    <2>5. QED
      BY <1>9, <1>11, <2>1, <2>2, <2>4
  <1>13. \A k \in 1..m : k - 1 \in A => k \in A
    <2>1. SUFFICES ASSUME NEW k \in 1..m, k - 1 \in A PROVE k \in A
      OBVIOUS
    <2>2. PICK V : V = f[k - 1]
      OBVIOUS
    <2>3. PICK c : c = L[k]
      OBVIOUS
    <2>4. PICK W : W = f[k]
      OBVIOUS
    <2>5. W = EnCadena(V, c) /\ c \in S /\ c \in Celdas
      BY <1>3, <1>5, <1>9, <2>2, <2>3, <2>4
    <2>6. c \notin Hechas(k - 1) /\ Hechas(k) = Hechas(k - 1) \cup {c}
      BY <1>5, <1>6, <2>3 DEF IsInjective
    <2> HIDE DEF Hechas
    <2>7. V \in Tablas(2 * n) /\ MismosDatos(T, V) /\ MismaLista(T, V, Celdas)
      BY <2>1, <2>2
    <2>8. PICK h, l : FormaCadenas(V, Hechas(k - 1), h, l)
      BY <2>1, <2>2
    <2>9. V.celda[c] \in Nodo
      BY <1>3, <2>5, <2>7 DEF MismaLista
    <2>10. /\ W \in Tablas(2 * n) /\ MismosDatos(V, W) /\ MismaLista(V, W, Celdas)
           /\ FormaCadenas(W, Hechas(k - 1) \cup {c}, Antes(h, c, l), l + 1)
      BY <1>10, <2>5, <2>6, <2>7, <2>8, <2>9, EnCadenaForma
    <2>11. MismosDatos(T, W) /\ MismaLista(T, W, Celdas)
      BY <2>7, <2>10, MismosDatosDos, MismaListaDos
    <2>12. \E g, j : FormaCadenas(W, Hechas(k), g, j)
      BY <2>6, <2>10
    <2>13. Bien(W, k)
      BY <2>10, <2>11, <2>12
    <2>14. k \in 0..m
      BY <1>5
    <2> HIDE DEF Bien
    <2>15. QED
      BY <2>4, <2>13, <2>14
  <1> HIDE DEF A
  <1>14. m \in A
    BY SMTT(20), <1>5, <1>12, <1>13, HastaN
  <1>15. Bien(U, m)
    BY <1>7, <1>14 DEF A
  <1>16. Hechas(m) = S
    BY <1>5, <1>6 DEF ToSet
  <1> HIDE DEF Hechas
  <1>17. /\ U \in Tablas(2 * n) /\ MismosDatos(T, U) /\ MismaLista(T, U, Celdas)
         /\ \E h, l : FormaCadenas(U, S, h, l)
    BY <1>15, <1>16
  <1>18. FormaLista(U, S, r, b) /\ U.num = T.num
    <2>1. MismaLista(T, U, S)
      BY <1>3, <1>17 DEF MismaLista
    <2>2. QED
      BY <1>2, <2>1, MismaForma DEF MismaLista
  <1>19. Distintas(U, S)
    BY <1>1, <1>3, <1>17, IpsDistintas
  <1>20. QED
    BY <1>1, <1>10, <1>17, <1>18, <1>19 DEF Buena

\* What a table of cells R is after the announcement of i to one of cells S.
Anunciada(T, U, S, R, i) ==
    /\ S \subseteq R /\ R \subseteq Celdas
    /\ \A d \in R \ S : T.celda[d] = NULO
    /\ \A d \in Celdas \ R : U.celda[d] = NULO <=> T.celda[d] = NULO
    /\ \A d \in Celdas : T.celda[d] # NULO => U.celda[d].ip = T.celda[d].ip
    /\ \E d \in R : U.celda[d].ip = i
    /\ \A d \in R : IF U.celda[d].ip = i THEN U.celda[d].anuncio = ahora
                    ELSE d \in S /\ U.celda[d].anuncio = T.celda[d].anuncio

\* A repeated announcement only sets the time of its cell.
LEMMA RenovarBuena ==
    ASSUME NEW T, NEW S, NEW n, Buena(T, S, n), NEW i \in Ips, ahora \in 0..MaxTiempo,
           NEW c \in S, T.celda[c].ip = i,
           NEW U, U = [T EXCEPT !.celda[c].anuncio = ahora]
    PROVE  Buena(U, S, n) /\ Anunciada(T, U, S, S, i) /\ U.num = T.num
  <1>1. /\ n \in Nat \ {0} /\ T \in Tablas(n) /\ IsFiniteSet(S) /\ T.num = Cardinality(S)
        /\ Distintas(T, S)
    BY DEF Buena
  <1>2. S \subseteq Celdas /\ \A d \in S : T.celda[d] \in Nodo /\ T.celda[d] # NULO
    BY BuenaNodos
  <1>3. PICK nuevo : nuevo = [T.celda[c] EXCEPT !.anuncio = ahora]
    OBVIOUS
  <1>4. /\ nuevo \in Nodo /\ nuevo.anuncio = ahora /\ nuevo.ip = T.celda[c].ip
        /\ nuevo.sigHash = T.celda[c].sigHash /\ nuevo.antHash = T.celda[c].antHash
        /\ nuevo.sigLista = T.celda[c].sigLista /\ nuevo.antLista = T.celda[c].antLista
    BY <1>2, <1>3 DEF Nodo
  <1>5. /\ U \in Tablas(n) /\ U.cap = T.cap /\ U.num = T.num /\ U.primero = T.primero
        /\ U.ultimo = T.ultimo /\ U.casilla = T.casilla
        /\ U.celda = [T.celda EXCEPT ![c] = nuevo]
    <2>1. U = [T EXCEPT !.celda = [T.celda EXCEPT ![c] = nuevo]]
      BY <1>1, <1>3 DEF Tablas
    <2>2. [T.celda EXCEPT ![c] = nuevo] \in [Celdas -> Nodo \cup {NULO}]
      BY <1>1, <1>4 DEF Tablas
    <2>3. QED
      BY <1>1, <2>1, <2>2 DEF Tablas
  <1>6. U.celda[c] = nuevo /\ \A d \in Celdas : d # c => U.celda[d] = T.celda[d]
    BY <1>1, <1>2, <1>5 DEF Tablas
  <1>7. \A d \in Celdas : /\ U.celda[d] = NULO <=> T.celda[d] = NULO
                          /\ T.celda[d] # NULO => U.celda[d].ip = T.celda[d].ip
    BY <1>2, <1>4, <1>6, NodoAssumption
  <1>8. MismaLista(T, U, S) /\ MismasCadenas(T, U, S)
    BY <1>2, <1>4, <1>5, <1>6 DEF MismaLista, MismasCadenas
  <1>9. \A d \in S : U.celda[d].ip = i <=> d = c
    BY <1>1, <1>2, <1>7 DEF Distintas
  <1>10. Anunciada(T, U, S, S, i)
    BY <1>2, <1>4, <1>6, <1>7, <1>9 DEF Anunciada
  <1>11. Distintas(U, S)
    BY <1>1, <1>2, <1>7 DEF Distintas
  <1>12. (\E r, b : FormaLista(U, S, r, b)) /\ (\E h, b : FormaCadenas(U, S, h, b))
    BY <1>8, MismaForma, MismaFormaCadenas DEF Buena
  <1>13. QED
    BY <1>1, <1>5, <1>10, <1>11, <1>12 DEF Buena

\* A first announcement takes a free cell.
LEMMA AgregarBuena ==
    ASSUME NEW T, NEW S, NEW n, Buena(T, S, n), NEW i \in Ips, ahora \in 0..MaxTiempo,
           \A d \in S : T.celda[d].ip # i,
           NEW c \in Celdas, T.celda[c] = NULO,
           NEW nuevo,
           nuevo = [ip |-> i, anuncio |-> ahora, sigHash |-> NULO, antHash |-> NULO,
                    sigLista |-> NULO, antLista |-> NULO],
           NEW U, U = AlFinal(EnCadena([T EXCEPT !.celda[c] = nuevo], c), c)
    PROVE  Buena(U, S \cup {c}, n) /\ Anunciada(T, U, S, S \cup {c}, i) /\ U.num = T.num + 1
  <1>1. /\ n \in Nat \ {0} /\ T \in Tablas(n) /\ IsFiniteSet(S) /\ T.num = Cardinality(S)
        /\ Distintas(T, S)
    BY DEF Buena
  <1>2. S \subseteq Celdas /\ \A d \in S : T.celda[d] \in Nodo /\ T.celda[d] # NULO
    BY BuenaNodos
  <1>3. PICK r, b : FormaLista(T, S, r, b)
    BY DEF Buena
  <1>4. PICK h, l : FormaCadenas(T, S, h, l)
    BY DEF Buena
  <1>5. nuevo \in Nodo /\ nuevo.ip = i /\ nuevo.anuncio = ahora
    BY DEF Nodo, Punteros
  <1>6. c \notin S
    BY <1>2
  <1>7. PICK T1 : T1 = [T EXCEPT !.celda[c] = nuevo]
    OBVIOUS
  <1>8. /\ T1 \in Tablas(n) /\ T1.cap = T.cap /\ T1.num = T.num /\ T1.primero = T.primero
        /\ T1.ultimo = T.ultimo /\ T1.casilla = T.casilla
        /\ T1.celda[c] = nuevo /\ \A d \in Celdas : d # c => T1.celda[d] = T.celda[d]
    BY <1>1, <1>5, <1>7 DEF Tablas
  <1>9. MismaLista(T, T1, S) /\ MismasCadenas(T, T1, S)
    BY <1>2, <1>6, <1>8 DEF MismaLista, MismasCadenas
  <1>10. FormaLista(T1, S, r, b) /\ FormaCadenas(T1, S, h, l)
    BY <1>3, <1>4, <1>9, MismaForma, MismaFormaCadenas
  <1>11. PICK T2 : T2 = EnCadena(T1, c)
    OBVIOUS
  <1>12. PICK g : g = Antes(h, c, l)
    OBVIOUS
  <1>13. /\ T2 \in Tablas(n) /\ MismosDatos(T1, T2) /\ MismaLista(T1, T2, Celdas)
         /\ FormaCadenas(T2, S \cup {c}, g, l + 1)
    <2>1. T1.celda[c] \in Nodo
      BY <1>5, <1>8
    <2>2. QED
      BY <1>1, <1>6, <1>8, <1>10, <1>11, <1>12, <2>1, EnCadenaForma
  <1>14. FormaLista(T2, S, r, b) /\ T2.num = T.num /\ T2.celda[c] \in Nodo
    <2>1. MismaLista(T1, T2, S)
      BY <1>2, <1>13 DEF MismaLista
    <2>2. FormaLista(T2, S, r, b)
      BY <1>10, <2>1, MismaForma
    <2>3. QED
      BY <1>5, <1>8, <1>13, <2>2 DEF MismaLista
  <1>15. U = AlFinal(T2, c)
    BY <1>7, <1>11
  <1>16. PICK q : q = Despues(r, c, b)
    OBVIOUS
  <1>17. /\ U \in Tablas(n) /\ U.num = T.num + 1
         /\ MismosDatos(T2, U) /\ MismasCadenas(T2, U, Celdas)
         /\ FormaLista(U, S \cup {c}, q, b + 1)
    <2>1. T2.num = Cardinality(S)
      BY <1>1, <1>14
    <2>2. T2 \in Tablas(n) /\ FormaLista(T2, S, r, b) /\ T2.celda[c] \in Nodo
      BY <1>13, <1>14
    <2>3. /\ U \in Tablas(n) /\ U.num = T2.num + 1
          /\ MismosDatos(T2, U) /\ MismasCadenas(T2, U, Celdas)
          /\ FormaLista(U, S \cup {c}, q, b + 1)
      BY <1>1, <1>6, <1>15, <1>16, <2>1, <2>2, AlFinalForma
    <2>4. QED
      BY <1>14, <2>3
  <1>18. FormaCadenas(U, S \cup {c}, g, l + 1)
    <2>1. MismasCadenas(T2, U, S \cup {c})
      BY <1>2, <1>17 DEF MismasCadenas
    <2>2. QED
      BY <1>13, <2>1, MismaFormaCadenas
  <1>19. MismosDatos(T1, U)
    BY <1>13, <1>17, MismosDatosDos
  <1>20. /\ U.celda[c].ip = i /\ U.celda[c].anuncio = ahora
         /\ \A d \in Celdas : d # c =>
              /\ U.celda[d] = NULO <=> T.celda[d] = NULO
              /\ T.celda[d] # NULO => /\ U.celda[d].ip = T.celda[d].ip
                                      /\ U.celda[d].anuncio = T.celda[d].anuncio
    BY <1>5, <1>8, <1>19, NodoAssumption DEF MismosDatos
  <1>21. Anunciada(T, U, S, S \cup {c}, i)
    BY <1>2, <1>20 DEF Anunciada
  <1>22. Distintas(U, S \cup {c})
    BY <1>1, <1>2, <1>20 DEF Distintas
  <1>23. IsFiniteSet(S \cup {c}) /\ Cardinality(S \cup {c}) = Cardinality(S) + 1
    BY <1>1, <1>6, FS_AddElement
  <1>24. QED
    BY <1>1, <1>17, <1>18, <1>21, <1>22, <1>23 DEF Buena

\* tablanodos_insertar.
LEMMA InsertarBuena ==
    ASSUME NEW T, NEW S, NEW n, Buena(T, S, n), 4 * T.num < 3 * n,
           NEW i \in Ips, ahora \in 0..MaxTiempo,
           (\A d \in S : T.celda[d].ip # i) => \E c \in Celdas : T.celda[c] = NULO,
           NEW U, U = Insertar(T, i)
    PROVE  \E R, m : Buena(U, R, m) /\ 4 * U.num < 3 * m /\ Anunciada(T, U, S, R, i)
  <1>1. n \in Nat \ {0} /\ T \in Tablas(n) /\ T.num = Cardinality(S) /\ T.num \in Nat
    BY FS_CardinalityType DEF Buena
  <1>2. PICK T1 : T1 = IF Llena(T) THEN Redimensionar(T) ELSE T
    OBVIOUS
  <1>3. PICK m : m = IF Llena(T) THEN 2 * n ELSE n
    OBVIOUS
  <1>4. Buena(T1, S, m) /\ MismosDatos(T, T1) /\ T1.num = T.num
    <2>1. CASE Llena(T)
      BY <1>2, <1>3, <2>1, RedimensionarBuena DEF Buena
    <2>2. CASE ~ Llena(T)
      BY <1>2, <1>3, <2>2 DEF MismosDatos
    <2>3. QED
      BY <2>1, <2>2
  <1>5. 4 * (T1.num + 1) < 3 * m
    <2>1. T.cap = n
      BY <1>1 DEF Tablas
    <2>2. QED
      BY <1>1, <1>3, <1>4, <2>1 DEF Llena
  <1>6. m \in Nat \ {0} /\ T1 \in Tablas(m)
    BY <1>4 DEF Buena
  <1>7. S \subseteq Celdas /\ \A d \in S : T1.celda[d] \in Nodo /\ T1.celda[d].ip \in Ips
    BY <1>4, BuenaNodos
  <1>8. PICK k : k = Idx(T1, i)
    OBVIOUS
  <1>9. k \in Casillas(m)
    BY <1>6, <1>8, IdxRango
  <1>10. ToSet(Cadena(T1, k)) = DeCasilla(T1, S, k)
    <2>1. PICK h, b : FormaCadenas(T1, S, h, b)
      BY <1>4 DEF Buena
    <2>2. QED
      BY <1>6, <1>9, <2>1, CadenaForma
  <1>11. PICK I : I = {c \in ToSet(Cadena(T1, Idx(T1, i))) : T1.celda[c].ip = i}
    OBVIOUS
  <1>12. I = {c \in S : T1.celda[c].ip = i}
    BY <1>8, <1>10, <1>11 DEF DeCasilla
  <1>13. \A d \in Celdas : /\ T1.celda[d] = NULO <=> T.celda[d] = NULO
                           /\ T.celda[d] # NULO => /\ T1.celda[d].ip = T.celda[d].ip
                                                   /\ T1.celda[d].anuncio = T.celda[d].anuncio
    BY <1>4 DEF MismosDatos
  <1>14. \A d \in S : T.celda[d] # NULO
    BY BuenaNodos
  <1>15. \E R : Buena(U, R, m) /\ Anunciada(T1, U, S, R, i) /\ 4 * U.num < 3 * m
    <2>1. CASE I # {}
      <3>1. PICK c \in I : c = CHOOSE x \in I : TRUE
        BY <2>1
      <3>2. c \in S /\ T1.celda[c].ip = i
        BY <1>12
      <3>3. U = [T1 EXCEPT !.celda[c].anuncio = ahora]
        BY <1>2, <1>11, <2>1, <3>1 DEF Insertar
      <3>4. Buena(U, S, m) /\ Anunciada(T1, U, S, S, i) /\ U.num = T1.num
        BY <1>4, <3>2, <3>3, RenovarBuena
      <3>5. 4 * U.num < 3 * m
        BY <1>1, <1>4, <1>5, <1>6, <3>4
      <3>6. QED
        BY <3>4, <3>5
    <2>2. CASE I = {}
      <3>1. \A d \in S : T1.celda[d].ip # i
        BY <1>12, <2>2
      <3>2. \A d \in S : T.celda[d].ip # i
        BY <1>7, <1>13, <1>14, <3>1
      <3>3. \E c \in Celdas : T1.celda[c] = NULO
        BY <1>13, <3>2
      <3>4. PICK c : c = Libre(T1)
        OBVIOUS
      <3>5. c \in Celdas /\ T1.celda[c] = NULO
        BY <3>3, <3>4 DEF Libre
      <3>6. PICK nuevo :
              nuevo = [ip |-> i, anuncio |-> ahora, sigHash |-> NULO, antHash |-> NULO,
                       sigLista |-> NULO, antLista |-> NULO]
        OBVIOUS
      <3>7. U = AlFinal(EnCadena([T1 EXCEPT !.celda[c] = nuevo], c), c)
        BY <1>2, <1>11, <2>2, <3>4, <3>6 DEF Insertar
      <3>8. Buena(U, S \cup {c}, m) /\ Anunciada(T1, U, S, S \cup {c}, i) /\ U.num = T1.num + 1
        BY <1>4, <3>1, <3>5, <3>6, <3>7, AgregarBuena
      <3>9. 4 * U.num < 3 * m
        BY <1>5, <3>8
      <3>10. QED
        BY <3>8, <3>9
    <2>3. QED
      BY <2>1, <2>2
  <1>16. PICK R : Buena(U, R, m) /\ Anunciada(T1, U, S, R, i) /\ 4 * U.num < 3 * m
    BY <1>15
  <1>17. Anunciada(T, U, S, R, i)
    BY <1>7, <1>13, <1>14, <1>16 DEF Anunciada
  <1>18. QED
    BY <1>16, <1>17

\* A sequence lists a set, each element once.
Enumera(s, F) == s \in Seq(F) /\ IsInjective(s) /\ ToSet(s) = F

\* It may have one more in front.
LEMMA Delante ==
    ASSUME NEW F, NEW s, Enumera(s, F), NEW c, c \notin F,
           NEW q, q = <<c>> \o s
    PROVE  Enumera(q, F \cup {c})
  <1>1. s \in Seq(F) /\ IsInjective(s) /\ ToSet(s) = F
    BY DEF Enumera
  <1>2. PICK m \in Nat : m = Len(s)
    BY <1>1
  <1>3. DOMAIN s = 1..m /\ \A k \in 1..m : s[k] \in F
    BY <1>1, <1>2
  <1>4. q \in Seq(F \cup {c})
    <2>1. <<c>> \in Seq(F \cup {c}) /\ s \in Seq(F \cup {c})
      BY <1>1
    <2>2. QED
      BY <2>1
  <1>5. Len(q) = m + 1 /\ q[1] = c /\ \A k \in 2..(m + 1) : q[k] = s[k - 1]
    BY <1>1, <1>2
  <1>6. DOMAIN q = 1..(m + 1)
    BY <1>4, <1>5
  <1>7. IsInjective(q)
    <2>1. SUFFICES ASSUME NEW j \in 1..(m + 1), NEW k \in 1..(m + 1), q[j] = q[k]
                   PROVE  j = k
      BY <1>6 DEF IsInjective
    <2>2. \A e \in 2..(m + 1) : q[e] = s[e - 1] /\ e - 1 \in 1..m /\ q[e] # c
      BY <1>3, <1>5
    <2>3. CASE j = 1 \/ k = 1
      BY <1>5, <2>1, <2>2, <2>3
    <2>4. CASE j \in 2..(m + 1) /\ k \in 2..(m + 1)
      <3>1. s[j - 1] = s[k - 1] /\ j - 1 \in DOMAIN s /\ k - 1 \in DOMAIN s
        BY <1>3, <2>1, <2>2, <2>4
      <3>2. j - 1 = k - 1
        BY <1>1, <3>1 DEF IsInjective
      <3>3. QED
        BY <2>4, <3>2
    <2>5. QED
      BY <2>3, <2>4
  <1>8. ToSet(q) = F \cup {c}
    <2>1. \A e \in F : \E k \in 1..(m + 1) : q[k] = e
      <3>1. SUFFICES ASSUME NEW e \in F PROVE \E k \in 1..(m + 1) : q[k] = e
        OBVIOUS
      <3>2. PICK k \in 1..m : s[k] = e
        BY <1>1, <1>3 DEF ToSet
      <3>3. k + 1 \in 2..(m + 1) /\ k + 1 \in 1..(m + 1) /\ (k + 1) - 1 = k
        BY <1>2
      <3>4. q[k + 1] = s[(k + 1) - 1]
        BY <1>5, <3>3
      <3>5. QED
        BY <3>2, <3>3, <3>4
    <2>2. \A k \in 1..(m + 1) : q[k] \in F \cup {c}
      BY <1>4, <1>6
    <2>3. \E k \in 1..(m + 1) : q[k] = c
      BY <1>5
    <2>4. \A e : e \in ToSet(q) <=> \E k \in 1..(m + 1) : q[k] = e
      BY <1>6 DEF ToSet
    <2>5. QED
      BY <2>1, <2>2, <2>3, <2>4
  <1>9. QED
    BY <1>4, <1>7, <1>8 DEF Enumera

\* Or the first taken off.
LEMMA SinPrimero ==
    ASSUME NEW F, NEW s, Enumera(s, F), s # <<>>,
           NEW q, q = Tail(s)
    PROVE  Enumera(q, F \ {Head(s)}) /\ Head(s) \in F
  <1>1. s \in Seq(F) /\ IsInjective(s) /\ ToSet(s) = F
    BY DEF Enumera
  <1>2. PICK m \in Nat : m = Len(s)
    BY <1>1
  <1>3. DOMAIN s = 1..m /\ m >= 1 /\ Head(s) = s[1]
    BY <1>1, <1>2
  <1>4. Len(q) = m - 1 /\ DOMAIN q = 1..(m - 1) /\ \A k \in 1..(m - 1) : q[k] = s[k + 1]
    BY <1>1, <1>2, <1>3
  <1>5. IsInjective(q)
    BY <1>1, <1>3, <1>4 DEF IsInjective
  <1>6. ToSet(q) = ToSet(s) \ {Head(s)}
    <2>1. \A k \in 1..(m - 1) : q[k] = s[k + 1] /\ k + 1 \in 1..m /\ s[k + 1] # s[1]
      BY <1>1, <1>3, <1>4 DEF IsInjective
    <2>2. \A k \in 1..m : s[k] # s[1] => k - 1 \in 1..(m - 1) /\ q[k - 1] = s[k]
      BY <1>3, <1>4
    <2>3. \A e : e \in ToSet(q) <=> \E k \in 1..(m - 1) : q[k] = e
      BY <1>4 DEF ToSet
    <2>4. \A e : e \in ToSet(s) <=> \E k \in 1..m : s[k] = e
      BY <1>3 DEF ToSet
    <2>5. \A e \in ToSet(q) : e \in ToSet(s) /\ e # s[1]
      BY <2>1, <2>3, <2>4
    <2>6. \A e \in ToSet(s) : e # s[1] => e \in ToSet(q)
      BY <2>2, <2>3, <2>4
    <2>7. QED
      BY <1>3, <2>5, <2>6
  <1>7. Head(s) \in ToSet(s)
    BY <1>3 DEF ToSet
  <1>8. q \in Seq(F \ {Head(s)})
    <2>1. \A k \in 1..(m - 1) : q[k] \in F \ {Head(s)}
      BY <1>1, <1>4, <1>6 DEF ToSet
    <2>2. q \in Seq(F)
      BY <1>1, <1>3
    <2>3. q \in [1..(m - 1) -> F] /\ m - 1 \in Nat
      BY <1>3, <1>4, <2>2, LenProperties
    <2>4. q \in [1..(m - 1) -> F \ {Head(s)}]
      BY <2>1, <2>3
    <2>5. QED
      BY <2>3, <2>4, SeqDef
  <1>9. QED
    BY <1>1, <1>5, <1>6, <1>7, <1>8 DEF Enumera

\* The recursion of Barrido, over 0..m.
SonTras(f, b0, L, t, m) == f = [k \in 0..m |-> IF k = 0 THEN b0 ELSE Revisar(f[k - 1], L[k], t)]

\* It has a solution.
LEMMA HayTras ==
    ASSUME NEW b0, NEW L, NEW t, NEW n \in Nat
    PROVE  \E f : SonTras(f, b0, L, t, n)
  <1> DEFINE Es(f, m) == SonTras(f, b0, L, t, m)
             A == {m \in Nat : \E f : Es(f, m)}
  <1>1. 0 \in A
    <2>1. Es([k \in 0..0 |-> b0], 0)
      BY DEF SonTras
    <2>2. QED
      BY <2>1
  <1>2. \A m \in 1..n : m - 1 \in A => m \in A
    <2>1. SUFFICES ASSUME NEW m \in 1..n, m - 1 \in A PROVE m \in A
      OBVIOUS
    <2>2. PICK f : Es(f, m - 1)
      BY <2>1
    <2> DEFINE q == [k \in 0..m |-> IF k < m THEN f[k] ELSE Revisar(f[m - 1], L[m], t)]
    <2>3. \A k \in 0..m : q[k] = IF k = 0 THEN b0 ELSE Revisar(q[k - 1], L[k], t)
      <3>1. SUFFICES ASSUME NEW k \in 0..m
                     PROVE  q[k] = IF k = 0 THEN b0 ELSE Revisar(q[k - 1], L[k], t)
        OBVIOUS
      <3>2. k # 0 => q[k - 1] = f[k - 1]
        OBVIOUS
      <3>3. k < m => f[k] = IF k = 0 THEN b0 ELSE Revisar(f[k - 1], L[k], t)
        BY <2>2 DEF SonTras
      <3>4. QED
        BY <3>2, <3>3
    <2>4. Es(q, m)
      BY <2>3 DEF SonTras
    <2>5. m \in Nat
      OBVIOUS
    <2> HIDE DEF Es, q
    <2>6. QED
      BY <2>4, <2>5
  <1> HIDE DEF Es, A
  <1>3. n \in A
    BY <1>1, <1>2, HastaN
  <1>4. QED
    BY <1>3 DEF Es, A

\* What Barrido returns.
LEMMA BarridoEs ==
    ASSUME NEW t, NEW L, L = Lista(tabla), NEW m \in Nat, m = Len(L)
    PROVE  \E f : SonTras(f, [tabla |-> tabla, fuera |-> <<>>], L, t, m) /\ Barrido(t) = f[m]
  <1> DEFINE tras == CHOOSE f : f = [k \in 0..Len(L) |->
                                       IF k = 0 THEN [tabla |-> tabla, fuera |-> <<>>]
                                       ELSE Revisar(f[k - 1], L[k], t)]
  <1>1. \E f : SonTras(f, [tabla |-> tabla, fuera |-> <<>>], L, t, m)
    BY HayTras
  <1>2. \E f : f = [k \in 0..Len(L) |-> IF k = 0 THEN [tabla |-> tabla, fuera |-> <<>>]
                                       ELSE Revisar(f[k - 1], L[k], t)]
    BY <1>1, Zenon DEF SonTras
  <1>3. tras = [k \in 0..Len(L) |-> IF k = 0 THEN [tabla |-> tabla, fuera |-> <<>>]
                                   ELSE Revisar(tras[k - 1], L[k], t)]
    BY <1>2, Zenon
  <1>4. Barrido(t) = tras[Len(L)]
    BY DEF Barrido
  <1> HIDE DEF tras
  <1>5. SonTras(tras, [tabla |-> tabla, fuera |-> <<>>], L, t, m)
    BY <1>3, Zenon DEF SonTras
  <1>6. QED
    BY <1>4, <1>5

\* The walk of tablanodos_borrar_expirados takes out the silent cells, each
\* once.
LEMMA BarridoBuena ==
    ASSUME NEW T, T = tabla, NEW S, NEW n, Buena(T, S, n), NEW t,
           NEW F, F = {c \in S : Callado(T.celda[c], t)},
           NEW B, B = Barrido(t)
    PROVE  /\ Buena(B.tabla, S \ F, n) /\ MismosDatos(T, B.tabla)
           /\ Enumera(B.fuera, F)
  <1>1. PICK r, b : FormaLista(T, S, r, b)
    BY DEF Buena
  <1>2. S \subseteq Celdas /\ \A d \in S : T.celda[d] \in Nodo /\ T.celda[d] # NULO
    BY BuenaNodos
  <1>3. PICK L : L = Lista(T)
    OBVIOUS
  <1>4. PICK m \in Nat : m = Len(L) /\ DOMAIN L = 1..m /\ \A k \in 1..m : L[k] \in S
    BY <1>1, <1>3, ListaForma
  <1>5. IsInjective(L) /\ ToSet(L) = S
    BY <1>1, <1>3, ListaForma
  <1>6. PICK b0 : b0 = [tabla |-> T, fuera |-> <<>>]
    OBVIOUS
  <1>7. PICK f : SonTras(f, b0, L, t, m) /\ B = f[m]
    BY <1>3, <1>4, <1>6, BarridoEs
  <1>8. f[0] = b0 /\ \A k \in 1..m : f[k] = Revisar(f[k - 1], L[k], t)
    BY <1>7 DEF SonTras
  <1> DEFINE Fuera(k) == {c \in F : \E j \in 1..k : c = L[j]}
             Bien(B0, G) == /\ Buena(B0.tabla, S \ G, n) /\ MismosDatos(T, B0.tabla)
                            /\ Enumera(B0.fuera, G)
             A == {k \in 0..m : Bien(f[k], Fuera(k))}
  <1>9. 0 \in A
    <2>1. Fuera(0) = {}
      OBVIOUS
    <2>2. b0.tabla = T /\ b0.fuera = <<>>
      BY <1>6
    <2>3. MismosDatos(T, T) /\ S \ {} = S
      BY DEF MismosDatos
    <2>4. Enumera(<<>>, {})
      BY DEF Enumera, IsInjective, ToSet
    <2>5. Bien(b0, {})
      BY <2>2, <2>3, <2>4
    <2> HIDE DEF Bien, Fuera
    <2>6. QED
      BY <1>8, <2>1, <2>5
  <1>10. \A k \in 1..m : k - 1 \in A => k \in A
    <2>1. SUFFICES ASSUME NEW k \in 1..m, k - 1 \in A PROVE k \in A
      OBVIOUS
    <2>2. PICK V : V = f[k - 1]
      OBVIOUS
    <2>3. PICK c : c = L[k]
      OBVIOUS
    <2>4. PICK W : W = f[k]
      OBVIOUS
    <2>5. W = Revisar(V, c, t) /\ c \in S /\ c \in Celdas
      BY <1>2, <1>4, <1>8, <2>2, <2>3, <2>4
    <2>6. PICK G : G = Fuera(k - 1)
      OBVIOUS
    <2>7. c \notin G /\ Fuera(k) = IF c \in F THEN G \cup {c} ELSE G
      BY <1>4, <1>5, <2>3, <2>6 DEF IsInjective
    <2>8. Bien(V, G)
      BY <2>1, <2>2, <2>6
    <2>9. k \in 0..m
      BY <1>4
    <2>10. Callado(V.tabla.celda[c], t) <=> c \in F
      <3>1. V.tabla.celda[c].anuncio = T.celda[c].anuncio
        BY <1>2, <2>5, <2>8 DEF MismosDatos
      <3>2. QED
        BY <2>5, <3>1 DEF Callado
    <2> HIDE DEF Fuera
    <2>11. CASE c \in F
      <3>1. W = [tabla |-> Desconectar(V.tabla, c), fuera |-> <<c>> \o V.fuera]
        BY <2>5, <2>10, <2>11 DEF Revisar
      <3>2. PICK T1 : T1 = V.tabla
        OBVIOUS
      <3>3. PICK T2 : T2 = W.tabla
        OBVIOUS
      <3>4. T2 = Desconectar(T1, c) /\ W.fuera = <<c>> \o V.fuera
        BY <3>1, <3>2, <3>3
      <3>5. Buena(T1, S \ G, n) /\ c \in S \ G
        BY <2>5, <2>7, <2>8, <3>2
      <3>6. Buena(T2, (S \ G) \ {c}, n) /\ MismosDatos(T1, T2)
        BY <3>4, <3>5, DesconectarBuena
      <3>7. (S \ G) \ {c} = S \ (G \cup {c})
        OBVIOUS
      <3>8. MismosDatos(T, T2)
        BY <2>8, <3>2, <3>6, MismosDatosDos
      <3>9. PICK s : s = V.fuera
        OBVIOUS
      <3>10. Enumera(s, G)
        BY <2>8, <3>9
      <3>11. PICK q : q = W.fuera
        OBVIOUS
      <3>12. q = <<c>> \o s
        BY <3>4, <3>9, <3>11
      <3>13. Enumera(q, G \cup {c})
        BY <2>7, <3>10, <3>12, Delante
      <3>14. Bien(W, G \cup {c})
        BY <3>3, <3>6, <3>7, <3>8, <3>11, <3>13
      <3>15. Fuera(k) = G \cup {c}
        BY <2>7, <2>11
      <3> HIDE DEF Bien
      <3>16. QED
        BY <2>4, <2>9, <3>14, <3>15
    <2>12. CASE c \notin F
      <3>1. W = V
        BY <2>5, <2>10, <2>12 DEF Revisar
      <3>2. Fuera(k) = G
        BY <2>7, <2>12
      <3> HIDE DEF Bien
      <3>3. QED
        BY <2>4, <2>8, <2>9, <3>1, <3>2
    <2>13. QED
      BY <2>11, <2>12
  <1> HIDE DEF A
  <1>11. m \in A
    BY <1>4, <1>9, <1>10, HastaN
  <1>12. Fuera(m) = F
    BY <1>4, <1>5 DEF ToSet
  <1> HIDE DEF Fuera
  <1>13. Bien(B, F)
    BY <1>7, <1>11, <1>12 DEF A
  <1>14. QED
    BY <1>13

=============================================================================
