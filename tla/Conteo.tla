------------------------------- MODULE Conteo -------------------------------
(***************************************************************************)
(* Sums and subsequences written by counting elements of finite sets, with *)
(* no recursion: the laws of finite sets then prove theirs.                *)
(***************************************************************************)
EXTENDS Integers, Sequences, FiniteSets

\* The sum of f over S: the number of tokens <<x, k>> with 1 <= k <= f[x].
Fichas(S, f) == UNION {{x} \X (1..f[x]) : x \in S}
Suma(S, f) == Cardinality(Fichas(S, f))

\* How many of the positions I are not after i.
Rango(I, i) == Cardinality({h \in I : h <= i})

\* The elements of the sequence s at the positions I, in their order in s.
EnPosiciones(s, I) ==
    [k \in 1..Cardinality(I) |-> s[CHOOSE i \in I : Rango(I, i) = k]]
=============================================================================
