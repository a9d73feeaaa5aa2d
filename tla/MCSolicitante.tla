--------------------------- MODULE MCSolicitante ---------------------------
(* Instances of Solicitante for TLC. *)
EXTENDS Solicitante, TLC

CONSTANTS h1, h2, j1, j2, d1, d2, n1, n2

NodoDos == d1 :> n1 @@ d2 :> n2

\* A job that wants both resources, and may be asked for twice; another that
\* wants one of them.
PideDos == j1 :> <<d1, d2>> @@ j2 :> <<d1>>
Veces == j1 :> 2 @@ j2 :> 1
J1D2 == {<<j1, d2>>}

\* Threads are interchangeable: no property names one.
HilosIguales == Permutations(Hilos)
=============================================================================
