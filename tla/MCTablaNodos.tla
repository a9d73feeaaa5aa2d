---------------------------- MODULE MCTablaNodos ----------------------------
(* Instances of TablaNodos for TLC. *)
EXTENDS TablaNodos, TLC

CONSTANTS i1, i2, i3

\* One chain of two, or of four, holds the three addresses; when there are
\* eight chains i3 leaves it and i1 and i2 still collide.
HashChoca == i1 :> 1 @@ i2 :> 9 @@ i3 :> 5

\* The threads are interchangeable.
Simetria == Permutations(Hilos)
=============================================================================
