--------------------------- MODULE DirectorioNodos ---------------------------
(***************************************************************************)
(* What the table of nodes promises (tablanodos.h): for each address, when *)
(* it was last heard of; an address is forgotten only after a silence of   *)
(* more than Vida seconds; a listing names every known address once.       *)
(***************************************************************************)
EXTENDS Integers, Sequences, Functions

CONSTANTS
    Ips,    \* addresses of the network
    Vida,   \* seconds of silence a node is allowed
    Nunca   \* not known

VARIABLES
    visto,    \* when each address last announced itself, or Nunca
    ahora,    \* the clock, in seconds
    listado   \* the listing on its way out

vars == <<visto, ahora, listado>>

Conocidas == {i \in Ips : visto[i] # Nunca}

Init ==
    /\ visto = [i \in Ips |-> Nunca]
    /\ ahora = 0
    /\ listado = <<>>

\* Time passes.
Tictac ==
    /\ ahora' = ahora + 1
    /\ UNCHANGED <<visto, listado>>

\* An announcement of the address i is taken in.
Registrar(i) ==
    /\ visto' = [visto EXCEPT ![i] = ahora]
    /\ UNCHANGED <<ahora, listado>>

\* The silent addresses are forgotten, all at once; the clock they are judged
\* by may have been read a while ago.
Olvidar(leido) ==
    /\ visto' = [i \in Ips |->
                    IF visto[i] # Nunca /\ leido - visto[i] > Vida THEN Nunca ELSE visto[i]]
    /\ UNCHANGED <<ahora, listado>>

\* A listing: the known addresses, in any order.
Listar ==
    /\ IsInjective(listado')
    /\ Range(listado') = Conocidas
    /\ UNCHANGED <<visto, ahora>>

\* The listing is delivered.
Entregar ==
    /\ listado' = <<>>
    /\ UNCHANGED <<visto, ahora>>

Next ==
    \/ Tictac
    \/ \E i \in Ips : Registrar(i)
    \/ \E leido \in 0..ahora : Olvidar(leido)
    \/ Listar \/ Entregar

Spec == Init /\ [][Next]_vars
=============================================================================
