---------------------------- MODULE FondoRecursos ----------------------------
(***************************************************************************)
(* What recursos.h promises of a machine's resources, whichever threads    *)
(* and messages bring it about: a pool of units of each resource and a     *)
(* queue of those who wait for some, served in the order they came.        *)
(***************************************************************************)
EXTENDS Conteo

CONSTANTS
    Recursos,     \* kinds of resource
    Capacidad,    \* units of each
    Solicitudes,  \* requests
    Pedido        \* resource and units of each request

VARIABLES
    libres,       \* units nobody has
    esperan       \* requests that wait for a resource, oldest first

vars == <<libres, esperan>>

Rec(s) == Pedido[s].rec
Cant(s) == Pedido[s].cant

Init ==
    /\ libres = Capacidad
    /\ esperan = [r \in Recursos |-> <<>>]

\* A request that fits, when nobody waits, gets its units.
Reservar(s) ==
    /\ esperan[Rec(s)] = <<>>
    /\ libres[Rec(s)] >= Cant(s)
    /\ libres' = [libres EXCEPT ![Rec(s)] = @ - Cant(s)]
    /\ UNCHANGED esperan

\* Another one waits, if the machine has as much: it goes last.
Formar(s) ==
    /\ esperan[Rec(s)] # <<>> \/ libres[Rec(s)] < Cant(s)
    /\ Capacidad[Rec(s)] >= Cant(s)
    /\ esperan' = [esperan EXCEPT ![Rec(s)] = Append(@, s)]
    /\ UNCHANGED libres

\* The first in a queue gets its units once they are there.
Atender(r) ==
    LET s == Head(esperan[r])
    IN  /\ esperan[r] # <<>>
        /\ libres[r] >= Cant(s)
        /\ libres' = [libres EXCEPT ![r] = @ - Cant(s)]
        /\ esperan' = [esperan EXCEPT ![r] = Tail(@)]

\* Units come back, never more than were out.
Devolver(r) ==
    /\ \E n \in 1..(Capacidad[r] - libres[r]) : libres' = [libres EXCEPT ![r] = @ + n]
    /\ UNCHANGED esperan

\* Some who wait give up; the others keep their order.
Retirar(r, S) ==
    /\ esperan' = [esperan EXCEPT
                     ![r] = EnPosiciones(@, {i \in DOMAIN @ : @[i] \notin S})]
    /\ UNCHANGED libres

Next ==
    \/ \E s \in Solicitudes : Reservar(s) \/ Formar(s)
    \/ \E r \in Recursos : Atender(r) \/ Devolver(r)
    \/ \E r \in Recursos, S \in SUBSET Solicitudes : Retirar(r, S)

Spec == Init /\ [][Next]_vars
=============================================================================
