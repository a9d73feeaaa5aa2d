-------------------------- MODULE RepartoRecursos --------------------------
(***************************************************************************)
(* How the planner makes jobs out of the nodes it is told of               *)
(* (manejador_recursos.erl): half of each node is cut at random into       *)
(* pieces, and each job takes one piece of every node that has any left.   *)
(* Chance is a set: each operator gives everything the code may return.    *)
(*                                                                         *)
(* An address is a number, in the order of the strings.                    *)
(***************************************************************************)
EXTENDS Integers, Sequences, FiniteSets, SequencesExt, Conteo

CONSTANTS
    Nodos,      \* addresses of the nodes
    Capacidad,  \* the resources each node announces
    GB          \* the unit in which memory is cut (1024 in the code)

Tipos == {"cpu", "mem", "gpu"}

ASSUME CapacidadAssumption ==
    /\ Nodos \subseteq Nat /\ IsFiniteSet(Nodos)
    /\ Capacidad \in [Nodos -> [Tipos -> Nat]]
    /\ GB \in Nat \ {0}

\* An amount of each type.
Montos == [Tipos -> Nat]

\* limitar_recursos, of a node
Mitad(n) == [t \in Tipos |-> Capacidad[n][t] \div 2]

\* How much of r units of a type a piece may take.
Tamanos(t, r) ==
    IF r = 0 THEN {0}
    ELSE IF t = "mem" THEN IF r < GB THEN {r} ELSE {GB * k : k \in 1..(r \div GB)}
    ELSE 1..r

Trozos(r) ==
    {c \in [Tipos -> UNION {Tamanos(t, r[t]) : t \in Tipos}] :
        \A t \in Tipos : c[t] \in Tamanos(t, r[t])}

\* What is left of r without the piece c.
Restantes(r, c) == [t \in Tipos |-> r[t] - c[t]]

\* asignar_recursos_random: the ways to cut r up into a sequence of pieces.
Cortes ==
    LET cortar[r \in Montos] ==
            IF \A t \in Tipos : r[t] = 0 THEN {<<>>}
            ELSE UNION {{<<c>> \o resto : resto \in cortar[Restantes(r, c)]} : c \in Trozos(r)}
    IN  cortar

-----------------------------------------------------------------------------
\* Mutant: an amount of 1 is taken for none.
FallaJuntar(T) ==
    {[nodo |-> d[1], tipo |-> d[2], cant |-> T[d[1]][d[2]]] :
        d \in {e \in (DOMAIN T) \X Tipos : T[e[1]][e[2]] > 1}}

\* The requests of a job that gets a piece T[n] of each node n of T.  Their
\* order in its line is left out: the agent sends them all at once.
Juntar(T) ==
    {[nodo |-> d[1], tipo |-> d[2], cant |-> T[d[1]][d[2]]] :
        d \in {e \in (DOMAIN T) \X Tipos : T[e[1]][e[2]] > 0}}

\* The nodes with pieces left, and the ways to choose a piece of each.
Quedan(V) == {n \in Nodos : V[n] # <<>>}
Elecciones(V) ==
    {f \in [Quedan(V) -> UNION {DOMAIN V[n] : n \in Quedan(V)}] :
        \A n \in Quedan(V) : f[n] \in DOMAIN V[n]}

\* The pieces chosen, and the others.
Elegidos(V, f) == [n \in Quedan(V) |-> V[n][f[n]]]
Otros(V, f) == [n \in Nodos |-> IF n \in Quedan(V) THEN RemoveAt(V[n], f[n]) ELSE V[n]]

\* repartir_recursos_para_trabajos: the jobs that may come of the pieces V[n].
Repartir ==
    LET repartir[V \in [Nodos -> Seq(Montos)]] ==
            IF Quedan(V) = {} THEN {<<>>}
            ELSE UNION {{<<Juntar(Elegidos(V, f))>> \o resto : resto \in repartir[Otros(V, f)]} :
                            f \in Elecciones(V)}
    IN  repartir

\* obtener_recursos_para_jobs, of each listing
TrabajosDe ==
    [listado \in SUBSET Nodos |->
        UNION {Repartir[V] :
            V \in {W \in [Nodos -> UNION {Cortes[Mitad(n)] : n \in Nodos} \cup {<<>>}] :
                     \A n \in Nodos : W[n] \in IF n \in listado THEN Cortes[Mitad(n)]
                                              ELSE {<<>>}}}]

-----------------------------------------------------------------------------
\* Units of a type of node n that a job asks for, and those of several jobs.
Cantidad(pedidos, n, t) ==
    LET suyos == {p \in pedidos : p.nodo = n /\ p.tipo = t}
    IN  Suma(suyos, [p \in suyos |-> p.cant])
Pide(trabajos, n, t) ==
    Suma(DOMAIN trabajos, [k \in DOMAIN trabajos |-> Cantidad(trabajos[k], n, t)])
=============================================================================
