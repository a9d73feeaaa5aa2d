----------------------------- MODULE TablaNodos -----------------------------
(***************************************************************************)
(* tablanodos.c: the nodes heard of by UDP, in cells that are linked twice *)
(* over, in the order of their first announcement and in the chains of a   *)
(* hash table that doubles when it fills.  The threads of gestionar_epoll  *)
(* reach it under its mutex: one thread at most takes in announcements     *)
(* (the UDP socket is re-armed when it is done), one at most serves the    *)
(* planner's GET_NODES, and any number look an address up.                 *)
(***************************************************************************)
EXTENDS Integers, Sequences, FiniteSets, Functions, SequencesExt

CONSTANTS
    Hilos,      \* worker threads
    Ips,        \* addresses of the network
    Hash,       \* hash_ip of each address
    CapInicial, \* chains at start (MAX_NODOS)
    Vida,       \* seconds of silence a node is allowed (15)
    MaxTiempo,  \* the clock stops here (a bound of the model)
    Celdas,     \* memory for NodoActivo structures
    NULO        \* a null pointer, free memory, no thread

ASSUME HashAssumption == Hash \in [Ips -> Nat]
ASSUME CapAssumption == CapInicial \in Nat \ {0} /\ Vida \in Nat /\ MaxTiempo \in Nat
ASSUME CeldasAssumption ==
    /\ IsFiniteSet(Celdas) /\ IsFiniteSet(Ips)
    /\ Cardinality(Celdas) >= 2 * Cardinality(Ips)
    /\ NULO \notin Celdas \cup Hilos \cup Ips

\* What a pointer may be, and a NodoActivo.
Punteros == Celdas \cup {NULO}
Nodo == [ip : Ips, anuncio : 0..MaxTiempo, sigHash : Punteros, antHash : Punteros,
         sigLista : Punteros, antLista : Punteros]

ASSUME NodoAssumption == NULO \notin Nodo /\ NULO \notin Nat

VARIABLES
    tabla,      \* the structure TablaNodos and the cells it points at
    mutex,      \* its holder, or NULO
    ahora,      \* time(NULL)
    pc,         \* where each thread is
    ip,         \* the address a thread registers or looks up (NULO: none)
    actual,     \* the cell a thread's search has reached
    leido,      \* tiempoActual: the time a thread read before locking
    expirados,  \* nodosExpirados: unlinked cells a thread must purge and free
    listado     \* the addresses of the NODES answer being sent

vars == <<tabla, mutex, ahora, pc, ip, actual, leido, expirados, listado>>

Casillas(cap) == 0..(cap - 1)
-----------------------------------------------------------------------------
(* Pointers *)

\* Every write through a pointer: the field of cell c becomes v.
Pon(T, c, campo, v) == [T EXCEPT !.celda[c][campo] = v]

\* The pointer after k steps by one of the two "next" fields.
Pasos(T, inicio, campo) ==
    LET paso[k \in 0..Cardinality(Celdas)] ==
            IF k = 0 THEN inicio
            ELSE IF paso[k - 1] = NULO THEN NULO ELSE T.celda[paso[k - 1]][campo]
    IN  paso

\* The cells met on the way.
Seguir(T, inicio, campo) ==
    LET paso == Pasos(T, inicio, campo)
        largo == Cardinality({k \in DOMAIN paso : paso[k] # NULO})
    IN  [k \in 1..largo |-> paso[k - 1]]

Lista(T) == Seguir(T, T.primero, "sigLista")
Cadena(T, k) == Seguir(T, T.casilla[k], "sigHash")

\* The chain an address belongs to.
Idx(T, i) == Hash[i] % T.cap

\* A cell becomes the first of its address's chain.
EnCadena(T, c) ==
    LET k == Idx(T, T.celda[c].ip)
        p == T.casilla[k]
        T1 == Pon(Pon(T, c, "antHash", NULO), c, "sigHash", p)
        T2 == IF p = NULO THEN T1 ELSE Pon(T1, p, "antHash", c)
    IN  [T2 EXCEPT !.casilla[k] = c]

\* A cell becomes the last of the list.
AlFinal(T, c) ==
    LET T1 == IF T.num = 0
              THEN [T EXCEPT !.primero = c, !.celda[c].antLista = NULO]
              ELSE Pon(Pon(T, c, "antLista", T.ultimo), T.ultimo, "sigLista", c)
    IN  [Pon(T1, c, "sigLista", NULO) EXCEPT !.ultimo = c, !.num = @ + 1]

-----------------------------------------------------------------------------
(* Faulty variants of the operations below, for the mutation checks. *)

\* The table grows and the chains stay where they were.
FallaRedimensionar(T) ==
    [T EXCEPT !.cap = 2 * @,
              !.casilla = [k \in Casillas(2 * T.cap) |->
                             IF k < T.cap THEN T.casilla[k] ELSE NULO]]

\* The new capacity is not stored.
FallaCapacidad(T) == [FallaRedimensionar(T) EXCEPT !.cap = T.cap]

\* The head of the list stays when its cell is taken out.
FallaDeLista(T, c) ==
    LET n == T.celda[c]
        T1 == IF n.antLista = NULO THEN T ELSE Pon(T, n.antLista, "sigLista", n.sigLista)
    IN  IF n.sigLista = NULO THEN [T1 EXCEPT !.ultimo = n.antLista]
        ELSE Pon(T1, n.sigLista, "antLista", n.antLista)

\* The successor in the chain keeps its pointer to the cell taken out.
FallaDeCadena(T, c) ==
    LET n == T.celda[c] IN
    IF n.antHash = NULO THEN [T EXCEPT !.casilla[Idx(T, n.ip)] = n.sigHash]
    ELSE Pon(T, n.antHash, "sigHash", n.sigHash)

\* A node is dropped one second early.
FallaCallado(n, t) == leido[t] - n.anuncio >= Vida

-----------------------------------------------------------------------------
(* The operations under the mutex *)

\* tablanodos_redimensionar: twice the chains, every cell put in its own again.
Ampliada(T) ==
    [T EXCEPT !.cap = 2 * @, !.casilla = [k \in Casillas(2 * T.cap) |-> NULO]]

Redimensionar(T) ==
    LET L == Lista(T)
        con[k \in 0..Len(L)] ==
            IF k = 0 THEN Ampliada(T) ELSE EnCadena(con[k - 1], L[k])
    IN  con[Len(L)]

\* (numNodos + 1) / capacidad >= FACTORDECARGA: checked for repeated
\* announcements too, before the table looks for the address.
Llena(T) == 4 * (T.num + 1) >= 3 * T.cap

\* malloc: a cell nobody uses.
Libre(T) == CHOOSE c \in Celdas : T.celda[c] = NULO

\* tablanodos_insertar.
Insertar(T, i) ==
    LET T1 == IF Llena(T) THEN Redimensionar(T) ELSE T
        iguales == {c \in ToSet(Cadena(T1, Idx(T1, i))) : T1.celda[c].ip = i}
        c == Libre(T1)
        nuevo == [ip |-> i, anuncio |-> ahora, sigHash |-> NULO, antHash |-> NULO,
                  sigLista |-> NULO, antLista |-> NULO]
    IN  IF iguales # {}
        THEN [T1 EXCEPT !.celda[CHOOSE x \in iguales : TRUE].anuncio = ahora]
        ELSE AlFinal(EnCadena([T1 EXCEPT !.celda[c] = nuevo], c), c)

\* desconectar_nodo: out of the list and of its chain.
DeLista(T, c) ==
    LET n == T.celda[c]
        T1 == IF n.antLista = NULO THEN [T EXCEPT !.primero = n.sigLista]
              ELSE Pon(T, n.antLista, "sigLista", n.sigLista)
    IN  IF n.sigLista = NULO THEN [T1 EXCEPT !.ultimo = n.antLista]
        ELSE Pon(T1, n.sigLista, "antLista", n.antLista)

DeCadena(T, c) ==
    LET n == T.celda[c]
        T1 == IF n.antHash = NULO THEN [T EXCEPT !.casilla[Idx(T, n.ip)] = n.sigHash]
              ELSE Pon(T, n.antHash, "sigHash", n.sigHash)
    IN  IF n.sigHash = NULO THEN T1 ELSE Pon(T1, n.sigHash, "antHash", n.antHash)

Desconectar(T, c) == [DeCadena(DeLista(T, c), c) EXCEPT !.num = @ - 1]

\* tiempoActual - ultimoAnuncio > 15, by the clock thread t read.
Callado(n, t) == leido[t] - n.anuncio > Vida

\* One cell of the walk: a silent node leaves the table b.tabla and comes first
\* in b.fuera.
Revisar(b, c, t) ==
    IF Callado(b.tabla.celda[c], t)
    THEN [tabla |-> Desconectar(b.tabla, c), fuera |-> <<c>> \o b.fuera]
    ELSE b

\* The walk along the list.
Barrido(t) ==
    LET L == Lista(tabla)
        tras[k \in 0..Len(L)] ==
            IF k = 0 THEN [tabla |-> tabla, fuera |-> <<>>]
            ELSE Revisar(tras[k - 1], L[k], t)
    IN  tras[Len(L)]

-----------------------------------------------------------------------------
Init ==
    /\ tabla = [cap |-> CapInicial, num |-> 0, primero |-> NULO, ultimo |-> NULO,
                casilla |-> [k \in Casillas(CapInicial) |-> NULO],
                celda |-> [c \in Celdas |-> NULO]]
    /\ mutex = NULO
    /\ ahora = 0
    /\ pc = [t \in Hilos |-> "espera"]
    /\ ip = [t \in Hilos |-> NULO]
    /\ actual = [t \in Hilos |-> NULO]
    /\ leido = [t \in Hilos |-> 0]
    /\ expirados = [t \in Hilos |-> <<>>]
    /\ listado = <<>>

\* The clock ticks.
Tictac ==
    /\ ahora < MaxTiempo
    /\ ahora' = ahora + 1
    /\ UNCHANGED <<tabla, mutex, pc, ip, actual, leido, expirados, listado>>

\* registrar_nodo receives an ANNOUNCE and waits for the mutex.
Recibir(t, i) ==
    /\ pc[t] = "espera"
    /\ \A h \in Hilos : pc[h] # "insertar"
    /\ pc' = [pc EXCEPT ![t] = "insertar"]
    /\ ip' = [ip EXCEPT ![t] = i]
    /\ UNCHANGED <<tabla, mutex, ahora, actual, leido, expirados, listado>>

Registrar(t) ==
    /\ pc[t] = "insertar"
    /\ mutex = NULO
    /\ tabla' = Insertar(tabla, ip[t])
    /\ pc' = [pc EXCEPT ![t] = "espera"]
    /\ ip' = [ip EXCEPT ![t] = NULO]
    /\ UNCHANGED <<mutex, ahora, actual, leido, expirados, listado>>

\* GET_NODES: tablanodos_borrar_expirados reads the clock, then locks.
PedirNodos(t) ==
    /\ pc[t] = "espera"
    /\ \A h \in Hilos : pc[h] \notin {"expirar", "purgar", "listar", "enviar"}
    /\ leido' = [leido EXCEPT ![t] = ahora]
    /\ pc' = [pc EXCEPT ![t] = "expirar"]
    /\ UNCHANGED <<tabla, mutex, ahora, ip, actual, expirados, listado>>

\* The silent nodes leave the table; the last one met heads nodosExpirados.
BorrarExpirados(t) ==
    /\ pc[t] = "expirar"
    /\ mutex = NULO
    /\ LET b == Barrido(t) IN
         /\ tabla' = b.tabla
         /\ expirados' = [expirados EXCEPT ![t] = b.fuera]
    /\ leido' = [leido EXCEPT ![t] = 0]
    /\ pc' = [pc EXCEPT ![t] = "purgar"]
    /\ UNCHANGED <<mutex, ahora, ip, actual, listado>>

\* Each one is purged (see RecursosAgente) and freed, without the mutex.
Purgar(t) ==
    /\ pc[t] = "purgar"
    /\ IF expirados[t] = <<>>
       THEN /\ pc' = [pc EXCEPT ![t] = "listar"]
            /\ UNCHANGED <<tabla, expirados>>
       ELSE /\ tabla' = [tabla EXCEPT !.celda[Head(expirados[t])] = NULO]
            /\ expirados' = [expirados EXCEPT ![t] = Tail(@)]
            /\ UNCHANGED pc
    /\ UNCHANGED <<mutex, ahora, ip, actual, leido, listado>>

\* tablanodos_obtener_nodos.
ObtenerNodos(t) ==
    /\ pc[t] = "listar"
    /\ mutex = NULO
    /\ LET L == Lista(tabla) IN listado' = [k \in DOMAIN L |-> tabla.celda[L[k]].ip]
    /\ pc' = [pc EXCEPT ![t] = "enviar"]
    /\ UNCHANGED <<tabla, mutex, ahora, ip, actual, leido, expirados>>

\* The answer is sent; nobody keeps its text.
EnviarNodos(t) ==
    /\ pc[t] = "enviar"
    /\ listado' = <<>>
    /\ pc' = [pc EXCEPT ![t] = "espera"]
    /\ UNCHANGED <<tabla, mutex, ahora, ip, actual, leido, expirados>>

\* A RESERVE, a GRANTED, a JOB_REQUEST or the end of a connection looks up i.
PedirBusqueda(t, i) ==
    /\ pc[t] = "espera"
    /\ ip' = [ip EXCEPT ![t] = i]
    /\ pc' = [pc EXCEPT ![t] = "buscar"]
    /\ UNCHANGED <<tabla, mutex, ahora, actual, leido, expirados, listado>>

\* tablanodos_buscar locks and starts at the head of the chain ...
EmpezarBusqueda(t) ==
    /\ pc[t] = "buscar"
    /\ mutex = NULO
    /\ mutex' = t
    /\ actual' = [actual EXCEPT ![t] = tabla.casilla[Idx(tabla, ip[t])]]
    /\ pc' = [pc EXCEPT ![t] = "recorrer"]
    /\ UNCHANGED <<tabla, ahora, ip, leido, expirados, listado>>

\* ... and leaves at a cell of that address, or with none.  The loop has no
\* "actual = actual->sigHash": at any other cell an iteration changes nothing.
TerminarBusqueda(t) ==
    /\ pc[t] = "recorrer"
    /\ actual[t] # NULO => tabla.celda[actual[t]].ip = ip[t]
    /\ mutex' = NULO
    /\ pc' = [pc EXCEPT ![t] = "espera"]
    /\ ip' = [ip EXCEPT ![t] = NULO]
    /\ actual' = [actual EXCEPT ![t] = NULO]
    /\ UNCHANGED <<tabla, ahora, leido, expirados, listado>>

Avanzar(t) ==
    \/ Registrar(t) \/ BorrarExpirados(t) \/ Purgar(t) \/ ObtenerNodos(t)
    \/ EnviarNodos(t) \/ EmpezarBusqueda(t) \/ TerminarBusqueda(t)

Next ==
    \/ Tictac
    \/ \E t \in Hilos : \/ Avanzar(t)
                        \/ PedirNodos(t)
                        \/ \E i \in Ips : Recibir(t, i) \/ PedirBusqueda(t, i)

Spec == Init /\ [][Next]_vars

\* A thread that entered an operation goes on with it when the mutex allows.
SpecJusta == Spec /\ \A t \in Hilos : WF_vars(Avanzar(t))

-----------------------------------------------------------------------------
(* Properties *)

Enlazadas == ToSet(Lista(tabla))

\* Every variable has its type.
TypeOK ==
    /\ tabla.cap \in Nat \ {0} /\ tabla.num \in Nat
    /\ {tabla.primero, tabla.ultimo} \subseteq Punteros
    /\ tabla.casilla \in [Casillas(tabla.cap) -> Punteros]
    /\ tabla.celda \in [Celdas -> Nodo \cup {NULO}]
    /\ mutex \in Hilos \cup {NULO}
    /\ ahora \in 0..MaxTiempo /\ leido \in [Hilos -> 0..MaxTiempo]
    /\ ip \in [Hilos -> Ips \cup {NULO}]
    /\ actual \in [Hilos -> Punteros]
    /\ expirados \in [Hilos -> Seq(Celdas)]
    /\ listado \in Seq(Ips)

\* A sequence of cells is linked back as it is linked forward.
BienEnlazada(s, campo) ==
    /\ IsInjective(s)
    /\ \A k \in DOMAIN s :
         tabla.celda[s[k]][campo] = IF k = 1 THEN NULO ELSE s[k - 1]

\* The list and the chains hold the same cells, each address once, each cell
\* in the chain its address hashes to under the CURRENT number of chains, with
\* sound pointers both ways; the load stays under three quarters.
Coherencia ==
    LET L == Lista(tabla) IN
    /\ Len(L) = tabla.num
    /\ tabla.ultimo = IF L = <<>> THEN NULO ELSE Last(L)
    /\ BienEnlazada(L, "antLista")
    /\ \A c, d \in Enlazadas : tabla.celda[c].ip = tabla.celda[d].ip => c = d
    /\ Enlazadas = UNION {ToSet(Cadena(tabla, k)) : k \in Casillas(tabla.cap)}
    /\ \A k \in Casillas(tabla.cap) :
         /\ BienEnlazada(Cadena(tabla, k), "antHash")
         /\ \A c \in ToSet(Cadena(tabla, k)) : Idx(tabla, tabla.celda[c].ip) = k
    /\ 4 * tabla.num < 3 * tabla.cap

\* A cell is freed once, and never while it is linked: what the purge frees
\* and what the table holds do not meet.
SinColgados ==
    /\ Enlazadas \subseteq {c \in Celdas : tabla.celda[c] # NULO}
    /\ \A t \in Hilos :
         /\ IsInjective(expirados[t])
         /\ ToSet(expirados[t]) \cap Enlazadas = {}
         /\ \A c \in ToSet(expirados[t]) : tabla.celda[c] # NULO

\* A search that ends found a cell exactly when its address is in the list.
BusquedaCorrecta ==
    [][\A t \in Hilos : pc[t] = "recorrer" /\ pc'[t] = "espera" =>
         (actual[t] # NULO <=> \E c \in Enlazadas : tabla.celda[c].ip = ip[t])]_vars

\* When the table last heard of an address.
VistoDe(i) ==
    LET suyas == {c \in Enlazadas : tabla.celda[c].ip = i}
    IN  IF suyas = {} THEN NULO ELSE tabla.celda[CHOOSE c \in suyas : TRUE].anuncio

Directorio == INSTANCE DirectorioNodos
                WITH visto <- [i \in Ips |-> VistoDe(i)], Nunca <- NULO

\* The table implements the directory of its header: the pointers, the growth
\* and the stale clock never lose a node, keep one too long or list one twice.
ImplementaDirectorio == Directorio!Spec

\* Every search ends.
BusquedaTermina == \A t \in Hilos : pc[t] = "recorrer" ~> pc[t] = "espera"
=============================================================================
