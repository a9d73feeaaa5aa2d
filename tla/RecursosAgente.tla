--------------------------- MODULE RecursosAgente ---------------------------
(***************************************************************************)
(* The resource side of ONE agent: the three local resources of recursos.c *)
(* with their mutexes and waiting queues (cola.c), the JOB_REMOTO entries  *)
(* of the job table (tablajobs.c), and the worker threads that run         *)
(* gestionar_epoll (server.c) and manejar_agente_c (manejadores.c) on the  *)
(* connections other agents open to reserve resources here.                *)
(*                                                                         *)
(* One connection carries exactly one RESERVE: the requester opens an      *)
(* ephemeral socket per dependency of a job.  EPOLLONESHOT hands a         *)
(* connection to one thread at a time, but different connections are       *)
(* handled concurrently.  A step of the model is one critical section (or  *)
(* one run of code between two of them); the table's mutex is only ever    *)
(* held inside such a section, a resource's mutex may be held across steps.*)
(***************************************************************************)
EXTENDS Integers, Sequences, FiniteSets, SequencesExt, Conteo

CONSTANTS
    Hilos,        \* worker threads running gestionar_epoll
    Conexiones,   \* connections from requesting agents, one RESERVE each
    Nodos,        \* requesting agents, a node stands for its <<ip, puerto>>
    JobIds,       \* job identifiers, chosen by the requesters' schedulers
    Capacidad,    \* TipoRecurso -> units this machine has
    Pedido,       \* what each connection's RESERVE says, and who sends it
    Expirables,   \* nodes whose announcements may stop for over 15 seconds
    Impacientes,  \* connections whose requester may close before an answer
    RecIndefinido,\* what liberar_job's uninitialised rec[4] may spell
    NULO          \* a null pointer, no thread, no resource

TipoRecurso == {"cpu", "mem", "gpu"}

ASSUME CapacidadAssumption == Capacidad \in [TipoRecurso -> Nat]

ASSUME PedidoAssumption ==
    Pedido \in [Conexiones ->
                  [jobId : JobIds, nodo : Nodos, rec : TipoRecurso, cant : Nat]]

ASSUME ConjuntosAssumption ==
    /\ IsFiniteSet(Hilos)
    /\ IsFiniteSet(Conexiones)
    /\ IsFiniteSet(JobIds)
    /\ Expirables \subseteq Nodos
    /\ Impacientes \subseteq Conexiones
    /\ RecIndefinido \subseteq TipoRecurso \cup {NULO}
    /\ RecIndefinido # {}

ASSUME NuloAssumption == NULO \notin TipoRecurso \cup Hilos \cup Conexiones \cup Nodos

-----------------------------------------------------------------------------
VARIABLES
    cantDisp,       \* free units of each resource
    mutex,          \* holder of each resource's mutex, or NULO
    cola,           \* solicitudPend: waiting requests, as their connections
    nodoJob,        \* node recorded in a job's JOB_REMOTO entry, NULO if none
    recReservados,  \* units recorded in a job's JOB_REMOTO entry
    conocidos,      \* nodes present in the node table
    ctx,            \* life of each connection's ClienteConexion
    par,            \* whether the requester still has its end open
    canal,          \* lines received on a connection and not yet read
    respuestas,     \* lines sent on a connection
    pc,             \* where each thread is
    con,            \* the connection a thread is handling, or NULO
    rec,            \* the resource a thread is working on
    monto,          \* cantALiberar: units taken from the table, not yet freed
    promovidos,     \* ListaPromovidos of the RELEASE being handled
    aPurgar,        \* nodes whose jobs and requests the thread is purging
    lista,          \* jobsABorrar: unlinked entries still to be returned
    borrados        \* their units not yet returned

vars == <<cantDisp, mutex, cola, nodoJob, recReservados, conocidos, ctx, par,
          canal, respuestas, pc, con, rec, monto, promovidos, aPurgar, lista,
          borrados>>

\* Groups of variables that many actions leave alone together.
tabla == <<nodoJob, recReservados>>
redes == <<ctx, par, canal, respuestas>>
purga == <<aPurgar, lista, borrados>>

MsgReserve == [tipo |-> "RESERVE", rec |-> NULO]
MsgRelease(r) == [tipo |-> "RELEASE", rec |-> r]
Mensajes == {MsgReserve} \cup {MsgRelease(r) : r \in TipoRecurso \cup {NULO}}

Respuesta(tipo, j) == [tipo |-> tipo, jobId |-> j]

Etapas == {"espera", "reservar", "conceder", "denegar", "devolver", "promover",
           "notificar", "desvincular", "limpiar", "reponer", "cerrar"}

SinUnidades == [r \in TipoRecurso |-> 0]

Init ==
    /\ cantDisp = Capacidad
    /\ mutex = [r \in TipoRecurso |-> NULO]
    /\ cola = [r \in TipoRecurso |-> <<>>]
    /\ nodoJob = [j \in JobIds |-> NULO]
    /\ recReservados = [j \in JobIds |-> SinUnidades]
    /\ conocidos \in SUBSET Nodos
    /\ ctx = [c \in Conexiones |-> "sin_crear"]
    /\ par = [c \in Conexiones |-> "abierta"]
    /\ canal = [c \in Conexiones |-> <<>>]
    /\ respuestas = [c \in Conexiones |-> <<>>]
    /\ pc = [t \in Hilos |-> "espera"]
    /\ con = [t \in Hilos |-> NULO]
    /\ rec = [t \in Hilos |-> "cpu"]
    /\ monto = [t \in Hilos |-> 0]
    /\ promovidos = [t \in Hilos |-> <<>>]
    /\ aPurgar = [t \in Hilos |-> {}]
    /\ lista = [t \in Hilos |-> {}]
    /\ borrados = [t \in Hilos |-> [j \in JobIds |-> SinUnidades]]
-----------------------------------------------------------------------------
(* Faulty variants of the helpers below, each a bug this code could have had. *)
(* No action uses them: the mutation checks put one in a helper's place.      *)

\* Any free unit is taken to be enough.
FallaCabe(c) == cantDisp[Pedido[c].rec] > 0

\* A newcomer does not look at who is waiting.
FallaNadieEspera(r) == TRUE

\* The queue is not looked at when units come back.
FallaColaAgotada(r) == TRUE

\* The promoted request stays at the head of the queue.
FallaDesencolar(r) == cola[r] # <<>> /\ UNCHANGED cola

\* The removal stops at the first request of another node.
FallaSinNodo(s, n) == IF s # <<>> /\ Pedido[Head(s)].nodo = n THEN Tail(s) ELSE s

\* The unlock is missing.
FallaDesbloquear(r) == mutex[r] # NULO /\ UNCHANGED mutex

\* The units are read from the entry and not reset.
FallaQuitarRec(j, r) == [recReservados[j] EXCEPT ![r] = @]

\* The purge does not compare the node.
FallaDelNodo(n) == {j \in JobIds : nodoJob[j] \in {n} \cup Nodos}

\* The connection is not armed again.
FallaRearmar(t) == con[t] # NULO /\ UNCHANGED con

-----------------------------------------------------------------------------
(* Helpers *)

\* cantDisp >= cant: the request of connection c fits in what is free.
Cabe(c) == cantDisp[Pedido[c].rec] >= Pedido[c].cant

\* cola_es_vacia: nobody waits for r.
NadieEspera(r) == cola[r] = <<>>

\* The promotion loop of liberar_recurso ends: no head, or it does not fit.
ColaAgotada(r) == cola[r] # <<>> => ~Cabe(Head(cola[r]))

\* cola_desencolar.
Desencolar(r) == cola' = [cola EXCEPT ![r] = Tail(@)]

\* limpiar_cola_por_nodo: the queue s without the requests of node n.
SinNodo(s, n) == EnPosiciones(s, {i \in DOMAIN s : Pedido[s[i]].nodo # n})

\* pthread_mutex_unlock of the resource's mutex.
Desbloquear(r) == mutex' = [mutex EXCEPT ![r] = NULO]

\* What an entry of job j keeps once its units of r are taken from it.
QuitarRec(j, r) == [recReservados[j] EXCEPT ![r] = 0]

\* The jobs whose entry in the table belongs to node n.
DelNodo(n) == {j \in JobIds : nodoJob[j] = n}

\* tablajobs_insertar of a JOB_REMOTO entry for the request of c: an entry
\* with the same jobId absorbs it, whatever node that entry belongs to.
Insertar(c) ==
    LET j == Pedido[c].jobId IN
    /\ nodoJob' = [nodoJob EXCEPT ![j] = IF @ = NULO THEN Pedido[c].nodo ELSE @]
    /\ recReservados' = [recReservados EXCEPT ![j][Pedido[c].rec] = @ + Pedido[c].cant]

\* cantDisp -= cant.
Descontar(c) ==
    cantDisp' = [cantDisp EXCEPT ![Pedido[c].rec] = @ - Pedido[c].cant]

\* send() of one line on the connection c.
Enviar(c, tipo, j) ==
    respuestas' = [respuestas EXCEPT ![c] = Append(@, Respuesta(tipo, j))]

\* EPOLL_CTL_MOD re-arms the connection the thread t is done with.
Rearmar(t) == con' = [con EXCEPT ![t] = NULO]

\* EPOLLONESHOT: the idle thread t may be handed the connection c.
Entregable(t, c) ==
    /\ pc[t] = "espera"
    /\ ctx[c] = "viva"
    /\ \A h \in Hilos : con[h] # c

\* The node whose purge thread t is in; the order of the nodes is left open.
EnPurga(t) == CHOOSE n \in aPurgar[t] : TRUE

\* The entry of jobsABorrar that thread t is returning.
EnReposicion(t) == CHOOSE j \in lista[t] : TRUE

\* Resources are visited in the order cpu, mem, gpu.
Siguiente(r) == IF r = "cpu" THEN "mem" ELSE "gpu"

-----------------------------------------------------------------------------
(* The requesters and the network *)

\* accept4 of a new connection by an idle thread.  The RESERVE line follows,
\* unless the requester closes before its socket became writable.
Aceptar(t, c) ==
    /\ pc[t] = "espera"
    /\ ctx[c] = "sin_crear"
    /\ ctx' = [ctx EXCEPT ![c] = "viva"]
    /\ \E s \in {<<>>, <<MsgReserve>>} : canal' = [canal EXCEPT ![c] = s]
    /\ UNCHANGED <<cantDisp, mutex, cola, tabla, conocidos, par, respuestas, pc,
                   con, rec, monto, promovidos, purga>>

\* The requester of c can still write, and has a reason to close.
PuedeCerrar(c) ==
    /\ ctx[c] = "viva"
    /\ par[c] = "abierta"
    /\ respuestas[c] # <<>> \/ c \in Impacientes

\* liberar_job at the requester: RELEASE and close.  The resource it names is
\* the one reserved only if the GRANTED was processed there; otherwise rec[4]
\* is read uninitialised.
ParLibera(c) ==
    /\ PuedeCerrar(c)
    /\ \E r \in RecIndefinido \cup
                {Pedido[c].rec : i \in {k \in DOMAIN respuestas[c] :
                                          respuestas[c][k].tipo = "GRANTED"}} :
          canal' = [canal EXCEPT ![c] = Append(@, MsgRelease(r))]
    /\ par' = [par EXCEPT ![c] = "cerrada"]
    /\ UNCHANGED <<cantDisp, mutex, cola, tabla, conocidos, ctx, respuestas, pc,
                   con, rec, monto, promovidos, purga>>

\* The requester dies, or its RELEASE is lost with the connection; a reset
\* also loses the lines that were not read yet.
ParCae(c) ==
    /\ PuedeCerrar(c)
    /\ par' = [par EXCEPT ![c] = "cerrada"]
    /\ \E s \in {canal[c], <<>>} : canal' = [canal EXCEPT ![c] = s]
    /\ UNCHANGED <<cantDisp, mutex, cola, tabla, conocidos, ctx, respuestas, pc,
                   con, rec, monto, promovidos, purga>>

\* registrar_nodo: a node is heard for the first time (or again) by UDP.
Anunciar(t, n) ==
    /\ pc[t] = "espera"
    /\ conocidos' = conocidos \cup {n}
    /\ UNCHANGED <<cantDisp, mutex, cola, tabla, redes, pc, con, rec, monto,
                   promovidos, purga>>

-----------------------------------------------------------------------------
(* RESERVE *)

\* manejar_agente_c reads a RESERVE; a requester that is not in the node table
\* is ignored without an answer.
LeerReserve(t, c) ==
    /\ Entregable(t, c)
    /\ canal[c] # <<>> /\ Head(canal[c]) = MsgReserve
    /\ canal' = [canal EXCEPT ![c] = Tail(@)]
    /\ IF Pedido[c].nodo \in conocidos
       THEN /\ pc' = [pc EXCEPT ![t] = "reservar"]
            /\ con' = [con EXCEPT ![t] = c]
       ELSE UNCHANGED <<pc, con>>
    /\ UNCHANGED <<cantDisp, mutex, cola, tabla, conocidos, ctx, par, respuestas,
                   rec, monto, promovidos, purga>>

\* The guard the three outcomes of reservar_recurso share: its mutex is free.
EntraAReservar(t) ==
    /\ pc[t] = "reservar"
    /\ mutex[Pedido[con[t]].rec] = NULO

\* Nobody waits and the request fits: granted.
Conceder(t) ==
    /\ EntraAReservar(t)
    /\ NadieEspera(Pedido[con[t]].rec)
    /\ Cabe(con[t])
    /\ Descontar(con[t])
    /\ Insertar(con[t])
    /\ pc' = [pc EXCEPT ![t] = "conceder"]
    /\ UNCHANGED <<mutex, cola, conocidos, redes, con, rec, monto, promovidos,
                   purga>>

\* It may fit some day: it joins the queue, and the thread is free again.
Encolar(t) ==
    LET c == con[t]
        r == Pedido[c].rec
    IN
    /\ EntraAReservar(t)
    /\ ~(NadieEspera(r) /\ Cabe(c))
    /\ Capacidad[r] >= Pedido[c].cant
    /\ cola' = [cola EXCEPT ![r] = Append(@, c)]
    /\ pc' = [pc EXCEPT ![t] = "espera"]
    /\ Rearmar(t)
    /\ UNCHANGED <<cantDisp, mutex, tabla, conocidos, redes, rec, monto,
                   promovidos, purga>>

\* It exceeds the machine: return -1, on the path that never unlocks.
Denegar(t) ==
    LET c == con[t]
        r == Pedido[c].rec
    IN
    /\ EntraAReservar(t)
    /\ ~(NadieEspera(r) /\ Cabe(c))
    /\ Capacidad[r] < Pedido[c].cant
    /\ mutex' = [mutex EXCEPT ![r] = t]
    /\ pc' = [pc EXCEPT ![t] = "denegar"]
    /\ UNCHANGED <<cantDisp, cola, tabla, conocidos, redes, con, rec, monto,
                   promovidos, purga>>

\* The answer goes out after the critical section.
Responder(t) ==
    /\ \/ pc[t] = "conceder" /\ Enviar(con[t], "GRANTED", Pedido[con[t]].jobId)
       \/ pc[t] = "denegar"  /\ Enviar(con[t], "DENIED", Pedido[con[t]].jobId)
    /\ pc' = [pc EXCEPT ![t] = "espera"]
    /\ Rearmar(t)
    /\ UNCHANGED <<cantDisp, mutex, cola, tabla, conocidos, ctx, par, canal, rec,
                   monto, promovidos, purga>>

-----------------------------------------------------------------------------
(* RELEASE *)

\* manejar_agente_c reads a RELEASE and tablajobs_restar_recurso takes every
\* unit of that resource the job has, deleting an entry left with none (one
\* that never had any, too: a RESERVE of 0 units is granted).
LeerRelease(t, c) ==
    LET r == Head(canal[c]).rec
        j == Pedido[c].jobId
        queda == QuitarRec(j, r)
    IN
    /\ Entregable(t, c)
    /\ canal[c] # <<>> /\ Head(canal[c]) # MsgReserve
    /\ canal' = [canal EXCEPT ![c] = Tail(@)]
    /\ IF r \in TipoRecurso
       THEN /\ recReservados' = [recReservados EXCEPT ![j] = queda]
            /\ nodoJob' = [nodoJob EXCEPT ![j] = IF queda = SinUnidades THEN NULO ELSE @]
            /\ IF recReservados[j][r] > 0
               THEN /\ monto' = [monto EXCEPT ![t] = recReservados[j][r]]
                    /\ rec' = [rec EXCEPT ![t] = r]
                    /\ pc' = [pc EXCEPT ![t] = "devolver"]
                    /\ con' = [con EXCEPT ![t] = c]
               ELSE UNCHANGED <<monto, rec, pc, con>>
       ELSE /\ nodoJob' = [nodoJob EXCEPT
                             ![j] = IF recReservados[j] = SinUnidades THEN NULO ELSE @]
            /\ UNCHANGED <<recReservados, monto, rec, pc, con>>
    /\ UNCHANGED <<cantDisp, mutex, cola, conocidos, ctx, par, respuestas,
                   promovidos, purga>>

\* liberar_recurso locks and returns the units ...
Devolver(t) ==
    /\ pc[t] = "devolver"
    /\ mutex[rec[t]] = NULO
    /\ mutex' = [mutex EXCEPT ![rec[t]] = t]
    /\ cantDisp' = [cantDisp EXCEPT ![rec[t]] = @ + monto[t]]
    /\ monto' = [monto EXCEPT ![t] = 0]
    /\ pc' = [pc EXCEPT ![t] = "promover"]
    /\ UNCHANGED <<cola, tabla, conocidos, redes, con, rec, promovidos, purga>>

\* ... serves the head of the queue while it fits, holding the mutex ...
Promover(t) ==
    LET c == Head(cola[rec[t]]) IN
    /\ pc[t] = "promover"
    /\ ~ColaAgotada(rec[t])
    /\ Desencolar(rec[t])
    /\ Descontar(c)
    /\ Insertar(c)
    /\ promovidos' = [promovidos EXCEPT ![t] = <<c>> \o @]
    /\ UNCHANGED <<mutex, conocidos, redes, pc, con, rec, monto, purga>>

\* ... and unlocks at the first request that does not fit.
FinPromover(t) ==
    /\ pc[t] = "promover"
    /\ ColaAgotada(rec[t])
    /\ Desbloquear(rec[t])
    /\ pc' = [pc EXCEPT ![t] = "notificar"]
    /\ UNCHANGED <<cantDisp, cola, tabla, conocidos, redes, con, rec, monto,
                   promovidos, purga>>

\* notificar_lista_promovidos reads the fd of the promoted connection's
\* context.  If that context was freed meanwhile the fd read is stale: the
\* line is lost or lands on whatever connection reuses the descriptor.
Notificar(t) ==
    LET c == Head(promovidos[t])
        j == Pedido[c].jobId
    IN
    /\ pc[t] = "notificar"
    /\ promovidos[t] # <<>>
    /\ promovidos' = [promovidos EXCEPT ![t] = Tail(@)]
    /\ \/ ctx[c] = "viva" /\ Enviar(c, "GRANTED", j)
       \/ ctx[c] # "viva" /\ UNCHANGED respuestas
       \/ /\ ctx[c] # "viva"
          /\ \E d \in Conexiones : ctx[d] = "viva" /\ Enviar(d, "GRANTED", j)
    /\ UNCHANGED <<cantDisp, mutex, cola, tabla, conocidos, ctx, par, canal, pc,
                   con, rec, monto, purga>>

FinNotificar(t) ==
    /\ pc[t] = "notificar"
    /\ promovidos[t] = <<>>
    /\ pc' = [pc EXCEPT ![t] = "espera"]
    /\ Rearmar(t)
    /\ UNCHANGED <<cantDisp, mutex, cola, tabla, conocidos, redes, rec, monto,
                   promovidos, purga>>
-----------------------------------------------------------------------------
(* End of a connection, expiry of a node: the purge of a node's state *)

\* read() returns 0 once every line was consumed: gestionar_epoll purges the
\* NODE of the connection if the table knows it, and else just closes.
LeerFin(t, c) ==
    /\ Entregable(t, c)
    /\ canal[c] = <<>>
    /\ par[c] = "cerrada"
    /\ con' = [con EXCEPT ![t] = c]
    /\ IF Pedido[c].nodo \in conocidos
       THEN /\ pc' = [pc EXCEPT ![t] = "desvincular"]
            /\ aPurgar' = [aPurgar EXCEPT ![t] = {Pedido[c].nodo}]
       ELSE /\ pc' = [pc EXCEPT ![t] = "cerrar"]
            /\ UNCHANGED aPurgar
    /\ UNCHANGED <<cantDisp, mutex, cola, tabla, conocidos, redes, rec, monto,
                   promovidos, lista, borrados>>

\* GET_NODES of the local planner: tablanodos_borrar_expirados unlinks the
\* expired nodes and purges them one after another.  The planner has a single
\* connection, so one thread at most is here.
Expirar(t, E) ==
    /\ pc[t] = "espera"
    /\ \A h \in Hilos : aPurgar[h] = {} \/ con[h] # NULO
    /\ E # {} /\ E \subseteq conocidos \cap Expirables
    /\ conocidos' = conocidos \ E
    /\ aPurgar' = [aPurgar EXCEPT ![t] = E]
    /\ pc' = [pc EXCEPT ![t] = "desvincular"]
    /\ UNCHANGED <<cantDisp, mutex, cola, tabla, redes, con, rec, monto,
                   promovidos, lista, borrados>>

\* tablajobs_borrar_por_nodo, under the table's mutex: every entry of the node
\* leaves the table, its units still to be returned.
Desvincular(t) ==
    LET suyos == DelNodo(EnPurga(t)) IN
    /\ pc[t] = "desvincular"
    /\ nodoJob' = [j \in JobIds |-> IF j \in suyos THEN NULO ELSE nodoJob[j]]
    /\ recReservados' = [j \in JobIds |->
                           IF j \in suyos THEN SinUnidades ELSE recReservados[j]]
    /\ lista' = [lista EXCEPT ![t] = suyos]
    /\ borrados' = [borrados EXCEPT ![t] = [j \in JobIds |->
                      IF j \in suyos THEN recReservados[j] ELSE SinUnidades]]
    /\ rec' = [rec EXCEPT ![t] = "cpu"]
    /\ pc' = [pc EXCEPT ![t] = "limpiar"]
    /\ UNCHANGED <<cantDisp, mutex, cola, conocidos, redes, con, monto,
                   promovidos, aPurgar>>

\* limpiar_solicitudes_nodo, one resource per critical section: the node's
\* requests leave the queue; nobody looks at what is now at its head.
Limpiar(t) ==
    /\ pc[t] = "limpiar"
    /\ mutex[rec[t]] = NULO
    /\ cola' = [cola EXCEPT ![rec[t]] = SinNodo(@, EnPurga(t))]
    /\ IF rec[t] = "gpu"
       THEN /\ pc' = [pc EXCEPT ![t] = "reponer"]
            /\ rec' = [rec EXCEPT ![t] = "cpu"]
       ELSE /\ rec' = [rec EXCEPT ![t] = Siguiente(@)]
            /\ UNCHANGED pc
    /\ UNCHANGED <<cantDisp, mutex, tabla, conocidos, redes, con, monto,
                   promovidos, purga>>

\* liberar_recursos_reservados for each unlinked entry, one resource per
\* critical section; the queue is not looked at.
Reponer(t) ==
    LET j == EnReposicion(t)
        r == rec[t]
    IN
    /\ pc[t] = "reponer"
    /\ lista[t] # {}
    /\ mutex[r] = NULO
    /\ cantDisp' = [cantDisp EXCEPT ![r] = @ + borrados[t][j][r]]
    /\ borrados' = [borrados EXCEPT ![t][j][r] = 0]
    /\ IF r = "gpu"
       THEN /\ lista' = [lista EXCEPT ![t] = @ \ {j}]
            /\ rec' = [rec EXCEPT ![t] = "cpu"]
       ELSE /\ rec' = [rec EXCEPT ![t] = Siguiente(@)]
            /\ UNCHANGED lista
    /\ UNCHANGED <<mutex, cola, tabla, conocidos, redes, pc, con, monto,
                   promovidos, aPurgar>>

\* The purge of one node is over: the next one, or back to who asked for it.
FinPurga(t) ==
    LET quedan == aPurgar[t] \ {EnPurga(t)} IN
    /\ pc[t] = "reponer"
    /\ lista[t] = {}
    /\ aPurgar' = [aPurgar EXCEPT ![t] = quedan]
    /\ pc' = [pc EXCEPT ![t] = IF quedan # {} THEN "desvincular"
                               ELSE IF con[t] # NULO THEN "cerrar" ELSE "espera"]
    /\ UNCHANGED <<cantDisp, mutex, cola, tabla, conocidos, redes, con, rec,
                   monto, promovidos, lista, borrados>>

\* close and free of the connection's context.
Cerrar(t) ==
    /\ pc[t] = "cerrar"
    /\ ctx' = [ctx EXCEPT ![con[t]] = "liberada"]
    /\ pc' = [pc EXCEPT ![t] = "espera"]
    /\ con' = [con EXCEPT ![t] = NULO]
    /\ UNCHANGED <<cantDisp, mutex, cola, tabla, conocidos, par, canal,
                   respuestas, rec, monto, promovidos, purga>>

-----------------------------------------------------------------------------
(* What a thread does once it holds an event: it runs on by itself *)
Avanzar(t) ==
    \/ Conceder(t) \/ Encolar(t) \/ Denegar(t) \/ Responder(t)
    \/ Devolver(t) \/ Promover(t) \/ FinPromover(t)
    \/ Notificar(t) \/ FinNotificar(t)
    \/ Desvincular(t) \/ Limpiar(t) \/ Reponer(t) \/ FinPurga(t) \/ Cerrar(t)

(* An idle thread takes an event of connection c *)
Atender(t, c) ==
    Aceptar(t, c) \/ LeerReserve(t, c) \/ LeerRelease(t, c) \/ LeerFin(t, c)

Next ==
    \/ \E t \in Hilos : \/ Avanzar(t)
                        \/ \E c \in Conexiones : Atender(t, c)
                        \/ \E n \in Nodos : Anunciar(t, n)
                        \/ \E E \in SUBSET Expirables : Expirar(t, E)
    \/ \E c \in Conexiones : ParLibera(c) \/ ParCae(c)

Spec == Init /\ [][Next]_vars

\* A thread that is in a handler keeps running, and epoll hands every readable
\* connection to some thread in the end.  The mutexes are not assumed fair,
\* nor do requesters have to close.
Justicia ==
    /\ \A t \in Hilos : WF_vars(Avanzar(t))
    /\ \A c \in Conexiones : WF_vars(\E t \in Hilos : Atender(t, c))

SpecJusta == Spec /\ Justicia

-----------------------------------------------------------------------------
\* Units of r recorded in the table, taken from it by a RELEASE in progress,
\* and taken from it by purges in progress.
EnTabla(r) == Suma(JobIds, [j \in JobIds |-> recReservados[j][r]])
EnDevolucion(r) == Suma(Hilos, [t \in Hilos |-> IF rec[t] = r THEN monto[t] ELSE 0])
DeHilo(t, r) == Suma(JobIds, [j \in JobIds |-> borrados[t][j][r]])
EnPurgas(r) == Suma(Hilos, [t \in Hilos |-> DeHilo(t, r)])

-----------------------------------------------------------------------------
(* Properties *)

\* Every variable has its type.
TypeOK ==
    /\ cantDisp \in [TipoRecurso -> Nat]
    /\ mutex \in [TipoRecurso -> Hilos \cup {NULO}]
    /\ cola \in [TipoRecurso -> Seq(Conexiones)]
    /\ nodoJob \in [JobIds -> Nodos \cup {NULO}]
    /\ recReservados \in [JobIds -> [TipoRecurso -> Nat]]
    /\ conocidos \in SUBSET Nodos
    /\ ctx \in [Conexiones -> {"sin_crear", "viva", "liberada"}]
    /\ par \in [Conexiones -> {"abierta", "cerrada"}]
    /\ canal \in [Conexiones -> Seq(Mensajes)]
    /\ respuestas \in [Conexiones -> Seq([tipo : {"GRANTED", "DENIED"}, jobId : JobIds])]
    /\ pc \in [Hilos -> Etapas]
    /\ con \in [Hilos -> Conexiones \cup {NULO}]
    /\ rec \in [Hilos -> TipoRecurso]
    /\ monto \in [Hilos -> Nat]
    /\ promovidos \in [Hilos -> Seq(Conexiones)]
    /\ aPurgar \in [Hilos -> SUBSET Nodos]
    /\ lista \in [Hilos -> SUBSET JobIds]
    /\ borrados \in [Hilos -> [JobIds -> [TipoRecurso -> Nat]]]

\* No unit of a resource is lost or made up, whatever threads are between
\* tablajobs_restar_recurso and "cantDisp +=" or in the middle of purges:
\* free, recorded and in-transit units add up to the machine's capacity.
Conservacion ==
    \A r \in TipoRecurso :
        cantDisp[r] + EnTabla(r) + EnDevolucion(r) + EnPurgas(r) = Capacidad[r]

\* A thread that decides on, answers or closes a connection has one.
ConEnUso ==
    \A t \in Hilos :
        pc[t] \in {"reservar", "conceder", "denegar", "cerrar"} => con[t] \in Conexiones

\* Where the units in transit are: a RELEASE holds some only until it locks the
\* resource; a purge holds some only in the entries still listed, and those of
\* the entry it is returning go resource by resource.
PurgaOrdenada ==
    \A t \in Hilos :
        /\ pc[t] # "devolver" => monto[t] = 0
        /\ pc[t] \notin {"limpiar", "reponer"} => lista[t] = {}
        /\ \A j \in JobIds \ lista[t] : borrados[t][j] = SinUnidades
        /\ pc[t] = "reponer" /\ lista[t] # {} =>
              /\ rec[t] # "cpu" => borrados[t][EnReposicion(t)]["cpu"] = 0
              /\ rec[t] = "gpu" => borrados[t][EnReposicion(t)]["mem"] = 0

\* A request waits in the queue of the resource it asks for.
DelRecurso(r) == {c \in Conexiones : Pedido[c].rec = r}
ColaPropia == \A r \in TipoRecurso : cola[r] \in Seq(DelRecurso(r))

\* The inductive invariant behind the safety theorems.
IInv == TypeOK /\ ConEnUso /\ ColaPropia /\ PurgaOrdenada /\ Conservacion

\* How often the request of a connection is waiting, promoted or being decided.
Posiciones == 1..Cardinality(Conexiones)
EnCola(c, p) == p[2] \in DOMAIN cola[p[1]] /\ cola[p[1]][p[2]] = c
EnPromovidos(c, p) == p[2] \in DOMAIN promovidos[p[1]] /\ promovidos[p[1]][p[2]] = c
Decidiendose(c, t) == con[t] = c /\ pc[t] \in {"reservar", "conceder", "denegar"}
Apariciones(c) ==
    Cardinality({p \in TipoRecurso \X Posiciones : EnCola(c, p)})
    + Cardinality({p \in Hilos \X Posiciones : EnPromovidos(c, p)})
    + Cardinality({t \in Hilos : Decidiendose(c, t)})

\* A request that is waiting is in one queue, once, and is not at the same
\* time on its way to a GRANTED: reservar_recurso and the promotion loop never
\* hand the same connection to two threads.
SolicitudUnica == \A c \in Conexiones : Apariciones(c) <= 1

\* The head of a queue could be served right now and nobody holds the mutex.
Despertable(r) == mutex[r] = NULO /\ cola[r] # <<>> /\ Cabe(Head(cola[r]))

\* A queue is left with a servable head only by the purge of a node: no
\* interleaving of RESERVE and RELEASE handlers loses a wake-up.
SoloLaPurgaPierdeDespertares ==
    [][\A r \in TipoRecurso :
         ~Despertable(r) /\ Despertable(r)' =>
            \E t \in Hilos : pc[t] \in {"limpiar", "reponer"} /\ rec[t] = r]_vars

\* Units leave the pool only for the head of the queue, or for a newcomer that
\* finds it empty: no request overtakes one that was queued before it.
SinAdelantamiento ==
    [][\A r \in TipoRecurso : cantDisp'[r] < cantDisp[r] =>
         \/ cola[r] = <<>> /\ cola'[r] = <<>>
         \/ cola[r] # <<>> /\ cola'[r] = Tail(cola[r])]_vars

\* The agent is a pool of units with a queue for each resource, as recursos.h
\* promises: whatever the threads do between their critical sections, what they
\* do to the units and the queues is one step of the pool at a time.
Fondo == INSTANCE FondoRecursos
           WITH Recursos <- TipoRecurso, Solicitudes <- Conexiones,
                libres <- cantDisp, esperan <- cola
ImplementaFondo == Fondo!Spec

\* Every handler a thread enters is left again, whatever the others do.
AtencionTermina == \A t \in Hilos : pc[t] # "espera" ~> pc[t] = "espera"

\* A connection its requester closed is closed here too, and its context freed.
FinLiberaContexto ==
    \A c \in Conexiones :
        (ctx[c] = "viva" /\ par[c] = "cerrada") ~> ctx[c] = "liberada"

\* A waiting request points at the live context of its connection
\* (Solicitud.datosCliente): whatever closes the connection empties it out of
\* the queue before the context is freed, as long as no node expires.
ColaViva == \A r \in TipoRecurso : \A c \in ToSet(cola[r]) : ctx[c] = "viva"

\* The connections a requester opened for job j, one per dependency.
DelTrabajo(j) == {c \in Conexiones : Pedido[c].jobId = j}

\* The agent read all there was on c, the RELEASE if there was one.
Terminada(c) == par[c] = "cerrada" /\ canal[c] = <<>>

\* The agent did not come to the end of any connection of job j.
EnMarcha(j) == \A c \in DelTrabajo(j) : ~ Terminada(c)

\* The answers on c that name its own job.
Propias(c) == {i \in DOMAIN respuestas[c] : respuestas[c][i].jobId = Pedido[c].jobId}

\* Until the agent comes to the end of a connection of a job, each request of
\* the job gets one answer at most, and none as long as it is waiting or being
\* decided.  What else arrives on a connection is the answer of a job that is
\* over: notificar_lista_promovidos sent it through a context that was freed
\* between the promotion and the send, to whoever has the number now.
RespuestaUnica ==
    \A c \in Conexiones :
        /\ EnMarcha(Pedido[c].jobId) => Cardinality(Propias(c)) + Apariciones(c) <= 1
        /\ \A i \in DOMAIN respuestas[c] \ Propias(c) : ~ EnMarcha(respuestas[c][i].jobId)

\* The request of c was granted: its GRANTED was sent, or will be.
Concedida(c) == \E i \in Propias(c) : respuestas[c][i].tipo = "GRANTED"
Dada(c) ==
    \/ Concedida(c)
    \/ \E t \in Hilos : c \in ToSet(promovidos[t]) \/ (con[t] = c /\ pc[t] = "conceder")

\* Nothing happened that takes units from the entry of job j.  Its entry may
\* carry the name of any node that asked for units under that job, and the end
\* of any connection of a node purges all the entries of its name.
Intacto(j) ==
    \A c \in DelTrabajo(j) :
        /\ Pedido[c].nodo \notin Expirables
        /\ \A d \in Conexiones : Pedido[d].nodo = Pedido[c].nodo => ~ Terminada(d)

\* Units of r that the requests of job j were granted.
Otorgado(j, r) ==
    Suma(Conexiones, [c \in Conexiones |->
        IF c \in DelTrabajo(j) /\ Pedido[c].rec = r /\ Dada(c) THEN Pedido[c].cant ELSE 0])

\* A GRANTED is backed until the agent reads the end of a connection of a node
\* that has a share in the job: what is recorded is exactly what its requests
\* were granted, whoever shares the entry, gives up, is promoted or purged.
ConcesionRespaldada ==
    \A j \in JobIds : Intacto(j) => \A r \in TipoRecurso : recReservados[j][r] = Otorgado(j, r)

\* Once the agent closed every connection of a job and no thread is in a
\* handler, nothing of the job is left: no entry holding units and no queued
\* request.
LimpiezaCompleta ==
    (\A t \in Hilos : pc[t] = "espera") =>
        /\ \A j \in JobIds : nodoJob[j] # NULO =>
              \E c \in Conexiones : Pedido[c].jobId = j /\ ctx[c] = "viva"
        /\ \A r \in TipoRecurso : \A c \in ToSet(cola[r]) : ctx[c] = "viva"

\* A request is only deleted from a queue when its node is disconnected: no
\* connection of the node is open, or it stopped announcing itself.
SoloSeBorraLoDesconectado ==
    [][\A r \in TipoRecurso : \A c \in ToSet(cola[r]) \ ToSet(cola'[r]) :
         \/ \E t \in Hilos : c \in ToSet(promovidos'[t])
         \/ Pedido[c].nodo \notin conocidos
         \/ \A d \in Conexiones :
              Pedido[d].nodo = Pedido[c].nodo /\ ctx[d] = "viva" => par[d] = "cerrada"]_vars
=============================================================================
