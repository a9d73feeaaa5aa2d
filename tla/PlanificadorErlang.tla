------------------------- MODULE PlanificadorErlang -------------------------
(***************************************************************************)
(* The planner of one machine (job-scheduler/): the scheduler, the job     *)
(* server, one process per job, the two processes that own the socket and  *)
(* the log.  A mailbox is a sequence.  The sender process and the socket   *)
(* keep the order of the lines: together they are one queue, canal.        *)
(*                                                                         *)
(* The agent is reduced to what the planner can tell of it: it may grant a *)
(* job, deny it or never answer, and an answer it had begun when the job   *)
(* was released may still come.                                            *)
(*                                                                         *)
(* Time: a sleep or a timeout (300 ms to 15 s) does not end while the      *)
(* scheduler is in its loop over the jobs of a round or the log process    *)
(* is about to fail, which are ready to run all that time; nor does the    *)
(* agent act while the log process is about to fail.                       *)
(***************************************************************************)
EXTENDS RepartoRecursos

CONSTANTS
    MaxTrabajos,  \* jobs in one behaviour (bound)
    Listados,     \* listings the agent may answer
    INTENTOS_HASTA_DESCARTAR,
    Negables      \* jobs the agent may answer JOB_DENIED

Trabajos == 1..MaxTrabajos

ASSUME CotasAssumption ==
    /\ MaxTrabajos \in Nat
    /\ INTENTOS_HASTA_DESCARTAR \in Nat
    /\ Negables \subseteq Trabajos
    /\ Listados \subseteq SUBSET Nodos

VARIABLES
    sched,       \* where the scheduler is
    porCrear,    \* lines of the round whose jobs are not created yet
    buzonSched,  \* mailbox of the scheduler
    mapa,        \* JobMap: the jobs the server knows
    buzonServ,   \* mailbox of the job server
    canal,       \* lines to the agent: mailbox of the sender, and the socket
    trab,        \* where each job's process is
    intentos,    \* its attempts that failed
    buzon,       \* its mailbox
    linea,       \* the resources it asks for
    permiso,     \* the request whose grant it works with (history)
    registro,    \* the log process: all others but the jobs are linked to it
    agente       \* what the agent has of each job

planif == <<sched, porCrear, buzonSched>>
servidor == <<mapa, buzonServ>>
trabajo == <<trab, intentos, buzon, linea, permiso>>
vars == <<planif, servidor, canal, trabajo, registro, agente>>

Orden(clase, j) == [clase |-> clase, job |-> j]
Pedido(j, v, pide) == [clase |-> "JOB_REQUEST", job |-> j, vez |-> v, pide |-> pide]
Respuesta(clase, j, v) == [clase |-> clase, job |-> j, vez |-> v]
SinPedido == [est |-> "nada", vez |-> 0, pide |-> {}]
Lista(S) == [clase |-> "NODES", nodos |-> S]
AllJobsDone == [clase |-> "alljobsdone", nodos |-> {}]

Init ==
    /\ sched = "pide"
    /\ porCrear = <<>>
    /\ buzonSched = <<>>
    /\ mapa = {}
    /\ buzonServ = <<>>
    /\ canal = <<>>
    /\ trab = [j \in Trabajos |-> "sin_crear"]
    /\ intentos = [j \in Trabajos |-> 0]
    /\ buzon = [j \in Trabajos |-> <<>>]
    /\ linea = [j \in Trabajos |-> {}]
    /\ permiso = [j \in Trabajos |-> 0]
    /\ registro = "vivo"
    /\ agente = [j \in Trabajos |-> SinPedido]

-----------------------------------------------------------------------------
Vivo == registro # "muerto"

Creados == {j \in Trabajos : trab[j] # "sin_crear"}
Nuevo == Cardinality(Creados) + 1

\* No process is held up for as long as a sleep or a timeout lasts.
PasaElTiempo == sched \notin {"crea", "agrega"} /\ registro # "veneno"

Enviar(m) == canal' = Append(canal, m)

\* Mutant: the size is compared before the removal.
FallaQuedaVacio(j) == Cardinality(mapa) <= 2

\* maps:size(maps:remove(JobId, JobMap)) is 0.
QuedaVacio(j) == mapa \ {j} = {}

Ir(j, etapa) == trab' = [trab EXCEPT ![j] = etapa]

\* A job receives for the last time: what it holds, and its mailbox, are of no
\* further use.
Acabar(j, etapa) ==
    /\ Ir(j, etapa)
    /\ linea' = [linea EXCEPT ![j] = {}]
    /\ intentos' = [intentos EXCEPT ![j] = 0]
    /\ buzon' = [buzon EXCEPT ![j] = <<>>]
    /\ permiso' = [permiso EXCEPT ![j] = 0]

Recibe(j) == trab[j] \in {"pide", "espera", "descansa"}

-----------------------------------------------------------------------------
(* The scheduler *)

\* obtener_nodos: the request.  The bound leaves room for a job at least.
PedirNodos ==
    /\ Vivo /\ sched = "pide"
    /\ Cardinality(Creados) < MaxTrabajos
    /\ Enviar(Orden("GET_NODES", 0))
    /\ sched' = "espera_nodos"
    /\ UNCHANGED <<porCrear, buzonSched, servidor, trabajo, registro,
                   agente>>

\* The answer.  Anything else is dropped, and the nodes are asked for again.
\* format_nodes has no clause for no nodes: the scheduler fails.
RecibirNodos ==
    /\ Vivo /\ sched = "espera_nodos"
    /\ buzonSched # <<>>
    /\ buzonSched' = Tail(buzonSched)
    /\ LET m == Head(buzonSched)
       IN  IF m.clase = "NODES"
           THEN IF m.nodos = {} THEN /\ registro' = "veneno"
                                     /\ UNCHANGED <<porCrear, sched, canal>>
                ELSE /\ \E lineas \in TrabajosDe[m.nodos] :
                            /\ Cardinality(Creados) + Len(lineas) <= MaxTrabajos
                            /\ porCrear' = lineas
                            /\ sched' = IF lineas = <<>> THEN "espera" ELSE "crea"
                     /\ UNCHANGED <<canal, registro>>
           ELSE /\ Enviar(Orden("GET_NODES", 0))
                /\ UNCHANGED <<porCrear, sched, registro>>
    /\ UNCHANGED <<servidor, trabajo, agente>>

\* crear_job: the process starts before the server knows of it.
Crear ==
    /\ Vivo /\ sched = "crea"
    /\ Ir(Nuevo, "pide")
    /\ linea' = [linea EXCEPT ![Nuevo] = Head(porCrear)]
    /\ sched' = "agrega"
    /\ UNCHANGED <<porCrear, buzonSched, servidor, canal, intentos, buzon, permiso,
                   registro, agente>>

Agregar ==
    /\ Vivo /\ sched = "agrega"
    /\ buzonServ' = Append(buzonServ, Orden("add", Nuevo - 1))
    /\ porCrear' = Tail(porCrear)
    /\ sched' = IF Len(porCrear) = 1 THEN "espera" ELSE "crea"
    /\ UNCHANGED <<buzonSched, mapa, canal, trabajo, registro, agente>>

\* A selective receive: other messages stay in the mailbox.
EsperarFin ==
    /\ Vivo /\ sched = "espera"
    /\ \E m \in ToSet(buzonSched) : m = AllJobsDone
    /\ buzonSched' = RemoveFirst(buzonSched, AllJobsDone)
    /\ sched' = "duerme"
    /\ UNCHANGED <<porCrear, servidor, canal, trabajo, registro, agente>>

OtraRonda ==
    /\ Vivo /\ sched = "duerme"
    /\ PasaElTiempo
    /\ sched' = "pide"
    /\ UNCHANGED <<porCrear, buzonSched, servidor, canal, trabajo, registro, agente>>

-----------------------------------------------------------------------------
(* The job server, and the links between processes *)

Servir ==
    /\ Vivo
    /\ buzonServ # <<>>
    /\ buzonServ' = Tail(buzonServ)
    /\ LET m == Head(buzonServ)
           j == m.job
       IN  \/ /\ m.clase = "add"
              /\ mapa' = mapa \cup {j}
              /\ UNCHANGED <<buzon, buzonSched>>
           \/ /\ m.clase = "remove"
              /\ mapa' = mapa \ {j}
              /\ buzonSched' = IF QuedaVacio(j) THEN Append(buzonSched, AllJobsDone)
                               ELSE buzonSched
              /\ UNCHANGED buzon
           \/ /\ m.clase \in {"JOB_GRANTED", "JOB_DENIED"}
              /\ buzon' = IF j \in mapa /\ Recibe(j) THEN [buzon EXCEPT ![j] = Append(@, m)]
                          ELSE buzon
              /\ UNCHANGED <<mapa, buzonSched>>
    /\ UNCHANGED <<sched, porCrear, canal, trab, intentos, linea, permiso, registro,
                   agente>>

\* Mutant: the receive has no timeout.
FallaSilencio == FALSE /\ UNCHANGED vars

\* Ten minutes without a line are fatal.
Silencio ==
    /\ sched \in {"espera_nodos", "espera"} /\ registro = "vivo"
    /\ \A j \in Trabajos : trab[j] \in {"sin_crear", "fin"}
    /\ buzonSched = <<>> /\ buzonServ = <<>> /\ canal = <<>>
    /\ registro' = "veneno"
    /\ UNCHANGED <<planif, servidor, canal, trabajo, agente>>

\* The log process fails, or the scheduler does, and all that are linked to it
\* with their mailboxes.  Of the lines on their way the agent gets those the
\* sender had written.
Caer ==
    /\ registro = "veneno"
    /\ registro' = "muerto"
    /\ sched' = "muerto"
    /\ porCrear' = <<>>
    /\ buzonSched' = <<>>
    /\ mapa' = {}
    /\ buzonServ' = <<>>
    /\ \E i \in 0..Len(canal) : canal' = SubSeq(canal, 1, i)
    /\ UNCHANGED <<trabajo, agente>>

-----------------------------------------------------------------------------
(* The processes of the jobs *)

\* Mutant: a retry releases the former attempt after asking again.
FallaSolicitar(j) ==
    /\ Vivo /\ trab[j] = "pide"
    /\ canal' = canal \o <<Pedido(j, intentos[j] + 1, linea[j])>>
                      \o (IF intentos[j] > 0 THEN <<Orden("JOB_RELEASE", j)>> ELSE <<>>)
    /\ Ir(j, "espera")
    /\ UNCHANGED <<planif, servidor, intentos, buzon, linea, permiso,
                   registro, agente>>

Solicitar(j) ==
    /\ Vivo /\ trab[j] = "pide"
    /\ Enviar(Pedido(j, intentos[j] + 1, linea[j]))
    /\ Ir(j, "espera")
    /\ UNCHANGED <<planif, servidor, intentos, buzon, linea, permiso,
                   registro, agente>>

\* The first answer in the mailbox, whichever request it is for.
Concedido(j) ==
    /\ Vivo /\ trab[j] = "espera"
    /\ buzon[j] # <<>> /\ Head(buzon[j]).clase = "JOB_GRANTED"
    /\ buzon' = [buzon EXCEPT ![j] = <<>>]
    /\ permiso' = [permiso EXCEPT ![j] = Head(buzon[j]).vez]
    /\ Ir(j, "trabaja")
    /\ UNCHANGED <<planif, servidor, canal, intentos, linea, registro, agente>>

\* The entry for the log has an argument too many: it kills the log process.
Denegado(j) ==
    /\ Vivo /\ trab[j] = "espera"
    /\ buzon[j] # <<>> /\ Head(buzon[j]).clase = "JOB_DENIED"
    /\ registro' = "veneno"
    /\ Enviar(Orden("JOB_RELEASE", j))
    /\ Acabar(j, "quita")
    /\ UNCHANGED <<planif, servidor, agente>>

\* Mutant: an attempt too many.
FallaSinIntentos(j) == intentos[j] > INTENTOS_HASTA_DESCARTAR

\* The first clause of manejar_fallo.
SinIntentos(j) == intentos[j] = INTENTOS_HASTA_DESCARTAR

\* Mutant: an attempt is given up without a release.
FallaVencer(j) ==
    /\ Vivo /\ trab[j] = "espera" /\ buzon[j] = <<>>
    /\ PasaElTiempo
    /\ IF SinIntentos(j) THEN Acabar(j, "quita")
       ELSE Ir(j, "descansa") /\ UNCHANGED <<linea, intentos, buzon, permiso>>
    /\ UNCHANGED <<planif, servidor, canal, registro, agente>>

\* No answer in 15 s: manejar_fallo releases, and gives up or tries again.
Vencer(j) ==
    /\ Vivo /\ trab[j] = "espera" /\ buzon[j] = <<>>
    /\ PasaElTiempo
    /\ Enviar(Orden("JOB_RELEASE", j))
    /\ IF SinIntentos(j) THEN Acabar(j, "quita")
       ELSE Ir(j, "descansa") /\ UNCHANGED <<linea, intentos, buzon, permiso>>
    /\ UNCHANGED <<planif, servidor, registro, agente>>

\* aplicar_timeout, then adquirir_loop again.  The mailbox is not emptied.
Reintentar(j) ==
    /\ Vivo /\ trab[j] = "descansa"
    /\ PasaElTiempo
    /\ intentos' = [intentos EXCEPT ![j] = @ + 1]
    /\ Ir(j, "pide")
    /\ UNCHANGED <<planif, servidor, canal, buzon, linea, permiso, registro, agente>>

\* ejecutar_trabajo: the work of one second, and the release.
Terminar(j) ==
    /\ Vivo /\ trab[j] = "trabaja"
    /\ PasaElTiempo
    /\ Enviar(Orden("JOB_RELEASE", j))
    /\ Acabar(j, "quita")
    /\ UNCHANGED <<planif, servidor, registro, agente>>

\* remover_job, and the process ends.
Quitar(j) ==
    /\ Vivo /\ trab[j] = "quita"
    /\ buzonServ' = Append(buzonServ, Orden("remove", j))
    /\ Ir(j, "fin")
    /\ UNCHANGED <<planif, mapa, canal, intentos, buzon, linea, permiso, registro,
                   agente>>

\* Jobs are not linked to the rest: one that is left alone finds nobody to
\* send to, nor a log to say so, and exits.
Abandonar(j) ==
    /\ ~ Vivo /\ trab[j] \in {"pide", "espera", "descansa", "trabaja", "quita"}
    /\ Acabar(j, "fin")
    /\ UNCHANGED <<planif, servidor, canal, registro, agente>>

-----------------------------------------------------------------------------
(* The agent, as far as the planner can tell *)

\* A line of the agent goes through esperar_respuesta_nodo, which keeps the
\* order, to the mailbox of the process it is for.
Responder(m) ==
    /\ buzonSched' = IF Vivo /\ m.clase = "NODES" THEN Append(buzonSched, m) ELSE buzonSched
    /\ buzonServ' = IF Vivo /\ m.clase # "NODES" THEN Append(buzonServ, m) ELSE buzonServ

Anotar(j, est) == agente' = [agente EXCEPT ![j].est = est]

\* When a job is released a GRANTED of it may be about to be told.  A NODES
\* of 1024 bytes or more is not sent.
AgenteLee ==
    /\ canal # <<>> /\ registro # "veneno"
    /\ canal' = Tail(canal)
    /\ LET m == Head(canal)
           j == m.job
       IN  \/ /\ m.clase = "GET_NODES"
              /\ (\E S \in Listados : Responder(Lista(S))) \/ UNCHANGED <<buzonSched, buzonServ>>
              /\ UNCHANGED agente
           \/ /\ m.clase = "JOB_REQUEST"
              /\ agente' = [agente EXCEPT ![j] =
                              [est |-> "pedido", vez |-> m.vez, pide |-> m.pide]]
              /\ UNCHANGED <<buzonSched, buzonServ>>
           \/ /\ m.clase = "JOB_RELEASE"
              /\ agente' = [agente EXCEPT ![j] = SinPedido]
              /\ \/ UNCHANGED <<buzonSched, buzonServ>>
                 \/ /\ agente[j].est = "pedido"
                    /\ Responder(Respuesta("JOB_GRANTED", j, agente[j].vez))
    /\ UNCHANGED <<sched, porCrear, mapa, trabajo, registro>>

AgenteConcede(j) ==
    /\ registro = "vivo" /\ agente[j].est = "pedido"
    /\ Anotar(j, "concedido")
    /\ Responder(Respuesta("JOB_GRANTED", j, agente[j].vez))
    /\ UNCHANGED <<sched, porCrear, mapa, canal, trabajo, registro>>

AgenteDeniega(j) ==
    /\ registro = "vivo" /\ agente[j].est = "pedido"
    /\ j \in Negables
    /\ Anotar(j, "negado")
    /\ Responder(Respuesta("JOB_DENIED", j, agente[j].vez))
    /\ UNCHANGED <<sched, porCrear, mapa, canal, trabajo, registro>>

-----------------------------------------------------------------------------
Scheduler == PedirNodos \/ RecibirNodos \/ Crear \/ Agregar \/ EsperarFin \/ OtraRonda

Trabajo(j) ==
    \/ Solicitar(j) \/ Concedido(j) \/ Denegado(j) \/ Vencer(j) \/ Reintentar(j)
    \/ Terminar(j) \/ Quitar(j) \/ Abandonar(j)

Agente == \E j \in Trabajos : AgenteConcede(j) \/ AgenteDeniega(j)

Planificador ==
    \/ Scheduler \/ Servir \/ Silencio \/ Caer
    \/ \E j \in Trabajos : Trabajo(j)

Next == Planificador \/ AgenteLee \/ Agente

Spec == Init /\ [][Next]_vars

\* As long as a process of the planner can go on, or a line be read, one does
\* or is.  The agent need not answer about a job.
SpecJusta == Spec /\ WF_vars(Planificador \/ AgenteLee)
-----------------------------------------------------------------------------
(* Properties *)

Etapas == {"sin_crear", "pide", "espera", "descansa", "trabaja", "quita", "fin"}

\* Every variable holds values of its kind.
TypeOK ==
    /\ sched \in {"pide", "espera_nodos", "crea", "agrega", "espera", "duerme", "muerto"}
    /\ buzonSched \in Seq({Lista(S) : S \in Listados} \cup {AllJobsDone})
    /\ mapa \subseteq Trabajos
    /\ \A i \in DOMAIN buzonServ : buzonServ[i].job \in Trabajos
    /\ trab \in [Trabajos -> Etapas]
    /\ intentos \in [Trabajos -> 0..INTENTOS_HASTA_DESCARTAR]
    /\ permiso \in [Trabajos -> 0..(INTENTOS_HASTA_DESCARTAR + 1)]
    /\ registro \in {"vivo", "veneno", "muerto"}
    /\ \A j \in Trabajos :
        agente[j] = SinPedido \/ agente[j].est \in {"pedido", "concedido", "negado"}

\* What the agent has been asked for and not been told to release, over all
\* jobs of this and former rounds, is at most half of each node: a round
\* starts when every job of the former one has released all it asked for.
MitadDeCadaNodo ==
    LET activas == [j \in Trabajos |-> agente[j].pide]
    IN  \A n \in Nodos : \A t \in Tipos : Pide(activas, n, t) <= Mitad(n)[t]

\* The jobs of a round ask for exactly half of each node of the listing.
RepartoExacto ==
    [][sched = "espera_nodos" /\ sched' = "crea" =>
        \A n \in Head(buzonSched).nodos : \A t \in Tipos :
            Pide(porCrear', n, t) = Mitad(n)[t]]_vars

\* A job that works with the grant of its last request holds its resources.
PermisoVigente ==
    \A j \in Trabajos :
        trab[j] = "trabaja" /\ permiso[j] = intentos[j] + 1 => agente[j].est = "concedido"

\* A job that works holds its resources.
TrabajaConLoConcedido ==
    \A j \in Trabajos : trab[j] = "trabaja" => agente[j].est = "concedido"

\* A job that ended, and a job between two attempts, leaves nothing at the
\* agent once its lines are read, unless the planner fell.
SinReservasOlvidadas ==
    \A j \in Trabajos :
        Vivo /\ trab[j] \in {"fin", "quita", "descansa", "pide"}
            /\ (\A i \in DOMAIN canal : canal[i].job # j) => agente[j] = SinPedido

\* The scheduler never waits for ever, and goes on only when no job is left:
\* not for a listing that is lost, nor for jobs, of which there may be none,
\* nor for answers, that may not come (the jobs may wait in a circle for each
\* other's resources).  It goes on, or the whole planner ends.
EsperaTermina ==
    sched \in {"espera_nodos", "espera"} ~>
        /\ sched \notin {"espera_nodos", "espera"}
        /\ \A j \in Trabajos : trab[j] \in {"sin_crear", "fin"}

\* The scheduler comes back to a new round, again and again.
OtraRondaLlega == (sched = "espera") ~> (sched = "duerme")
=============================================================================
