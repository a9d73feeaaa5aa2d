---------------------------- MODULE Solicitante ----------------------------
(***************************************************************************)
(* The requesting side of ONE agent: the JOB_LOCAL entries of the job      *)
(* table (tablajobs.c), JOB_REQUEST and JOB_RELEASE from the planner, the  *)
(* outgoing connection each dependency of a job gets, and the GRANTED and  *)
(* DENIED that come back on it (manejadores.c), on the worker threads of   *)
(* server.c.                                                               *)
(*                                                                         *)
(* Descriptors are explicit: a context remembers its number, the kernel    *)
(* gives the lowest free number to a new socket, and epoll maps a number   *)
(* to the context it was registered with.  A thread that uses a number     *)
(* after another thread closed it acts on whatever socket has it then.     *)
(*                                                                         *)
(* The planner may release a job at any time (it has a timeout) and ask    *)
(* again under the same id.  The providers are other agents, reduced to    *)
(* what RecursosAgente shows of them: a resource is held by one job at a   *)
(* time, and the end of any connection purges everything of its node.      *)
(***************************************************************************)
EXTENDS Integers, Sequences, FiniteSets, SequencesExt, FiniteSetsExt

CONSTANTS
    Hilos,      \* worker threads running gestionar_epoll
    Trabajos,   \* jobs of the local planner
    Destinos,   \* <<host, resource>> pairs a JOB_REQUEST may name
    Nodo,       \* the host of each destination
    Pide,       \* the destinations of each job, in the order of its line
    Intentos,   \* how often the planner asks for each job (bound)
    MaxPedidos, \* requests of all jobs together (bound)
    Vecinos,    \* hosts with a connection to this agent that may end
    Caidas,     \* hosts that may refuse a connection, crash or fall silent
    MaxFallas,  \* ends and crashes in one behaviour (bound)
    Excesivos,  \* <<job, destination>> that may ask for more than the host has
    Nulo        \* no context, no job

ASSUME PideAssumption ==
    /\ Pide \in [Trabajos -> Seq(Destinos)]
    /\ \A j \in Trabajos : Pide[j] # <<>> /\ IsInjective(Pide[j])
    /\ Intentos \in [Trabajos -> Nat]
    /\ MaxPedidos \in Nat

\* One ClienteConexion per job, attempt and destination.
Contextos == UNION {{j} \X (1..Intentos[j]) \X ToSet(Pide[j]) : j \in Trabajos}
Trabajo(c) == c[1]
Destino(c) == c[3]
Host(c) == Nodo[Destino(c)]

ASSUME NuloAssumption == Nulo \notin Contextos \cup Trabajos

ASSUME FinitudAssumption == IsFiniteSet(Contextos)

Descriptores == 1..Cardinality(Contextos)

-----------------------------------------------------------------------------
VARIABLES
    estado,     \* what the planner's job process believes
    intento,    \* attempts the planner has made for each job
    lineas,     \* lines of the planner not yet read
    erlang,     \* whether the planner's connection is armed in epoll
    entrada,    \* the JOB_LOCAL entry of each context, "no" if none
    fd,         \* the descriptor in each context, 0 before it has one, or for -1
    tipo,       \* TipoCliente of each context; "libre" once freed
    enchufe,    \* whose socket each descriptor is, Nulo if it is closed
    tcp,        \* each context's socket as the kernel sees it
    epoll,      \* registration of each descriptor: its context and event
    espera,     \* <<c, j>>: RESERVE of j sent on c's socket and unanswered
    tomada,     \* <<c, j>>: reserved at the provider through c's socket
    buzon,      \* answers on each socket not yet read
    fallas,     \* ends and crashes so far
    pc,         \* where each thread is
    con,        \* the context a thread handles
    trab,       \* the job it works for, Nulo if none
    lista,      \* contexts it still has to go through
    revocadas,  \* history: contexts a provider purged or lost by itself
    olvidadas,  \* history: contexts whose entry a purge removed
    tardias,    \* history: jobs with a GRANTED handled after its entry was gone
    cruzados    \* history: jobs with a line on a socket of another context

planif == <<estado, intento, lineas>>
contexto == <<fd, tipo>>
nucleo == <<enchufe, tcp, epoll>>
proveedor == <<espera, tomada>>
hilo == <<pc, con, trab, lista>>
historia == <<revocadas, olvidadas, tardias, cruzados>>
vars == <<planif, erlang, entrada, contexto, nucleo, proveedor, buzon, fallas,
          hilo, historia>>

Msg(clase, j) == [clase |-> clase, job |-> j]
Linea(orden, j, k) == [orden |-> orden, job |-> j, intento |-> k]
NoArmado == [con |-> Nulo, ev |-> "no"]

Etapas == {"libre", "pedir", "armar", "cortar", "salida", "leer",
           "marcar", "mirar", "avisar", "negar", "purgar", "cerrar", "rearmar"}

Init ==
    /\ estado = [j \in Trabajos |-> "libre"]
    /\ intento = [j \in Trabajos |-> 0]
    /\ lineas = <<>>
    /\ erlang = TRUE
    /\ entrada = [c \in Contextos |-> "no"]
    /\ fd = [c \in Contextos |-> 0]
    /\ tipo = [c \in Contextos |-> "sin_crear"]
    /\ enchufe = [f \in Descriptores |-> Nulo]
    /\ tcp = [c \in Contextos |-> "sin_crear"]
    /\ epoll = [f \in Descriptores |-> NoArmado]
    /\ espera = {}
    /\ tomada = {}
    /\ buzon = [c \in Contextos |-> <<>>]
    /\ fallas = 0
    /\ pc = [t \in Hilos |-> "libre"]
    /\ con = [t \in Hilos |-> Nulo]
    /\ trab = [t \in Hilos |-> Nulo]
    /\ lista = [t \in Hilos |-> <<>>]
    /\ revocadas = {}
    /\ olvidadas = {}
    /\ tardias = {}
    /\ cruzados = {}

-----------------------------------------------------------------------------
(* Helpers *)

\* Mutant: only what was granted is taken for the job's.
FallaEntradasDe(j) == {c \in Contextos : entrada[c] = "concedida" /\ Trabajo(c) = j}

EntradasDe(j) == {c \in Contextos : entrada[c] # "no" /\ Trabajo(c) = j}

\* The entry a GRANTED for job j on context c belongs to.
EntradaDe(j, c) == {x \in EntradasDe(j) : Destino(x) = Destino(c)}

\* Mutant: one granted entry is enough.
FallaTodoConcedido(j) == \E c \in EntradasDe(j) : entrada[c] = "concedida"

\* tablajobs_job_granted: every entry of the job, and there may be none.
TodoConcedido(j) == \A c \in EntradasDe(j) : entrada[c] = "concedida"

\* The contexts a JOB_REQUEST line creates, in its order.
Dependencias(l) == [i \in DOMAIN Pide[l.job] |-> <<l.job, l.intento, Pide[l.job][i]>>]

\* How a connection attempt ends; only the event on its socket tells.
ResultadosConnect(c) == {"conectado"} \cup {r \in {"roto"} : Host(c) \in Caidas}

\* The lowest free descriptor, which socket(2) returns.
DescriptorNuevo ==
    CHOOSE f \in Descriptores :
        enchufe[f] = Nulo /\ \A g \in 1..(f - 1) : enchufe[g] # Nulo

\* The socket a context's descriptor leads to now, Nulo if it is closed.
EnchufeDe(c) == IF fd[c] \in Descriptores THEN enchufe[fd[c]] ELSE Nulo

\* Mutant: the error of the socket is not looked at.
FallaSano(s) == TRUE

\* A descriptor that leads to a socket the other side has not ended.
Sano(s) == s \in Contextos /\ tcp[s] # "roto"

\* An answer is there to be read.
HayLinea(s) == s \in Contextos /\ buzon[s] # <<>>

\* A GRANTED of a connection whose entry is gone acts on what is there instead.
AnotarTardia(t) ==
    tardias' = tardias \cup {j \in {trab[t]} : entrada[con[t]] = "no" /\ pc[t] # "negar"}

\* A line of job j goes through socket s for context c, whose number it has now.
AnotarCruce(s, c, j) == cruzados' = cruzados \cup {k \in {j} : s # c}

\* close(f): the socket ends, its registration and its unread input with it.
CerrarFd(f) ==
    IF f \in Descriptores /\ enchufe[f] # Nulo
    THEN /\ tcp' = [tcp EXCEPT ![enchufe[f]] = "cerrado"]
         /\ buzon' = [buzon EXCEPT ![enchufe[f]] = <<>>]
         /\ enchufe' = [enchufe EXCEPT ![f] = Nulo]
         /\ epoll' = [epoll EXCEPT ![f] = NoArmado]
    ELSE UNCHANGED <<nucleo, buzon>>

\* tablajobs_borrar_por_nodo, seen from the JOB_LOCAL entries.
BorrarPorNodo(n) ==
    LET borradas == {c \in Contextos : entrada[c] # "no" /\ Host(c) = n}
    IN  /\ entrada' = [c \in Contextos |-> IF c \in borradas THEN "no" ELSE entrada[c]]
        /\ olvidadas' = olvidadas \cup borradas

\* Mutant: a registration without EPOLLONESHOT.
FallaDesarmar(f) == UNCHANGED epoll

\* A one-shot registration is used up when its event is delivered.
Desarmar(f) == epoll' = [epoll EXCEPT ![f].ev = "no"]

\* What a provider loses of its requester: everything of its node.
SinHost(n) ==
    /\ espera' = {r \in espera : Host(r[1]) # n}
    /\ tomada' = {r \in tomada : Host(r[1]) # n}

Ir(t, etapa) == pc' = [pc EXCEPT ![t] = etapa]

\* The thread is done with its event and goes back to epoll_wait.
Volver(t) ==
    /\ Ir(t, "libre")
    /\ con' = [con EXCEPT ![t] = Nulo]
    /\ trab' = [trab EXCEPT ![t] = Nulo]

\* The same after a line of the planner, whose connection is armed again.
FinLinea(t) == Volver(t) /\ erlang' = TRUE

-----------------------------------------------------------------------------
(* The planner: it asks for a job, and releases it whenever it likes.  It   *)
(* sleeps before it asks again: its JOB_RELEASE has been handled by then.   *)

SinLineasDe(j) ==
    /\ \A i \in DOMAIN lineas : lineas[i].job # j
    /\ \A t \in Hilos : trab[t] = j => pc[t] \notin {"pedir", "armar", "cortar"}

Pedir(j) ==
    /\ estado[j] = "libre"
    /\ intento[j] < Intentos[j]
    /\ MapThenSumSet(LAMBDA k : intento[k], Trabajos) < MaxPedidos
    /\ SinLineasDe(j)
    /\ estado' = [estado EXCEPT ![j] = "pedido"]
    /\ intento' = [intento EXCEPT ![j] = @ + 1]
    /\ lineas' = Append(lineas, Linea("JOB_REQUEST", j, intento'[j]))
    /\ UNCHANGED <<erlang, entrada, contexto, nucleo, proveedor, buzon, fallas,
                   hilo, historia>>

Soltar(j) ==
    /\ estado[j] # "libre"
    /\ estado' = [estado EXCEPT ![j] = "libre"]
    /\ lineas' = Append(lineas, Linea("JOB_RELEASE", j, intento[j]))
    /\ UNCHANGED <<intento, erlang, entrada, contexto, nucleo, proveedor, buzon,
                   fallas, hilo, historia>>

-----------------------------------------------------------------------------
(* The network and the providers *)

Responder(c, j, clase) ==
    buzon' = IF tcp[c] = "conectado"
             THEN [buzon EXCEPT ![c] = Append(@, Msg(clase, j))]
             ELSE buzon

ProvConcede(c, j) ==
    /\ <<c, j>> \in espera
    /\ \A r \in tomada : Destino(r[1]) # Destino(c)
    /\ espera' = espera \ {<<c, j>>}
    /\ tomada' = tomada \cup {<<c, j>>}
    /\ Responder(c, j, "GRANTED")
    /\ UNCHANGED <<planif, erlang, entrada, contexto, nucleo, fallas, hilo, historia>>

ProvDeniega(c, j) ==
    /\ <<c, j>> \in espera
    /\ <<j, Destino(c)>> \in Excesivos
    /\ espera' = espera \ {<<c, j>>}
    /\ Responder(c, j, "DENIED")
    /\ UNCHANGED <<planif, erlang, entrada, contexto, nucleo, tomada, fallas, hilo,
                   historia>>

\* The provider reads the RELEASE and the end of a connection.
ProvCierra(c) ==
    /\ tcp[c] = "cerrado"
    /\ \E r \in espera \cup tomada : r[1] = c
    /\ SinHost(Host(c))
    /\ revocadas' = revocadas \cup {r[1] : r \in (espera \cup tomada) \ (espera' \cup tomada')}
    /\ UNCHANGED <<planif, erlang, entrada, contexto, nucleo, buzon, fallas, hilo,
                   olvidadas, tardias, cruzados>>

\* A provider crashes and comes back: its connections break, it holds nothing.
ProvCae(n) ==
    /\ fallas < MaxFallas
    /\ fallas' = fallas + 1
    /\ tcp' = [c \in Contextos |->
                 IF Host(c) = n /\ tcp[c] = "conectado" THEN "roto" ELSE tcp[c]]
    /\ SinHost(n)
    /\ revocadas' = revocadas \cup {r[1] : r \in (espera \cup tomada) \ (espera' \cup tomada')}
    /\ UNCHANGED <<planif, erlang, entrada, contexto, enchufe, epoll, buzon, hilo,
                   olvidadas, tardias, cruzados>>

-----------------------------------------------------------------------------
(* Threads: the planner's lines *)

\* A line is read from the planner's connection, one thread at a time.
LeerLinea(t, orden) ==
    /\ pc[t] = "libre"
    /\ erlang
    /\ lineas # <<>>
    /\ Head(lineas).orden = orden
    /\ lineas' = Tail(lineas)

TomarPedido(t) ==
    /\ LeerLinea(t, "JOB_REQUEST")
    /\ erlang' = FALSE
    /\ trab' = [trab EXCEPT ![t] = Head(lineas).job]
    /\ lista' = [lista EXCEPT ![t] = Dependencias(Head(lineas))]
    /\ Ir(t, "pedir")
    /\ UNCHANGED <<estado, intento, entrada, contexto, nucleo, proveedor, buzon,
                   fallas, con, historia>>

\* Mutant: the list returned is not linked, and keeps one entry.
FallaTomarLiberacion(t) ==
    /\ LeerLinea(t, "JOB_RELEASE")
    /\ LET j == Head(lineas).job
           suyas == EntradasDe(j)
       IN  /\ suyas # {}
           /\ erlang' = FALSE
           /\ trab' = [trab EXCEPT ![t] = j]
           /\ entrada' = [c \in Contextos |-> IF c \in suyas THEN "no" ELSE entrada[c]]
           /\ lista' = [lista EXCEPT ![t] = <<CHOOSE c \in suyas : TRUE>>]
    /\ Ir(t, "cortar")
    /\ UNCHANGED <<estado, intento, contexto, nucleo, proveedor, buzon, fallas, con,
                   historia>>

\* tablajobs_release_job: the job's entries leave the table together.
TomarLiberacion(t) ==
    /\ LeerLinea(t, "JOB_RELEASE")
    /\ LET j == Head(lineas).job
           suyas == EntradasDe(j)
       IN  /\ suyas # {}
           /\ erlang' = FALSE
           /\ trab' = [trab EXCEPT ![t] = j]
           /\ entrada' = [c \in Contextos |-> IF c \in suyas THEN "no" ELSE entrada[c]]
           /\ lista' = [lista EXCEPT ![t] = SetToSeq(suyas)]
    /\ Ir(t, "cortar")
    /\ UNCHANGED <<estado, intento, contexto, nucleo, proveedor, buzon, fallas, con,
                   historia>>

\* JOB_RELEASE of a job with no entries: there is nothing to do.
LiberacionVacia(t) ==
    /\ LeerLinea(t, "JOB_RELEASE")
    /\ EntradasDe(Head(lineas).job) = {}
    /\ UNCHANGED <<estado, intento, erlang, entrada, contexto, nucleo, proveedor, buzon,
                   fallas, hilo, historia>>

\* A socket is created and starts to connect, or there is none: the number is
\* -1 when the host is found to be unreachable at once.
CrearSocket(c) ==
    \/ /\ fd' = [fd EXCEPT ![c] = DescriptorNuevo]
       /\ enchufe' = [enchufe EXCEPT ![DescriptorNuevo] = c]
       /\ \E r \in ResultadosConnect(c) : tcp' = [tcp EXCEPT ![c] = r]
    \/ /\ Host(c) \in Caidas
       /\ UNCHANGED <<fd, enchufe, tcp>>

\* One turn of the loop over the line: socket, context and table entry.
Registrar(t) ==
    /\ pc[t] = "pedir"
    /\ LET c == Head(lista[t])
       IN  /\ CrearSocket(c)
           /\ tipo' = [tipo EXCEPT ![c] = "saliente"]
           /\ entrada' = [entrada EXCEPT ![c] = "pedida"]
           /\ lista' = [lista EXCEPT ![t] = Append(Tail(@), c)]
    /\ Ir(t, IF tipo'[Head(lista'[t])] = "sin_crear" THEN "pedir" ELSE "armar")
    /\ UNCHANGED <<planif, erlang, epoll, proveedor, buzon, fallas, con, trab,
                   historia>>

\* The first context of s with the number f, if there is one.
PrimeroCon(s, f) ==
    LET P == {i \in DOMAIN s : fd[s[i]] = f}
    IN  {s[i] : i \in {k \in P : \A h \in P : k <= h}}

\* The second loop: epoll learns of the sockets once all are registered.  A
\* number closed meanwhile and used again on the same line is added only once.
Armar(t) ==
    /\ pc[t] = "armar"
    /\ epoll' = [f \in Descriptores |->
                    IF enchufe[f] # Nulo /\ epoll[f] = NoArmado /\ PrimeroCon(lista[t], f) # {}
                    THEN [con |-> CHOOSE c \in PrimeroCon(lista[t], f) : TRUE, ev |-> "OUT"]
                    ELSE epoll[f]]
    /\ lista' = [lista EXCEPT ![t] = <<>>]
    /\ FinLinea(t)
    /\ UNCHANGED <<planif, entrada, contexto, enchufe, tcp, proveedor, buzon, fallas,
                   historia>>

\* liberar_job: RELEASE, shutdown and close on the descriptor in the context,
\* whose memory may have been freed by then: the number read is arbitrary.
Cortar(t) ==
    /\ pc[t] = "cortar"
    /\ LET c == Head(lista[t])
       IN  /\ \E f \in IF tipo[c] = "libre" THEN Descriptores \cup {0} ELSE {fd[c]} :
                 CerrarFd(f)
    /\ lista' = [lista EXCEPT ![t] = Tail(@)]
    /\ IF Len(lista[t]) = 1 THEN FinLinea(t) ELSE UNCHANGED <<pc, con, trab, erlang>>
    /\ UNCHANGED <<planif, entrada, contexto, proveedor, fallas, revocadas,
                   olvidadas, tardias, cruzados>>

-----------------------------------------------------------------------------
(* Threads: the events of an outgoing connection *)

Listo(f) ==
    LET c == enchufe[f]
    IN  /\ c # Nulo
        /\ \/ epoll[f].ev = "OUT" /\ tcp[c] \in {"conectado", "roto"}
           \/ epoll[f].ev = "IN" /\ (buzon[c] # <<>> \/ tcp[c] = "roto")

Evento(t, f) ==
    /\ pc[t] = "libre"
    /\ Listo(f)
    /\ Desarmar(f)
    /\ con' = [con EXCEPT ![t] = epoll[f].con]
    /\ Ir(t, IF tipo[epoll[f].con] = "saliente" THEN "salida" ELSE "leer")
    /\ UNCHANGED <<planif, erlang, entrada, contexto, enchufe, tcp, proveedor, buzon,
                   fallas, trab, lista, historia>>

\* CONEXION_SALIENTE: the RESERVE kept in the context is sent, or the end.
Salida(t) ==
    /\ pc[t] = "salida"
    /\ LET c == con[t]
           s == EnchufeDe(c)
       IN  \/ /\ Sano(s)
              /\ espera' = espera \cup {<<s, Trabajo(c)>>}
              /\ AnotarCruce(s, c, Trabajo(c))
              /\ tipo' = [tipo EXCEPT ![c] = "agente"]
              /\ Ir(t, "rearmar")
           \/ /\ ~ Sano(s)
              /\ Ir(t, "cerrar")
              /\ UNCHANGED <<espera, tipo, cruzados>>
    /\ UNCHANGED <<planif, erlang, entrada, fd, nucleo, tomada, buzon, fallas, con,
                   trab, lista, revocadas, olvidadas, tardias>>

\* CLIENTE_AGENTE_C: a line of the provider, nothing (EAGAIN), or the end.
Leer(t) ==
    /\ pc[t] = "leer"
    /\ LET s == EnchufeDe(con[t])
       IN  \/ /\ HayLinea(s)
              /\ trab' = [trab EXCEPT ![t] = Head(buzon[s]).job]
              /\ Ir(t, IF Head(buzon[s]).clase = "GRANTED" THEN "marcar" ELSE "negar")
              /\ buzon' = [buzon EXCEPT ![s] = Tail(@)]
              /\ AnotarCruce(s, con[t], Head(buzon[s]).job)
           \/ /\ ~ HayLinea(s) /\ Sano(s)
              /\ Ir(t, "rearmar")
              /\ UNCHANGED <<buzon, trab, cruzados>>
           \/ /\ ~ HayLinea(s) /\ ~ Sano(s)
              /\ Ir(t, "purgar")
              /\ UNCHANGED <<buzon, trab, cruzados>>
    /\ UNCHANGED <<planif, erlang, entrada, contexto, nucleo, proveedor, fallas, con,
                   lista, revocadas, olvidadas, tardias>>

\* tablajobs_recurso_granted
Marcar(t) ==
    /\ pc[t] = "marcar"
    /\ \/ /\ \E x \in EntradaDe(trab[t], con[t]) :
                entrada' = [entrada EXCEPT ![x] = "concedida"]
       \/ /\ EntradaDe(trab[t], con[t]) = {}
          /\ UNCHANGED entrada
    /\ Ir(t, "mirar")
    /\ AnotarTardia(t)
    /\ UNCHANGED <<planif, erlang, contexto, nucleo, proveedor, buzon, fallas, con,
                   trab, lista, revocadas, olvidadas, cruzados>>

\* tablajobs_job_granted, another critical section.
Mirar(t) ==
    /\ pc[t] = "mirar"
    /\ Ir(t, IF TodoConcedido(trab[t]) THEN "avisar" ELSE "rearmar")
    /\ UNCHANGED <<planif, erlang, entrada, contexto, nucleo, proveedor, buzon, fallas,
                   con, trab, lista, historia>>

\* JOB_GRANTED or JOB_DENIED: the planner minds it while it waits for one.
Avisar(t) ==
    /\ pc[t] \in {"avisar", "negar"}
    /\ estado' = [estado EXCEPT ![trab[t]] =
                    IF @ # "pedido" THEN @ ELSE IF pc[t] = "avisar" THEN "usando" ELSE "negado"]
    /\ Ir(t, "rearmar")
    /\ AnotarTardia(t)
    /\ UNCHANGED <<intento, lineas, erlang, entrada, contexto, nucleo, proveedor, buzon,
                   fallas, con, trab, lista, revocadas, olvidadas, cruzados>>

\* EPOLL_CTL_MOD on the descriptor in the context: it fails if that number is
\* not registered, and takes over the registration if another socket has it.
Rearmar(t) ==
    /\ pc[t] = "rearmar"
    /\ LET c == con[t]
       IN  epoll' = IF EnchufeDe(c) # Nulo /\ epoll[fd[c]] # NoArmado
                    THEN [epoll EXCEPT ![fd[c]] = [con |-> c, ev |-> "IN"]]
                    ELSE epoll
    /\ Volver(t)
    /\ UNCHANGED <<planif, erlang, entrada, contexto, enchufe, tcp, proveedor, buzon,
                   fallas, lista, historia>>

\* The end of a provider's connection purges the provider's node, unless it was
\* silent for so long that it is not in the node table any more.
Purgar(t) ==
    /\ pc[t] = "purgar"
    /\ \/ BorrarPorNodo(Host(con[t]))
       \/ Host(con[t]) \in Caidas /\ UNCHANGED <<entrada, olvidadas>>
    /\ Ir(t, "cerrar")
    /\ UNCHANGED <<planif, erlang, contexto, nucleo, proveedor, buzon, fallas, con,
                   trab, lista, revocadas, tardias, cruzados>>

Cerrar(t) ==
    /\ pc[t] = "cerrar"
    /\ CerrarFd(fd[con[t]])
    /\ tipo' = [tipo EXCEPT ![con[t]] = "libre"]
    /\ Volver(t)
    /\ UNCHANGED <<planif, erlang, entrada, fd, proveedor, fallas, lista, historia>>

\* A host that reserves here ends one of ITS connections, as it does whenever
\* one of its jobs is done: the same purge.
FinDeVecino(t, n) ==
    /\ pc[t] = "libre"
    /\ fallas < MaxFallas
    /\ fallas' = fallas + 1
    /\ BorrarPorNodo(n)
    /\ UNCHANGED <<planif, erlang, contexto, nucleo, proveedor, buzon, hilo,
                   revocadas, tardias, cruzados>>

-----------------------------------------------------------------------------
AtenderPlanificador(t) == TomarPedido(t) \/ TomarLiberacion(t) \/ LiberacionVacia(t)

Avanzar(t) ==
    \/ Registrar(t) \/ Armar(t) \/ Cortar(t)
    \/ Salida(t) \/ Leer(t) \/ Marcar(t) \/ Mirar(t) \/ Avisar(t)
    \/ Rearmar(t) \/ Purgar(t) \/ Cerrar(t)

Next ==
    \/ \E j \in Trabajos : Pedir(j) \/ Soltar(j)
    \/ \E c \in Contextos : ProvCierra(c)
    \/ \E c \in Contextos, j \in Trabajos : ProvConcede(c, j) \/ ProvDeniega(c, j)
    \/ \E n \in Caidas : ProvCae(n)
    \/ \E t \in Hilos :
          \/ AtenderPlanificador(t)
          \/ Avanzar(t)
          \/ \E f \in Descriptores : Evento(t, f)
          \/ \E n \in Vecinos : FinDeVecino(t, n)

Spec == Init /\ [][Next]_vars

-----------------------------------------------------------------------------
(* Properties *)

\* Every variable holds values of its kind.
TypeOK ==
    /\ estado \in [Trabajos -> {"libre", "pedido", "usando", "negado"}]
    /\ intento \in [Trabajos -> Nat]
    /\ lineas \in Seq([orden : {"JOB_REQUEST", "JOB_RELEASE"}, job : Trabajos, intento : Nat])
    /\ erlang \in BOOLEAN
    /\ entrada \in [Contextos -> {"no", "pedida", "concedida"}]
    /\ fd \in [Contextos -> Descriptores \cup {0}]
    /\ tipo \in [Contextos -> {"sin_crear", "saliente", "agente", "libre"}]
    /\ enchufe \in [Descriptores -> Contextos \cup {Nulo}]
    /\ tcp \in [Contextos -> {"sin_crear", "conectado", "roto", "cerrado"}]
    /\ epoll \in [Descriptores -> [con : Contextos \cup {Nulo}, ev : {"no", "IN", "OUT"}]]
    /\ espera \cup tomada \subseteq Contextos \X Trabajos
    /\ buzon \in [Contextos -> Seq([clase : {"GRANTED", "DENIED"}, job : Trabajos])]
    /\ pc \in [Hilos -> Etapas]
    /\ con \in [Hilos -> Contextos \cup {Nulo}]
    /\ trab \in [Hilos -> Trabajos \cup {Nulo}]
    /\ lista \in [Hilos -> Seq(Contextos)]

\* EPOLLONESHOT: no two threads are in the handler of one connection, and the
\* memory of its context is not freed under the thread that uses it.
UnHiloPorConexion ==
    \A t \in Hilos : con[t] # Nulo =>
        /\ tipo[con[t]] # "libre"
        /\ \A h \in Hilos \ {t} : con[h] # con[t]

\* A purge forgot a request of the job, or a GRANTED came after its entry was
\* gone, or a line of it went through a number that another socket has by now.
Perturbado(j) == j \in tardias \cup cruzados \/ \E c \in olvidadas : Trabajo(c) = j

\* A planner that runs its job holds every resource it asked for, across two
\* tables, two critical sections per GRANTED and any order of the answers,
\* unless the job was disturbed or a provider took a resource back: it crashed,
\* or saw the end of some connection of this host.
UsaLoReservado ==
    \A c \in Contextos :
        LET j == Trabajo(c)
        IN  estado[j] = "usando" /\ c[2] = intento[j] =>
                <<c, j>> \in tomada \/ c \in revocadas \/ Perturbado(j)

\* tablajobs_recurso_granted stops at the first entry that matches: a job has
\* one entry per destination, also when it is asked for again.
EntradaUnica ==
    \A x, y \in Contextos :
        entrada[x] # "no" /\ entrada[y] # "no" /\ Trabajo(x) = Trabajo(y)
            /\ Destino(x) = Destino(y) => x = y

\* A context whose connection is open and holds or awaits a reservation can
\* still be found by JOB_RELEASE, or is being closed.
Alcanzable(c) ==
    \/ entrada[c] # "no"
    \/ \E t \in Hilos : \/ pc[t] = "cortar" /\ c \in ToSet(lista[t])
                        \/ pc[t] = "cerrar" /\ con[t] = c

Huerfana(c) ==
    /\ tcp[c] = "conectado"
    /\ \E r \in espera \cup tomada : r[1] = c
    /\ ~ Alcanzable(c)

\* JOB_RELEASE reaches every reservation of its job, whatever sockets stale
\* numbers close or re-arm: only a purge leaves an open reservation that no
\* JOB_RELEASE will find.
SoloLaPurgaDejaHuerfanas ==
    \A c \in Contextos : Huerfana(c) => c \in olvidadas
=============================================================================
