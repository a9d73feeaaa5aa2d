# TLA+ models of the distributed resource manager

The program reserves cpus, memory and gpus of several machines for jobs. Each
machine runs an **agent** (C, threads and epoll) and a **planner** (Erlang). The
planner asks its agent for the nodes it knows, makes up jobs, and asks the agent
to reserve what each job needs; the agent asks the agents of the other machines,
over one TCP connection per reservation.

This directory holds TLA+ modules of the agent and of the planner, the TLC
configurations that check them and theorems that TLAPS proves about them. Paths
below are relative to the repository; each mapped definition has its lines in
`PROJECT.json`.

## 1. The system

| Component | State | Operations | What makes it correct |
|---|---|---|---|
| Resources and queues (`estructuras/recursos.c`, `cola.c`) | per resource: capacity, free units, FIFO of waiting requests, a mutex | `reservar_recurso`, `liberar_recurso`, `liberar_recursos_reservados`, `limpiar_solicitudes_nodo` | no unit is lost or made up; no request is passed, served twice or forgotten |
| Job table (`tablajobs.c`) | entries by job and by node; `JOB_REMOTO`: units given to others, `JOB_LOCAL`: units asked of others; one mutex | insert (merging by job), take one resource, delete by node, mark granted, is the job granted, release job | an entry exists as long as its connection; a job is granted when all its parts are |
| Node table (`tablanodos.c`) | hash table with chains that doubles, a list in order of arrival, a mutex | insert or refresh, search, delete expired, list | list and chains hold the same nodes; a search ends, and finds what is there; only silent nodes go |
| Protocol between agents (`manejadores.c`: `manejar_agente_c`) | the context of each connection | RESERVE, RELEASE as provider; GRANTED, DENIED as requester | at most one answer per request, to who asked; a grant stays backed |
| Protocol with the planner (`manejar_cliente_erlang`, `liberar_job`) | global `erlangFd` | JOB_REQUEST, GET_NODES, JOB_RELEASE | JOB_GRANTED once, only for a complete job |
| Event loop (`server.c`) | epoll registrations, worker threads | deliver, accept, re-arm, close and purge | one thread per connection; every handler ends; contexts are freed when nothing points at them |
| Discovery (`registrar_nodo`, `manejar_timer`, `anuncio_broadcast`) | - | announce every 5 s, take announcements in | a node that keeps announcing itself stays known |
| Planner (`job-scheduler/*.erl`) | job map, one process per job, mailboxes, one socket | rounds of jobs, request, wait 15 s, back off, retry | every job ends, what it got is released, the next round starts |
| Division into jobs (`manejador_recursos.erl`) | - | half of each node's resources, split at random | never more than half; requests in one global order |

**How they interact.** Threads share the two tables and the resources through
their mutexes; a resource's mutex is held while taking the job table's, never the
other way round. Agents talk by lines over TCP. The planner and its agent talk by
lines over one local connection. Announcements come by UDP and may be lost.

**What is hard.** A reservation is spread over three structures with different
mutexes, so that units are in transit between them while other threads run. A
request waits as a pointer to a connection that another thread may close. The end
of a connection triggers a purge of a whole node in several critical sections.
The node table mixes pointers, growth, expiry by a clock read early and memory
freed outside the lock. In the planner, answers race timeouts. The list of
hazards, each at its line and with the properties that would catch it, is in
`PROJECT.json`.

## 2. Modules

| Module | Models |
|---|---|
| `RecursosAgente` | one agent as provider: `recursos.c`, `cola.c`, the `JOB_REMOTO` side of `tablajobs.c`, RESERVE and RELEASE of `manejadores.c`, the worker threads of `server.c`, the requesters |
| `FondoRecursos` | what `recursos.h` promises: units and a queue per resource, the abstract specification of `RecursosAgente` |
| `Conteo` | sums and subsequences by counting, without recursion, so that they can be reasoned about with the laws of finite sets |
| `Solicitante` | one agent as requester: JOB_REQUEST and JOB_RELEASE, the `JOB_LOCAL` side of `tablajobs.c`, outgoing connections with their descriptors, GRANTED and DENIED |
| `TablaNodos` | `tablanodos.c` cell by cell, and the threads that use it |
| `DirectorioNodos` | what the header `tablanodos.h` promises: a map from address to last announcement |
| `RepartoRecursos` | `manejador_recursos.erl`: how nodes are cut into jobs |
| `PlanificadorErlang` | the processes of `job-scheduler/` and their mailboxes; extends `RepartoRecursos` |
| `Conteo_proofs` | the laws of `Conteo` |
| `RecursosAgente_proofs`, `RecursosAgente_pedidos_proofs` | theorems about the units an agent has, and about the requests it is asked |
| `Solicitante_proofs`, `Solicitante_uso_proofs` | theorems about contexts, descriptors and entries, and about what a job that runs holds |
| `PlanificadorErlang_proofs` | theorems about the lines of a job and the answers to it, and about the rounds and what their jobs ask for |
| `TablaNodos_punteros_proofs`, `TablaNodos_proofs` | what each pointer operation does to a table, and the theorems about its executions |
| `MCRecursosAgente`, `MCSolicitante`, `MCTablaNodos`, `MCPlanificador` | instances for TLC |

The agent is split by role: a provider keeps nothing about its own jobs and a
requester nothing about what it gave, except the node-wide purge, which each
module shows from its side. Where a module meets another part of the system it
reduces it to what the module about that part shows: `Solicitante` has providers
that hold a resource for one job at a time and forget a node at the end of any of
its connections; `PlanificadorErlang` has an agent that may grant, deny, never
answer, or tell a grant after the release.

### RecursosAgente

A step is one critical section, or the code between two of them. `Hilos` are the
threads of `gestionar_epoll`; `pc[t]` is where in a handler thread t is and
`"espera"` is `epoll_wait`. `con[t]` is the connection it was handed:
`Entregable` is EPOLLONESHOT, `Rearmar` the `EPOLL_CTL_MOD`. A resource's mutex is
a variable because one path (`Denegar`, recursos.c:116) keeps it; the job table's
is not, every use of it being inside one step.

| Code | Actions |
|---|---|
| accept, RESERVE read, ignored if the node is unknown | `Aceptar`, `LeerReserve` |
| `reservar_recurso`: granted, queued, denied; the answer | `Conceder`, `Encolar`, `Denegar`; `Responder` |
| RELEASE: `tablajobs_restar_recurso`, then lock and return, promote, unlock, notify | `LeerRelease`, `Devolver`, `Promover`, `FinPromover`, `Notificar`, `FinNotificar` |
| `read` returns 0: purge the node if known, close, free | `LeerFin`, `Desvincular`, `Limpiar` (one per resource), `Reponer` (one per entry and resource), `FinPurga`, `Cerrar` |
| GET_NODES deletes expired nodes | `Expirar`, then the same purge |
| an announcement | `Anunciar` |
| the requester: `liberar_job`, or its crash | `ParLibera`, `ParCae` |

Each connection stands for its RESERVE (`Pedido`: job, node, resource, units): the
requester opens one per dependency (manejadores.c:311-327). The uninitialised
`rec[4]` of `liberar_job` is the nondeterministic `RecIndefinido`. A promoted
request whose context was freed is answered to nobody or to any live connection.
The order in which a purge visits nodes and entries is left to CHOOSE; no property
depends on it.

`FondoRecursos` is the abstract specification: a request that fits an empty-queued
resource takes its units, another one waits at the end, the head is served when
it fits, units that were out come back, requests withdraw and the others keep
their order. `ImplementaFondo` maps `libres` to `cantDisp` and `esperan` to `cola`:
each critical section is one step of the pool, everything else stutters.

### Solicitante

Three structures meet here: the job table, the contexts of connections and the
descriptors. A context (`Contextos`: job, attempt, destination) remembers a
descriptor number; `enchufe` says whose socket each number is now, `DescriptorNuevo`
is the lowest free number, as the kernel gives, and `epoll` maps a number to the
context it was registered with. A socket may fail at once (`CrearSocket`): its context
keeps the number -1, written 0 here, is in no epoll and still has its entry. So a thread that re-arms or closes a number after
another one closed it acts on the socket that has it then, as the code does.

| Code | Actions |
|---|---|
| JOB_REQUEST: a socket, a context and an entry per dependency, then all are added to epoll | `TomarPedido`, `Registrar`, `Armar` |
| JOB_RELEASE: the entries leave the table together, then each connection is shut and closed | `TomarLiberacion`, `LiberacionVacia`, `Cortar` |
| `gestionar_epoll`, EPOLLONESHOT | `Evento` (`Desarmar`), `Rearmar` |
| the socket is writable: RESERVE, or the connection failed | `Salida` |
| `read`: a line, nothing, the end | `Leer` |
| GRANTED: mark the entry; is the job granted; tell the planner | `Marcar`, `Mirar`, `Avisar` |
| DENIED | `Avisar` |
| the end of a provider's connection | `Purgar`, `Cerrar` |
| the end of a connection the neighbour had opened | `FinDeVecino` |

The planner releases whenever it likes (`Soltar`) and asks again under the same id
(`Pedir`) once its lines were read: it sleeps at least 300 ms before it does.
Contexts are named by attempt and never reused, so stale ones can be told apart;
memory that was freed is `"libre"` and a number read from it is arbitrary.
`revocadas`, `olvidadas`, `tardias` and `cruzados` are history: no guard reads them.

### TablaNodos

`tabla.celda` is the memory: each cell free (`NULO`) or a `NodoActivo` with its four
pointers; `Seguir` walks a field, as the cells met in at most as many steps as there is
memory (`Pasos`, a recursive function: a walk that went round would have that many
cells). `Insertar`, `Redimensionar`, `DeLista` and
`DeCadena` write the pointers in the order of the code. A search takes a step to
lock and start and a step to end; the loop at tablanodos.c:203 does not advance,
so at a cell of another address there is no step to take. `BorrarExpirados`
judges by a clock read before the lock (`PedirNodos`), and `Purgar` frees cells
with the lock released. Of `DatosNodo` only the address is kept: the port and the
resources are text here.

`DirectorioNodos` is the abstract specification: announcing, forgetting every
address silent for longer than `Vida` by some past reading of the clock, listing
each known address once. `ImplementaDirectorio` is the refinement: `visto` is
read off the cells in the list.

### RepartoRecursos and PlanificadorErlang

Chance is a set: `Cortes` gives every way `asignar_recursos_random` may cut a node's
half, `Repartir` every way pieces may be dealt to jobs. Both are recursive functions.

The planner's processes share nothing but mailboxes, each a sequence, and links.
The sender process and the socket preserve order: `canal` is both. The receiver
forwards each line at once: `Responder` puts an answer in the mailbox it is for.

| Code | Actions |
|---|---|
| `scheduler/0` | `PedirNodos`, `RecibirNodos`, `Crear` and `Agregar` per job, `EsperarFin`, `OtraRonda` |
| `job_server/1` | `Servir` |
| `adquirir_loop/3` | `Solicitar`, `Concedido`, `Denegado`, `Vencer` |
| `manejar_fallo/3`, `aplicar_timeout/2` | `Vencer` (release, then give up or rest), `Reintentar` |
| `ejecutar_trabajo/1`, `remover_job/1` | `Terminar`, `Quitar` |
| ten minutes of silence; the log process fails; links | `Silencio`; `Denegado`, `RecibirNodos`; `Caer`, `Abandonar` |
| the agent | `AgenteLee`, `AgenteConcede`, `AgenteDeniega` |

`registro = "veneno"` is the moment between a malformed or fatal entry and the exit
of the log process. `vez` and `permiso` are history: the program's lines carry no
attempt number, which is what the run `permiso` is about. `PasaElTiempo` is the one
timing assumption: a sleep or timeout (300 ms at least) does not end while the
scheduler is inside its loop over the jobs of a round, or while the log process is
about to fail; nor does the agent answer then.

## 3. What is checked

Passing runs (two threads wherever there are threads, so that every pair of
critical sections can interleave; a third repeats what the second does and
multiplies the states beyond what TLC finishes):

| Run | Instance | Properties |
|---|---|---|
| `seguridad` | 3 connections: a job of node a asking 2 of 2 cpus and 2 of 1 memory (always denied), a job of node b; all requesters may give up or crash, b may expire, RELEASE may name cpu or nothing. About 1.4 million states | `TypeOK`; `Conservacion`: free + recorded + in-transit units = capacity; `SolicitudUnica`: a request is in one place; `SoloLaPurgaPierdeDespertares`: a servable head is left waiting only by a purge; `ImplementaFondo`: the agent is the abstract pool |
| `impaciencia` | 3 connections, two of one node, cpus contended, nothing exceeds the machine, nobody expires, requesters may close early | `ColaViva`: queued requests point at live contexts; `SinAdelantamiento`; `AtencionTermina`: every handler ends; `FinLiberaContexto`: a closed connection is freed |
| `concesiones` | 4 connections: node a has one for each of two jobs, node b uses one of those job ids, node d shares nothing; the first may be closed before its answer; three of them compete for the cpus | `RespuestaUnica`: at most one answer of its own, none while waiting, and strays only from jobs that are over; `ConcesionRespaldada`: an entry holds exactly what its job was granted |
| `solicitante` | two jobs, one of two resources on two hosts, one of one of them; two requests in all (a retry, or both jobs at once), released at any time; one host may crash, refuse a connection, make a socket fail at once, leave the node table, or end a connection of its own; one resource may be denied. 5.8 million states up to the exchange of threads | `TypeOK`; `UnHiloPorConexion`: no two threads in one connection's handler, no context freed under its thread; `UsaLoReservado`: a job that runs holds all it asked for; `EntradaUnica`: one entry per destination; `SoloLaPurgaDejaHuerfanas`: JOB_RELEASE reaches every reservation |
| `tabla_nodos` | 3 addresses in one chain of 2 and of 4, two of them still together in 8; clock 0..2 with `Vida` 1; 6 cells | `TypeOK`; `Coherencia` of list, chains and load; `SinColgados`: nothing freed is linked; `BusquedaCorrecta`; `ImplementaDirectorio` |
| `planificador` | two nodes whose halves make one piece and one or two, so rounds of one and two jobs, three jobs in all; one retry; listings that are full, empty or lost; job 1 may be denied. 740 thousand states | `TypeOK`; `MitadDeCadaNodo`: over the rounds never more than half of a node is asked for; `PermisoVigente`: a grant of the last request is backed; `SinReservasOlvidadas`: every way a job ends or retries releases; `RepartoExacto`: a round asks for exactly half; `EsperaTermina`: the scheduler never waits for ever, and goes on only when no job is left |

Bounds: capacity 2 cpus, 1 memory, 0 gpu is the smallest where a request fills a
resource, two share it, and one exceeds it. Connections and contexts are used
once, so no counter needs a bound there. `MaxFallas` 1 in `solicitante` is one crash
or end per behaviour; `MaxPedidos` 2 is a retry with the leftovers of the first attempt,
or two jobs that contend for a resource and for each other's descriptors.
`INTENTOS_HASTA_DESCARTAR` is 1 instead of 2 (one retry instead of two) and `GB` 2
instead of 1024; `MaxTrabajos` ends the rounds. `MaxTiempo` stops the clock of
`tabla_nodos`; a node announced at 0 is silent too long at 2, and one announced at 1
or 2 is not. The table starts with 2 chains instead of 503 so that three nodes make
it grow twice. Deadlock is not checked where the system really stops: a denied
request blocks threads, the clock and searches stop, the requests of `solicitante`
and the jobs of `planificador` come to their bound.

**Preconditions that matter.** `AtencionTermina` holds in `impaciencia` because no
request exceeds the machine. `ColaViva` needs that no node expires, which is what its
theorem assumes. `RespuestaUnica` and `ConcesionRespaldada` assume nothing about nodes,
jobs or requesters; they say in the property until when they speak of a job.
`RespuestaUnica` does until the agent comes to the end of a connection of the job
(`EnMarcha`): a request whose context was freed between its promotion and its answer is
answered wherever the descriptor read leads. That an answer comes is not claimed: a
RESERVE of an unknown node, or one that a purge removes, gets none.
`ConcesionRespaldada` speaks of a job until a node with a share in it may expire, or
the agent comes to the end of a connection of such a node (`Intacto`): an entry carries
the name of one of the nodes that use its id, and the end of any connection of a node,
for another job too, purges the entries of its name. Neither condition can be weakened:
without it, or asking only for open connections of the job itself or of the entry's
node, TLC finds counterexamples in `concesiones`.
`UsaLoReservado` excepts jobs that were disturbed. A purge of the node removed an entry
(`olvidadas`); a GRANTED was handled when the entry of its connection was gone
(`tardias`); the provider took the resource back (`revocadas`); or a line of the job
went through a number that another connection had by then (`cruzados`). Each exception
is a way the code really goes wrong, listed in the hazards: with any of them removed
TLC finds a counterexample. For `cruzados` that takes three requests (`MaxPedidos` 3):
a thread that is about to send the RESERVE of a released job sends it on the socket
that has its number now, the provider there grants it, and `tablajobs_job_granted`,
true of a job without entries, has the planner told. The run stops at two requests;
that the four exceptions are all there are, for any number of requests, is the theorem
`UsaLoReservadoSiempre`. `SoloLaPurgaDejaHuerfanas` says of reservations nobody can
release that only a purge of the node leaves them.

**Fairness.** In `RecursosAgente` (`SpecJusta`) a thread inside a handler keeps
running, unless it waits for a mutex: weak fairness of `Avanzar(t)`. A readable
connection is handed to some thread in the end: weak fairness of `Atender` per
connection, which is what level-triggered one-shot epoll with idle threads gives.
Mutexes are not assumed to be fair, requesters need not close and announcements
need not come. In `PlanificadorErlang` the Erlang scheduler runs what can run and the
agent reads what it is sent: weak fairness of the whole planner together with
`AgenteLee`. The agent need never answer about a job: the timeouts must do.

**Violating runs**, each a disagreement between the code and what its own
comments, log lines or tests say (quoted in `PROJECT.json`):

| Run | Shows |
|---|---|
| `candado` | `reservar_recurso` denies without unlocking: the next use of the resource blocks its thread for ever |
| `limpieza` | a promotion between the two halves of a node's purge leaves an entry whose connection is closed, with its units |
| `purga_nodo` | the end of one connection deletes the waiting request of another connection of the node |
| `busqueda` | a search that meets another address first in its chain never ends and holds the mutex |
| `permiso` | the grant of a request that timed out is taken for the answer to the retry: a job works with nothing reserved |
| `registro` | a denied job writes a malformed log entry that ends the whole planner: no further round comes. With `Negables` empty the property holds |

Each property of a passing run has a mutant: a faulty variant of one definition
(`Falla...`, beside what they replace) under which TLC finds it violated.

## 4. What is proved

`RecursosAgente_proofs` proves, for any finite sets of threads and jobs, any
connections and nodes, and any capacity and requests (`CapacidadAssumption`,
`PedidoAssumption`, `ConjuntosAssumption`, `NuloAssumption`):

* `TiposCorrectos`: `Spec => []TypeOK`. `cantDisp` is in Nat, so the unsigned counter
  never wraps. `TypeOK` alone is not inductive: `Responder` sends on `con[t]`, so
  `ConEnUso` (a thread that decides, answers or closes has a connection) is needed.
* `ConservacionSiempre`: `Spec => []Conservacion`. The inductive invariant is
  `IInv == TypeOK /\ ConEnUso /\ ColaPropia /\ PurgaOrdenada /\ Conservacion`.
  `ColaPropia` (a queue holds requests for its resource) is what makes a promotion
  take from the pool the units it records; `PurgaOrdenada` says when a thread's
  units in transit are zero, so that overwriting them loses none. The proof has
  a lemma per movement of units (grant, RELEASE, return, unlink, restore).
* `OrdenDeLlegada`: `Spec => SinAdelantamiento`, from the same invariant.
* `AgenteEsFondo`: `Spec => ImplementaFondo`. One lemma per action of the pool; that units
  which come back were out is `NadaSobra`, a consequence of `Conservacion`, and that
  `Promover` serves a request of the queue's own resource is `ColaPropia`.

`Solicitante_proofs` proves, for any threads, jobs, destinations and attempts with
finitely many contexts (`PideAssumption`, `NuloAssumption`, `FinitudAssumption`):

* `TiposSolicitante`: `Spec => []TypeOK`. It needs that the kernel finds a free number
  (`HayNumero`: there are as many numbers as contexts, each open socket has its own,
  and a context yet to be created, `SinNumero`, has none) and that no list is empty when its head is used.
* `UnHiloSiempre`: `Spec => []UnHiloPorConexion`. The inductive part is `Numeros`: a number
  leads to the context that has it, and epoll hands out a context only while no
  thread has it. `EnCreacion` adds that nobody has a context before JOB_REQUEST
  registers it.
* `EntradaUnicaSiempre`: `Spec => []EntradaUnica`, from `Creacion`: entries belong to the
  last attempt of a job the planner has, or whose JOB_RELEASE is in the queue (`Suyo`).
  `PedidosNuevos` carries that through the queue of unread lines.
* `SoloLaPurgaSiempre`: `Spec => []SoloLaPurgaDejaHuerfanas`, from `Abiertos`: an open socket
  is where its context says, and its entry is in the table, in the list of a
  JOB_RELEASE, about to be closed, or purged.

`IInv` is the conjunction of all but `Abiertos`; each part has a lemma, with a step
per action. What a thread leaves alone while it handles a line or a connection is
said once (`MarcoLinea`, `MarcoHilo`, `MarcoDatos`).

`RecursosAgente_pedidos_proofs` follows one request from its RESERVE to its answer:

* `SolicitudUnicaSiempre`: `Spec => []SolicitudUnica`. The invariant `UInv` adds to `IInv`
  that a connection has one thread at most, carries one RESERVE, that queues and
  promotions repeat nothing, and `Lugares`: not read, waiting, promoted and being
  decided exclude each other. No step brings a request back to one of them
  (`NadaVuelve`), which is what the answers below rest on.
* `DespertaresSiempre`: `Spec => SoloLaPurgaPierdeDespertares`, an action property, from
  `UInv`: every step but a purge's that frees units or moves the queue leaves a thread
  that promotes.
* `RespuestaUnicaSiempre`: `Spec => []RespuestaUnica`. `RInv` adds that, while its job is
  under way, an answered request is in no place any more and has the one answer, and
  that the answers which name other jobs name jobs that are over (`Contestadas`); that
  contexts are freed at the end of their connection (`FinDeContextos`) by a thread that
  read all of it (`FinesLeidos`), and that such an end is for good (`TerminadaSigue`): so
  a thread that answers through a freed context answers for a job that is over.
* `ColaVivaSiempre`, if no node expires. `VInv` adds how far the purge at the end of a
  connection has come when its context is freed (`FinConPurga`), and that only known
  nodes have requests.
* `ConcesionRespaldadaSiempre`: `Spec => []ConcesionRespaldada`. `CInv` adds to `RInv` that a
  RELEASE is the last line of a closed connection (`ReleaseAlFinal`), so that reading it
  is the end of it; that a node is purged because it expired or a connection of it ended
  (`PurgasConMotivo`); and that an entry has the name of a node with a request in its job
  (`EntradasConDueno`). A step that records a request adds its units to both sides, since
  it was not granted before (`DadaAlInsertar`, from `Lugares` and `Contestadas`); no other
  step grants (`DadaResto`) or touches the entry of an undisturbed job (`EntradaPaso`).

`Solicitante_uso_proofs` proves `UsaLoReservadoSiempre`: `Spec => []UsaLoReservado`. Its
invariant `UInv` follows a GRANTED back to the reservation (`Reservas` at the provider,
`Cartas` on the way, `Manos` in a thread, `Marcadas` in the table), or to the noted
exception; and says why all entries are there when the last is marked: the contexts of
a request are created by one thread from one list (`Recorrido`), a request is incomplete
only while that thread is at it, when no thread can have a connection of it
(`Completas`), and entries go together but for a purge (`Juntas`). `Avisos` keeps what
`Mirar` saw until `Avisar` writes, another critical section.

`PlanificadorErlang_proofs` proves, for any nodes, listings and numbers of jobs and
attempts:

* `TiposPlanificador`: `Spec => []TypeOK`, with the forms of messages and that a job
  that rests has attempts left (`TInv`).
* `PermisoVigenteSiempre` and `SinReservasOlvidadasSiempre`, from `OInv`: the lines of a job
  are read in order, so its last line tells what the agent will hold. `Suelta` (it ends
  with a release), `Pedida` (with its request), `Hasta` (nothing anywhere is of a later
  attempt) and `Vigente` (a grant of this attempt is on its way, and no line that
  undoes it) are what each state of the job keeps.

* `RepartoExactoSiempre`: `Spec => RepartoExacto`, besides for any capacities and any unit
  of memory. `Cortes` and `Repartir` recur over what is left to cut and to share out. An
  operator cannot be a parameter of a lemma the provers use, so a recursion is data:
  the record `Cortando`, or `Repartiendo`, has the options at each point, what each puts
  in the sequence and where it leads. `HayReparto` says that such a recursion has a
  solution when each option leads lower (fewer units left, `CortandoBaja`; fewer pieces,
  `RepartiendoBaja`), `CortesDef` and `RepartirDef` that `Cortes` and `Repartir` are those,
  and `PesoDeReparto` that what is built weighs what it is built from when each option
  loses what it puts in the sequence.
* `MitadSiempre`: `Spec => []MitadDeCadaNodo`, from `MInv`. A bound on what the agent has
  now is not inductive, since the lines on their way change it; the invariant is about
  every prefix of them: `Retienen(k)` are the jobs that hold something once the first k
  lines are read, and they fit in half of each node. So reading a line, and a fall that
  loses the last lines, keep it, and only a new request has to be shown to fit: it is
  of the round (`EnRonda`), and so is every job that does not end its lines with a
  release (`Suelta`, of `OInv`). A round, in turn, fits by `RepartoExacto`'s lemmas if it
  starts when no job of the former one is left (`SinNadie`). That rests on what the job
  server hears: `Avisos` follows each job from its process to the messages that add and
  remove it, says that no job ends while the scheduler creates, hence all are added
  before one is removed (`AltasAntes`), and that the server says once, and truly, that the
  map is empty (`UnAviso`, `Hecho`). It holds while the log process lives, which is
  where the timing assumption `PasaElTiempo` is used. The lines of the jobs are some
  function `L`, which a new round redefines for the jobs it creates.

`Conteo_proofs` proves the laws of `Suma` these rest on (a sum changes by what one of
its values changes, does not depend on the names of its elements, and is no more over
fewer of them) and that a subsequence of a sequence is one.

`TablaNodos_proofs` proves, for any threads and addresses, any hash, initial capacity and
`Vida`, and memory for twice as many cells as addresses (`HashAssumption`,
`CapAssumption`, `CeldasAssumption`, `NodoAssumption`; the assumption on memory stands
for the assert on `malloc`: one cell per address in the table and one per address to
purge are all that can be in use):

* `TiposTabla`, `CoherenciaSiempre` and `SinColgadosSiempre`: `Spec => []TypeOK`,
  `[]Coherencia` and `[]SinColgados`.
* `BusquedaSiempreCorrecta`: `Spec => BusquedaCorrecta`.
* `TablaImplementaDirectorio`: `Spec => ImplementaDirectorio`, with one lemma per action of
  the directory about what the cells say (`Dice`) before and after.

The properties speak of walks, and no step of the code can be followed through a walk;
so the invariant `Inv` says the same cell by cell. `FormaLista` and `FormaCadenas`:
every cell is the successor of its predecessor and the predecessor of its successor,
only heads lack one, and a rank grows along the pointers, which is what says that they
never go round; the rank is some function, and each operation gives the next one. `Buena`
is both over the same cells, of distinct addresses, as many as `num`. `ListaForma` and
`CadenaForma` are the way back: over such cells a walk meets each once, in order.
`TablaNodos_punteros_proofs` has these, one lemma per pointer operation on the part it
writes and on the part it leaves (`EnCadena`, `AlFinal`, `DeLista`, `DeCadena`), and from
them that `Insertar`, `Redimensionar` and `Barrido` keep `Buena`, for lists of any length.
`Inv` adds where each thread may be (`HInv`: one thread at most serves GET_NODES, and only
a search keeps the mutex), that the cells to purge are in use, listed once and of
addresses that differ from each other (`PInv`, hence the room for the next announcement),
that the table holds the other cells in use (`FInv`), and that a search stands at the
head of its chain (`BInv`).

Induction over numbers is taken from the least element of a set (`Minimo`, `HastaN`),
which the provers can use where they cannot instantiate the library's rule.

Only model-checked: the liveness properties `AtencionTermina`, `FinLiberaContexto` and
`EsperaTermina`, which the prover does not reach. Every other property of the passing runs is
proved.

## 5. Not modelled

* Formatting and parsing of lines, log output, setting up sockets, the timer.
* Batches of epoll events: a thread takes one event at a time. A thread that blocks
  in a batch delays the rest of it.
* Overflow of line buffers; a RESERVE naming an unknown resource, which the planner
  does not send; a requester that sends several RESERVEs on one connection.
* The end of the planner's connection and a second one (`erlangFd`), whose requests the
  agent would mix with those of the first. In `PlanificadorErlang` the planner's fall
  is modelled, its restart is not.
* A JOB_REQUEST that names a host which left the node table: a slot of an array stays
  uninitialised and the program has no defined behaviour from there. `Solicitante` asks
  only for hosts in the table, though the purge at the end of a connection may find that
  its host left it since (`Purgar`).
* The use of a `DatosNodo` after the table's mutex is released: `TablaNodos` has the
  memory, the other modules have the users, and no module has both.
* Several agents composed. Two jobs of different planners that have the same id share
  an entry at a provider (tablajobs.c:51); `seguridad` has two connections of one job,
  the requesters are there but not their tables.
* The answer JOB_TIMEOUT, which the planner handles and no agent sends; the order of
  the requests in a line, which the agent sends all at once; a failing connect or
  send of the planner.
* The chains of `tablajobs.c` are abstracted to functions. The `destruir` functions are
  never called.

## 6. Plan

Done: all the modules of section 2, the two refinements, and proofs of every safety
property of the passing runs. Left, in order:

1. `Cluster`: two agents composed from `RecursosAgente` and `Solicitante` over one
   network, for circular waits and shared job ids.
2. A restart of the planner, with job ids that come again.
