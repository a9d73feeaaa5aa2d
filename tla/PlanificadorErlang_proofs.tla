---------------------- MODULE PlanificadorErlang_proofs ----------------------
(***************************************************************************)
(* Theorems about PlanificadorErlang, for any number of jobs and attempts, *)
(* any nodes and listings, and whatever the agent answers.                 *)
(***************************************************************************)
EXTENDS PlanificadorErlang, Conteo_proofs

-----------------------------------------------------------------------------
(* The invariant: what messages are *)

\* Attempts are numbered from 1.
Veces == 1..(INTENTOS_HASTA_DESCARTAR + 1)

\* What a job may be answered, and what the server may receive.
ClasesRespuesta == {"JOB_GRANTED", "JOB_DENIED"}
Respuestas == [clase : ClasesRespuesta, job : Trabajos, vez : Veces]
Mensajes == [clase : {"add", "remove"}, job : Trabajos] \cup Respuestas

\* A line to the agent; a request also says what for.
EsLinea(m) ==
    \/ m.clase = "GET_NODES" /\ m.job = 0
    \/ m.clase = "JOB_RELEASE" /\ m.job \in Trabajos
    \/ m.clase = "JOB_REQUEST" /\ m.job \in Trabajos /\ m.vez \in Veces

\* A sequence, of whatever it has.
EsSeq(s) == s \in Seq(ToSet(s))

\* What the agent has of a job is nothing, or one of its requests.
EsFicha(f) ==
    \/ f = SinPedido
    \/ /\ f = [est |-> f.est, vez |-> f.vez, pide |-> f.pide]
       /\ f.est \in {"pedido", "concedido", "negado"}
       /\ f.vez \in Veces

Formas ==
    /\ EsSeq(canal) /\ \A m \in ToSet(canal) : EsLinea(m)
    /\ buzonServ \in Seq(Mensajes)
    /\ buzon \in [Trabajos -> Seq(Respuestas)]
    /\ agente = [j \in Trabajos |-> agente[j]]
    /\ \A j \in Trabajos : EsFicha(agente[j])

\* Jobs are created in order, and one that rests has attempts left.
Numerados ==
    /\ \E n \in 0..MaxTrabajos : Creados = 1..n
    /\ sched \notin {"pide", "muerto"} => MaxTrabajos > 0
    /\ sched = "agrega" => Creados # {}
    /\ \A j \in Trabajos : trab[j] = "descansa" => intentos[j] < INTENTOS_HASTA_DESCARTAR

TInv == TypeOK /\ Formas /\ Numerados

-----------------------------------------------------------------------------
(* The invariant: the order of the lines of a job, and of its answers *)

\* No line of job j is on its way; the line k is its last.
SinLineas(j) == \A i \in DOMAIN canal : canal[i].job # j
Ultima(j, k) ==
    /\ k \in DOMAIN canal /\ canal[k].job = j
    /\ \A i \in DOMAIN canal : i > k => canal[i].job # j

\* A job that asked for nothing since it released what it had.
Suelta(j) ==
    \/ SinLineas(j) /\ agente[j] = SinPedido
    \/ \E k \in DOMAIN canal : Ultima(j, k) /\ canal[k].clase = "JOB_RELEASE"

\* A job whose last line is its request: until it is read, the agent has former
\* ones at most.
Pedida(j) ==
    \/ SinLineas(j)
    \/ \E k \in DOMAIN canal :
          /\ Ultima(j, k) /\ canal[k].clase = "JOB_REQUEST"
          /\ agente[j].vez <= intentos[j]
          /\ \A i \in DOMAIN canal :
                i < k /\ canal[i].job = j /\ canal[i].clase = "JOB_REQUEST" =>
                    canal[i].vez <= intentos[j]

\* An answer to job j, in the mailbox of the server or in its own.
Contesta(m, j) == m \in ToSet(buzonServ) /\ m.job = j /\ m.clase \in ClasesRespuesta
DeCamino(m, j) == Contesta(m, j) \/ m \in ToSet(buzon[j])

\* Nothing anywhere is of an attempt of j after the first v.
Hasta(j, v) ==
    /\ \A m \in ToSet(buzonServ) \cup ToSet(buzon[j]) : DeCamino(m, j) => m.vez <= v
    /\ \A m \in ToSet(canal) : m.job = j /\ m.clase = "JOB_REQUEST" => m.vez <= v
    /\ agente[j].vez <= v

\* The grant of the current request is on its way only if the agent holds what
\* it grants and there is no line that would change that.
Vigente(j) == agente[j].est = "concedido" /\ SinLineas(j)

EnOrden(j) ==
    /\ trab[j] = "sin_crear" =>
          /\ SinLineas(j) /\ agente[j] = SinPedido /\ intentos[j] = 0 /\ buzon[j] = <<>>
          /\ \A m \in ToSet(buzonServ) : ~ Contesta(m, j)
    /\ trab[j] \in {"pide", "descansa", "quita", "fin"} => Suelta(j)
    /\ trab[j] = "espera" => Pedida(j)
    /\ trab[j] = "pide" => Hasta(j, intentos[j])
    /\ trab[j] \in {"espera", "descansa"} => Hasta(j, intentos[j] + 1)
    /\ trab[j] = "espera" =>
          \A m \in ToSet(buzonServ) \cup ToSet(buzon[j]) :
              DeCamino(m, j) /\ m.clase = "JOB_GRANTED" /\ m.vez = intentos[j] + 1 => Vigente(j)

\* A job that works with the grant of its last request.
Trabaja(j) == trab[j] = "trabaja" /\ permiso[j] = intentos[j] + 1 => Vigente(j)

OInv ==
    /\ TInv
    /\ Vivo => \A j \in Trabajos : EnOrden(j)
    /\ \A j \in Trabajos : Trabaja(j)

-----------------------------------------------------------------------------
(* Mailboxes *)

\* A sequence over some set is one over what it has.
LEMMA DeUnConjunto ==
    ASSUME NEW C, NEW s \in Seq(C)
    PROVE  /\ EsSeq(s) /\ ToSet(s) \subseteq C
           /\ Len(s) \in Nat /\ DOMAIN s = 1..Len(s)
  <1>1. /\ Len(s) \in Nat /\ DOMAIN s = 1..Len(s)
        /\ \A i \in 1..Len(s) : s[i] \in C
    BY LenProperties, ElementOfSeq
  <1>2. s \in [1..Len(s) -> ToSet(s)]
    BY <1>1, LenProperties DEF ToSet
  <1>3. s \in Seq(ToSet(s))
    BY <1>1, <1>2, SeqDef
  <1>4. QED
    BY <1>1, <1>3 DEF EsSeq, ToSet

\* A message is put at the end.
LEMMA AlFinal ==
    ASSUME NEW s, EsSeq(s), NEW x
    PROVE  /\ EsSeq(Append(s, x))
           /\ Len(s) \in Nat /\ DOMAIN s = 1..Len(s)
           /\ DOMAIN Append(s, x) = 1..(Len(s) + 1)
           /\ \A i \in 1..Len(s) : Append(s, x)[i] = s[i]
           /\ Append(s, x)[Len(s) + 1] = x
           /\ ToSet(Append(s, x)) = ToSet(s) \cup {x}
  <1> DEFINE C == ToSet(s) \cup {x}
             q == Append(s, x)
  <1>1. s \in Seq(C)
    BY SeqMonotonic DEF EsSeq
  <1>2. /\ Len(s) \in Nat /\ DOMAIN s = 1..Len(s)
        /\ q \in Seq(C) /\ Len(q) = Len(s) + 1
        /\ \A i \in 1..Len(s) : q[i] = s[i]
        /\ q[Len(s) + 1] = x
    <2>1. x \in C
      OBVIOUS
    <2> HIDE DEF C
    <2>2. QED
      BY <1>1, <2>1, LenProperties, AppendProperties
  <1>3. EsSeq(q) /\ DOMAIN q = 1..(Len(s) + 1)
    BY <1>2, DeUnConjunto
  <1> HIDE DEF q
  <1>4. ToSet(q) = ToSet(s) \cup {x}
    <2>1. \A i \in 1..(Len(s) + 1) : i \in 1..Len(s) \/ i = Len(s) + 1
      BY <1>2
    <2>2. Len(s) + 1 \in 1..(Len(s) + 1) /\ 1..Len(s) \subseteq 1..(Len(s) + 1)
      BY <1>2
    <2>3. QED
      BY <1>2, <1>3, <2>1, <2>2 DEF ToSet
  <1>5. QED
    BY <1>2, <1>3, <1>4 DEF q

\* The first message is taken.
LEMMA SinElPrimero ==
    ASSUME NEW s, EsSeq(s), s # <<>>
    PROVE  /\ EsSeq(Tail(s))
           /\ Len(s) \in Nat \ {0} /\ DOMAIN s = 1..Len(s)
           /\ DOMAIN Tail(s) = 1..(Len(s) - 1)
           /\ \A i \in 1..(Len(s) - 1) : Tail(s)[i] = s[i + 1]
           /\ Head(s) = s[1] /\ Head(s) \in ToSet(s)
           /\ ToSet(Tail(s)) \subseteq ToSet(s)
           /\ ToSet(s) \subseteq ToSet(Tail(s)) \cup {Head(s)}
  <1>1. s \in Seq(ToSet(s))
    BY DEF EsSeq
  <1>2. /\ Len(s) \in Nat \ {0} /\ DOMAIN s = 1..Len(s)
        /\ Tail(s) \in Seq(ToSet(s)) /\ Len(Tail(s)) = Len(s) - 1
        /\ \A i \in 1..Len(Tail(s)) : Tail(s)[i] = s[i + 1]
    BY <1>1, LenProperties, EmptySeq, HeadTailProperties
  <1>3. Head(s) = s[1]
    BY <1>1
  <1>4. EsSeq(Tail(s)) /\ DOMAIN Tail(s) = 1..(Len(s) - 1) /\ ToSet(Tail(s)) \subseteq ToSet(s)
    BY <1>2, DeUnConjunto
  <1>5. ToSet(s) \subseteq ToSet(Tail(s)) \cup {Head(s)}
    <2> SUFFICES ASSUME NEW i \in 1..Len(s) PROVE s[i] \in ToSet(Tail(s)) \cup {Head(s)}
      BY <1>2 DEF ToSet
    <2>1. CASE i = 1
      BY <2>1, <1>3
    <2>2. CASE i # 1
      <3>1. i - 1 \in 1..(Len(s) - 1)
        BY <2>2, <1>2
      <3>2. Tail(s)[i - 1] = s[i]
        BY <3>1, <1>2
      <3>3. QED
        BY <3>1, <3>2, <1>4 DEF ToSet
    <2>3. QED
      BY <2>1, <2>2
  <1>6. Head(s) \in ToSet(s)
    <2>1. 1 \in DOMAIN s
      BY <1>2
    <2>2. QED
      BY <2>1, <1>3 DEF ToSet
  <1>7. QED
    BY <1>2, <1>3, <1>4, <1>5, <1>6

\* A prefix, of what the sender had written.
LEMMA Escritas ==
    ASSUME NEW s, EsSeq(s), NEW i \in 0..Len(s)
    PROVE  EsSeq(SubSeq(s, 1, i)) /\ ToSet(SubSeq(s, 1, i)) \subseteq ToSet(s)
  <1>1. s \in Seq(ToSet(s)) /\ Len(s) \in Nat
    BY LenProperties DEF EsSeq
  <1>2. \A k \in 1..i : s[k] \in ToSet(s)
    BY <1>1, ElementOfSeq
  <1>3. SubSeq(s, 1, i) \in Seq(ToSet(s))
    BY <1>1, <1>2, SubSeqProperties
  <1>4. QED
    BY <1>3, DeUnConjunto

\* A set of numbers that is not empty has a least one.
LEMMA MenorNumero ==
    ASSUME NEW T, T \subseteq Nat, T # {}
    PROVE  Min(T) \in T
  <1>1. PICK x \in T : \A y \in T : ~ (<<y, x>> \in OpToRel(<, Nat))
    BY NatLessThanWellFounded, WFMin
  <1>2. \A y \in T : ~ (y < x)
    BY <1>1 DEF OpToRel
  <1>3. \A y \in T : x <= y
    BY <1>2
  <1>4. QED
    BY <1>3 DEF Min

\* A selective receive leaves a mailbox of the same kind.
LEMMA Selectivo ==
    ASSUME NEW C, NEW s \in Seq(C), NEW e
    PROVE  RemoveFirst(s, e) \in Seq(C)
  <1>1. Len(s) \in Nat /\ \A k \in 1..Len(s) : s[k] \in C
    BY LenProperties, ElementOfSeq
  <1> DEFINE I == {i \in 1..Len(s) : s[i] = e}
  <1>2. CASE I = {}
    BY <1>2 DEF RemoveFirst
  <1>3. CASE I # {}
    <2>0. I \subseteq Nat
      OBVIOUS
    <2>1. Min(I) \in I
      BY <1>3, <2>0, MenorNumero
    <2>2. PICK k \in 1..Len(s) : k = Min(I)
      BY <2>1
    <2>3. RemoveFirst(s, e) = RemoveAt(s, k)
      BY <1>3, <2>2 DEF RemoveFirst, SelectInSeq
    <2>4. SubSeq(s, 1, k - 1) \in Seq(C) /\ SubSeq(s, k + 1, Len(s)) \in Seq(C)
      BY <1>1, SubSeqProperties
    <2>5. QED
      BY <2>3, <2>4, ConcatProperties DEF RemoveAt
  <1>4. QED
    BY <1>2, <1>3

-----------------------------------------------------------------------------
(* Forms *)

\* A number of attempts is one of an attempt after it, or none.
LEMMA Numeros ==
    /\ INTENTOS_HASTA_DESCARTAR \in Nat /\ MaxTrabajos \in Nat
    /\ \A v \in 0..INTENTOS_HASTA_DESCARTAR : v \in Nat /\ v + 1 \in Veces
    /\ \A v \in Veces : v \in Nat /\ v \in 0..(INTENTOS_HASTA_DESCARTAR + 1)
    /\ \A j \in Trabajos : j \in Nat /\ j # 0
  BY CotasAssumption DEF Veces, Trabajos

\* The next job to create, when the ones before it are.
LEMMA ElNuevo ==
    ASSUME Numerados
    PROVE  /\ Nuevo \in Nat /\ Creados = 1..(Nuevo - 1)
           /\ Nuevo - 1 <= MaxTrabajos
           /\ Nuevo \in Trabajos <=> Nuevo - 1 < MaxTrabajos
  <1>1. PICK n \in 0..MaxTrabajos : Creados = 1..n
    BY DEF Numerados
  <1>2. n \in Nat /\ MaxTrabajos \in Nat /\ n <= MaxTrabajos
    BY Numeros
  <1>3. Cardinality(1..n) = n
    BY <1>2, FS_Interval
  <1>4. Nuevo = n + 1
    BY <1>1, <1>3 DEF Nuevo
  <1>5. QED
    BY <1>1, <1>2, <1>4 DEF Trabajos

\* What the agent answers is a message of the server, or a listing.
LEMMA RespuestaTipo ==
    ASSUME TypeOK, Formas, NEW j \in Trabajos, agente[j].est = "pedido",
           NEW clase \in ClasesRespuesta, Responder(Respuesta(clase, j, agente[j].vez))
    PROVE  /\ buzonServ' \in Seq(Mensajes) /\ UNCHANGED buzonSched
           /\ Respuesta(clase, j, agente[j].vez) \in Respuestas
           /\ \/ UNCHANGED buzonServ
              \/ Vivo /\ buzonServ' = Append(buzonServ, Respuesta(clase, j, agente[j].vez))
  <1>1. agente[j].vez \in Veces
    BY DEF Formas, EsFicha, SinPedido
  <1>2. PICK v \in Veces : v = agente[j].vez
    BY <1>1
  <1> DEFINE m == Respuesta(clase, j, v)
  <1>3. m \in Respuestas /\ m.clase # "NODES"
    BY DEF Respuesta, Respuestas, ClasesRespuesta
  <1> HIDE DEF m
  <1>4. /\ UNCHANGED buzonSched
        /\ UNCHANGED buzonServ \/ (Vivo /\ buzonServ' = Append(buzonServ, m))
    BY <1>2, <1>3 DEF Responder, m
  <1>5. buzonServ \in Seq(Mensajes) /\ m \in Mensajes
    BY <1>3 DEF Formas, Mensajes
  <1>6. buzonServ' \in Seq(Mensajes)
    BY <1>4, <1>5, AppendProperties
  <1>7. QED
    BY <1>2, <1>3, <1>4, <1>6 DEF m

\* One more line keeps canal a sequence of lines.
LEMMA UnaLineaMas ==
    ASSUME Formas, NEW m, EsLinea(m), Enviar(m)
    PROVE  EsSeq(canal') /\ \A x \in ToSet(canal') : EsLinea(x)
  <1>1. canal' = Append(canal, m) /\ EsSeq(canal)
    BY DEF Enviar, Formas
  <1>2. EsSeq(canal') /\ ToSet(canal') = ToSet(canal) \cup {m}
    BY <1>1, AlFinal
  <1>3. QED
    BY <1>2 DEF Formas

\* Forms hold at the start.
LEMMA TInvInit == Init => TInv
  <1> SUFFICES ASSUME Init PROVE TInv
    OBVIOUS
  <1> USE DEF Init
  <1>1. TypeOK
    <2>1. buzonSched \in Seq({Lista(S) : S \in Listados} \cup {AllJobsDone})
      BY EmptySeq
    <2>2. \A i \in DOMAIN buzonServ : buzonServ[i].job \in Trabajos
      OBVIOUS
    <2>3. QED
      BY <2>1, <2>2, CotasAssumption DEF TypeOK, Etapas
  <1>2. Formas
    <2>1. buzonServ \in Seq(Mensajes) /\ <<>> \in Seq(Respuestas)
      BY EmptySeq
    <2>2. EsSeq(canal) /\ ToSet(canal) = {}
      BY EmptySeq DEF EsSeq, ToSet
    <2>3. QED
      BY <2>1, <2>2 DEF Formas, EsFicha
  <1>3. Numerados
    <2>1. Creados = {} /\ 0 \in 0..MaxTrabajos /\ 1..0 = {}
      BY Numeros DEF Creados
    <2>2. QED
      BY <2>1 DEF Numerados
  <1>4. QED
    BY <1>1, <1>2, <1>3 DEF TInv

\* The lines on their way are lines.
LEMMA CanalPaso ==
    ASSUME TInv, [Next]_vars
    PROVE  EsSeq(canal') /\ \A m \in ToSet(canal') : EsLinea(m)
  <1> DEFINE Meta == EsSeq(canal') /\ \A m \in ToSet(canal') : EsLinea(m)
  <1>0. TypeOK /\ Formas /\ EsSeq(canal) /\ \A m \in ToSet(canal) : EsLinea(m)
    BY DEF TInv, Formas
  <1>1. ASSUME UNCHANGED canal PROVE Meta
    BY <1>0, <1>1
  <1>2. ASSUME Enviar(Orden("GET_NODES", 0)) PROVE Meta
    <2>1. EsLinea(Orden("GET_NODES", 0))
      BY DEF EsLinea, Orden
    <2>2. QED
      BY <1>0, <1>2, <2>1, UnaLineaMas
  <1>3. ASSUME NEW j \in Trabajos, Enviar(Orden("JOB_RELEASE", j)) PROVE Meta
    <2>1. EsLinea(Orden("JOB_RELEASE", j))
      BY DEF EsLinea, Orden
    <2>2. QED
      BY <1>0, <1>3, <2>1, UnaLineaMas
  <1>4. ASSUME NEW j \in Trabajos, Solicitar(j) PROVE Meta
    <2>1. intentos[j] + 1 \in Veces
      BY <1>0, Numeros DEF TypeOK
    <2>2. EsLinea(Pedido(j, intentos[j] + 1, linea[j]))
      BY <2>1 DEF EsLinea, Pedido
    <2>3. QED
      BY <1>0, <1>4, <2>2, UnaLineaMas DEF Solicitar
  <1>5. ASSUME Caer PROVE Meta
    <2>1. PICK i \in 0..Len(canal) : canal' = SubSeq(canal, 1, i)
      BY <1>5 DEF Caer
    <2>2. QED
      BY <1>0, <2>1, Escritas
  <1>6. ASSUME AgenteLee PROVE Meta
    <2>1. canal # <<>> /\ canal' = Tail(canal)
      BY <1>6 DEF AgenteLee
    <2>2. QED
      BY <1>0, <2>1, SinElPrimero
  <1>7. ASSUME NEW j \in Trabajos, Trabajo(j) PROVE Meta
    BY <1>1, <1>3, <1>4, <1>7
       DEF Trabajo, Concedido, Denegado, Vencer, Reintentar, Terminar, Quitar, Abandonar
  <1>8. QED
    BY <1>1, <1>2, <1>5, <1>6, <1>7
       DEF Next, vars, Planificador, Scheduler, PedirNodos, RecibirNodos, Crear, Agregar,
           EsperarFin, OtraRonda, Servir, Silencio, Agente, AgenteConcede, AgenteDeniega

\* The mailbox of the server has messages for it.
LEMMA ServPaso ==
    ASSUME TInv, [Next]_vars
    PROVE  buzonServ' \in Seq(Mensajes)
  <1>0. TypeOK /\ Formas /\ Numerados /\ buzonServ \in Seq(Mensajes)
    BY DEF TInv, Formas
  <1>1. ASSUME NEW m \in Mensajes, buzonServ' = Append(buzonServ, m)
        PROVE  buzonServ' \in Seq(Mensajes)
    BY <1>0, <1>1, AppendProperties
  <1>2. ASSUME NEW clase \in {"add", "remove"}, NEW j \in Trabajos
        PROVE  Orden(clase, j) \in Mensajes
    BY DEF Orden, Mensajes
  <1>3. CASE Agregar
    <2>1. Nuevo - 1 \in Trabajos
      <3>1. Creados # {}
        BY <1>0, <1>3 DEF Agregar, Numerados
      <3>2. QED
        BY <1>0, <3>1, ElNuevo, Numeros DEF Trabajos
    <2>2. QED
      BY <1>1, <1>2, <1>3, <2>1 DEF Agregar
  <1>4. ASSUME NEW j \in Trabajos, Quitar(j) PROVE buzonServ' \in Seq(Mensajes)
    BY <1>1, <1>2, <1>4 DEF Quitar
  <1>5. CASE Servir
    <2>1. buzonServ # <<>> /\ buzonServ' = Tail(buzonServ)
      BY <1>5 DEF Servir
    <2>2. QED
      BY <1>0, <2>1, HeadTailProperties
  <1>6. CASE Caer
    BY <1>6, EmptySeq DEF Caer
  <1>7. CASE AgenteLee
    <2>1. CASE UNCHANGED buzonServ
      BY <2>1, <1>0
    <2>2. CASE \E S \in Listados : Responder(Lista(S))
      BY <2>2, <1>0 DEF Responder, Lista
    <2>3. ASSUME NEW j, j = Head(canal).job, Head(canal).clase = "JOB_RELEASE",
                 agente[j].est = "pedido", Responder(Respuesta("JOB_GRANTED", j, agente[j].vez))
          PROVE  buzonServ' \in Seq(Mensajes)
      <3>1. j \in Trabajos
        <4>1. Head(canal) \in ToSet(canal)
          BY <1>0, <1>7, SinElPrimero DEF AgenteLee, Formas
        <4>2. QED
          BY <1>0, <2>3, <4>1 DEF Formas, EsLinea
      <3>2. QED
        BY <1>0, <2>3, <3>1, RespuestaTipo DEF ClasesRespuesta
    <2>4. QED
      BY <1>7, <2>1, <2>2, <2>3 DEF AgenteLee
  <1>8. ASSUME NEW j \in Trabajos, AgenteConcede(j) \/ AgenteDeniega(j)
        PROVE  buzonServ' \in Seq(Mensajes)
    <2>1. /\ agente[j].est = "pedido"
          /\ \E clase \in ClasesRespuesta : Responder(Respuesta(clase, j, agente[j].vez))
      BY <1>8 DEF AgenteConcede, AgenteDeniega, ClasesRespuesta
    <2>2. QED
      BY <1>0, <2>1, RespuestaTipo
  <1>9. CASE UNCHANGED buzonServ
    BY <1>0, <1>9
  <1>10. ASSUME NEW j \in Trabajos, Trabajo(j), ~ Quitar(j) PROVE UNCHANGED buzonServ
    BY <1>10 DEF Trabajo, Solicitar, Concedido, Denegado, Vencer, Reintentar, Terminar,
                 Abandonar, servidor
  <1>11. QED
    BY <1>3, <1>4, <1>5, <1>6, <1>7, <1>8, <1>9, <1>10
       DEF Next, vars, Planificador, Scheduler, PedirNodos, RecibirNodos, Crear, EsperarFin,
           OtraRonda, Silencio, Agente, servidor

\* The mailboxes of the jobs have answers.
LEMMA BuzonPaso ==
    ASSUME TInv, [Next]_vars
    PROVE  buzon' \in [Trabajos -> Seq(Respuestas)]
  <1>0. buzon \in [Trabajos -> Seq(Respuestas)] /\ buzonServ \in Seq(Mensajes)
    BY DEF TInv, Formas
  <1>1. CASE UNCHANGED buzon
    BY <1>0, <1>1
  <1>2. ASSUME NEW j \in Trabajos, buzon' = [buzon EXCEPT ![j] = <<>>]
        PROVE  buzon' \in [Trabajos -> Seq(Respuestas)]
    BY <1>0, <1>2, EmptySeq
  <1>3. CASE Servir
    <2>1. PICK m : m = Head(buzonServ)
      OBVIOUS
    <2>2. m \in Mensajes
      BY <1>0, <1>3, <2>1, HeadTailProperties DEF Servir
    <2>3. \/ UNCHANGED buzon
          \/ /\ m.clase \in ClasesRespuesta
             /\ buzon' = [buzon EXCEPT ![m.job] = Append(@, m)]
      BY <1>3, <2>1 DEF Servir, ClasesRespuesta
    <2>4. ASSUME m.clase \in ClasesRespuesta, buzon' = [buzon EXCEPT ![m.job] = Append(@, m)]
          PROVE  buzon' \in [Trabajos -> Seq(Respuestas)]
      <3>1. m \in Respuestas
        BY <2>2, <2>4 DEF Mensajes, ClasesRespuesta
      <3>2. PICK j \in Trabajos : j = m.job
        BY <3>1 DEF Respuestas
      <3>3. Append(buzon[j], m) \in Seq(Respuestas)
        BY <1>0, <3>1, AppendProperties
      <3>4. QED
        BY <1>0, <2>4, <3>2, <3>3
    <2>5. QED
      BY <1>1, <2>3, <2>4
  <1>4. ASSUME NEW j \in Trabajos, Trabajo(j) PROVE buzon' \in [Trabajos -> Seq(Respuestas)]
    BY <1>1, <1>2, <1>4
       DEF Trabajo, Solicitar, Concedido, Denegado, Vencer, Reintentar, Terminar, Quitar,
           Abandonar, Acabar
  <1>5. QED
    BY <1>1, <1>3, <1>4
       DEF Next, vars, Planificador, Scheduler, PedirNodos, RecibirNodos, Crear, Agregar,
           EsperarFin, OtraRonda, Silencio, Caer, AgenteLee, Agente, AgenteConcede,
           AgenteDeniega, trabajo

\* What the agent has of a job stays a record of the same kind.
LEMMA AgentePaso ==
    ASSUME TInv, [Next]_vars
    PROVE  agente' = [j \in Trabajos |-> agente'[j]] /\ \A j \in Trabajos : EsFicha(agente'[j])
  <1> DEFINE Meta == agente' = [j \in Trabajos |-> agente'[j]]
                     /\ \A j \in Trabajos : EsFicha(agente'[j])
  <1>0. /\ agente = [j \in Trabajos |-> agente[j]] /\ \A j \in Trabajos : EsFicha(agente[j])
        /\ EsSeq(canal) /\ \A m \in ToSet(canal) : EsLinea(m)
    BY DEF TInv, Formas
  <1>1. CASE UNCHANGED agente
    BY <1>0, <1>1
  <1>2. ASSUME NEW j \in Trabajos, NEW f, EsFicha(f), agente' = [agente EXCEPT ![j] = f]
        PROVE  Meta
    BY <1>0, <1>2
  <1>3. CASE AgenteLee
    <2>1. PICK m : m = Head(canal)
      OBVIOUS
    <2>2. EsLinea(m)
      BY <1>0, <1>3, <2>1, SinElPrimero DEF AgenteLee
    <2>3. CASE m.clase = "JOB_REQUEST"
      <3>1. PICK f : f = [est |-> "pedido", vez |-> m.vez, pide |-> m.pide]
        OBVIOUS
      <3>2. m.job \in Trabajos /\ agente' = [agente EXCEPT ![m.job] = f] /\ m.vez \in Veces
        BY <1>3, <2>1, <2>2, <2>3, <3>1 DEF AgenteLee, EsLinea
      <3>3. f.est = "pedido" /\ f.vez = m.vez /\ f.pide = m.pide
        BY <3>1
      <3>4. EsFicha(f)
        BY <3>1, <3>2, <3>3 DEF EsFicha
      <3>5. QED
        BY <3>2, <3>4, <1>2
    <2>4. CASE m.clase = "JOB_RELEASE"
      <3>1. m.job \in Trabajos /\ agente' = [agente EXCEPT ![m.job] = SinPedido]
        BY <1>3, <2>1, <2>2, <2>4 DEF AgenteLee, EsLinea
      <3>2. EsFicha(SinPedido)
        BY DEF EsFicha
      <3>3. QED
        BY <3>1, <3>2, <1>2
    <2>5. CASE m.clase = "GET_NODES"
      BY <1>1, <1>3, <2>1, <2>5 DEF AgenteLee
    <2>6. QED
      BY <2>2, <2>3, <2>4, <2>5 DEF EsLinea
  <1>4. ASSUME NEW j \in Trabajos, NEW est \in {"concedido", "negado"},
               agente[j].est = "pedido", agente' = [agente EXCEPT ![j].est = est]
        PROVE  Meta
    <2>1. /\ agente[j] = [est |-> agente[j].est, vez |-> agente[j].vez, pide |-> agente[j].pide]
          /\ agente[j].vez \in Veces
      BY <1>0, <1>4 DEF EsFicha, SinPedido
    <2>2. PICK f : f = [est |-> est, vez |-> agente[j].vez, pide |-> agente[j].pide]
      OBVIOUS
    <2>3. [agente[j] EXCEPT !.est = est] = f
      BY <2>1, <2>2
    <2>4. agente' = [agente EXCEPT ![j] = f]
      BY <1>4, <2>3
    <2>5. f.est = est /\ f.vez = agente[j].vez /\ f.pide = agente[j].pide
      BY <2>2
    <2>6. EsFicha(f)
      BY <2>1, <2>2, <2>5 DEF EsFicha
    <2>7. QED
      BY <2>4, <2>6, <1>2
  <1>5. ASSUME NEW j \in Trabajos, AgenteConcede(j) \/ AgenteDeniega(j) PROVE Meta
    BY <1>4, <1>5 DEF AgenteConcede, AgenteDeniega, Anotar
  <1>6. ASSUME NEW j \in Trabajos, Trabajo(j) PROVE UNCHANGED agente
    BY <1>6 DEF Trabajo, Solicitar, Concedido, Denegado, Vencer, Reintentar, Terminar, Quitar,
                Abandonar
  <1>7. QED
    BY <1>1, <1>3, <1>5, <1>6
       DEF Next, vars, Planificador, Scheduler, PedirNodos, RecibirNodos, Crear, Agregar,
           EsperarFin, OtraRonda, Servir, Silencio, Caer, Agente

\* Jobs are created one after another, and rest only between two attempts.
LEMMA NumeradosPaso ==
    ASSUME TInv, [Next]_vars
    PROVE  Numerados'
  <1>0. /\ TypeOK /\ Numerados /\ trab \in [Trabajos -> Etapas]
        /\ intentos \in [Trabajos -> 0..INTENTOS_HASTA_DESCARTAR]
    BY DEF TInv, TypeOK
  <1> DEFINE Orden1 == \E n \in 0..MaxTrabajos : Creados' = 1..n
             Sitio == /\ sched' \notin {"pide", "muerto"} => MaxTrabajos > 0
                      /\ sched' = "agrega" => Creados' # {}
             Descanso == \A j \in Trabajos :
                            trab'[j] = "descansa" => intentos'[j] < INTENTOS_HASTA_DESCARTAR
  <1>1. ASSUME UNCHANGED trab PROVE Creados' = Creados
    BY <1>1 DEF Creados
  <1>2. ASSUME NEW j \in Trabajos, NEW etapa, Ir(j, etapa), trab[j] # "sin_crear",
               etapa # "sin_crear"
        PROVE  Creados' = Creados
    BY <1>0, <1>2 DEF Ir, Creados
  <1>3. CASE Crear
    <2>1. /\ Ir(Nuevo, "pide") /\ sched = "crea" /\ sched' = "agrega" /\ UNCHANGED intentos
      BY <1>3 DEF Crear
    <2>2. PICK k \in Nat : k = Nuevo
      BY <1>0, ElNuevo
    <2>3. /\ Creados = 1..(k - 1) /\ k - 1 <= MaxTrabajos /\ MaxTrabajos > 0
          /\ k \in Trabajos <=> k - 1 < MaxTrabajos
      BY <1>0, <2>1, <2>2, ElNuevo DEF Numerados
    <2>4. trab' = [trab EXCEPT ![k] = "pide"]
      BY <2>1, <2>2 DEF Ir
    <2>5. CASE k \in Trabajos
      <3>1. Creados' = Creados \cup {k}
        BY <2>4, <2>5, <1>0 DEF Creados
      <3>2. k \in 1..MaxTrabajos /\ MaxTrabajos \in Nat
        BY <2>5, Numeros DEF Trabajos
      <3>3. Creados' = 1..k /\ k \in 0..MaxTrabajos /\ k \in Creados'
        BY <3>1, <3>2, <2>3
      <3>4. \A j \in Trabajos : trab'[j] = "descansa" => trab[j] = "descansa"
        BY <2>4, <2>5, <1>0
      <3>5. QED
        BY <3>3, <3>4, <2>1, <2>3, <1>0 DEF Numerados
    <2>6. CASE k \notin Trabajos
      <3>1. trab' = trab /\ Creados' = Creados
        BY <2>4, <2>6, <1>0, <1>1
      <3>2. 1 \in Creados /\ MaxTrabajos \in Nat /\ k - 1 \in 0..MaxTrabajos
        BY <2>2, <2>3, <2>6, Numeros
      <3>3. QED
        BY <3>1, <3>2, <2>1, <2>3, <1>0 DEF Numerados
    <2>7. QED
      BY <2>5, <2>6
  <1>4. CASE PedirNodos
    <2>1. /\ UNCHANGED <<trab, intentos>> /\ sched' = "espera_nodos"
          /\ Cardinality(Creados) < MaxTrabajos
      BY <1>4 DEF PedirNodos, trabajo
    <2>2. MaxTrabajos > 0
      <3>1. PICK n \in 0..MaxTrabajos : Creados = 1..n
        BY <1>0 DEF Numerados
      <3>2. Cardinality(Creados) \in Nat
        BY <3>1, Numeros, FS_Interval
      <3>3. QED
        BY <2>1, <3>2, Numeros
    <2>3. QED
      BY <2>1, <2>2, <1>0, <1>1 DEF Numerados
  <1>5. ASSUME UNCHANGED <<trab, intentos>>,
               sched' = sched \/ (sched \notin {"pide", "muerto"} /\ sched' # "agrega")
                              \/ sched' \in {"pide", "muerto"}
        PROVE  Numerados'
    BY <1>0, <1>1, <1>5 DEF Numerados
  <1>6. CASE RecibirNodos
    BY <1>5, <1>6 DEF RecibirNodos, trabajo
  <1>7. ASSUME NEW j \in Trabajos, Trabajo(j) PROVE Numerados'
    <2>1. /\ UNCHANGED sched /\ trab[j] # "sin_crear"
          /\ \E etapa \in Etapas \ {"sin_crear"} : Ir(j, etapa)
      BY <1>7 DEF Trabajo, Solicitar, Concedido, Denegado, Vencer, Reintentar, Terminar, Quitar,
                  Abandonar, Acabar, Etapas, planif
    <2>2. Creados' = Creados
      BY <1>2, <2>1
    <2>3. Descanso
      <3>1. CASE Vencer(j)
        <4>1. \/ trab' = [trab EXCEPT ![j] = "quita"] /\ intentos' = [intentos EXCEPT ![j] = 0]
              \/ /\ trab' = [trab EXCEPT ![j] = "descansa"] /\ UNCHANGED intentos
                 /\ intentos[j] # INTENTOS_HASTA_DESCARTAR
          BY <3>1 DEF Vencer, Ir, Acabar, SinIntentos
        <4>2. \A k \in Trabajos : /\ intentos[k] \in Nat
                                  /\ intentos[k] <= INTENTOS_HASTA_DESCARTAR
          BY <1>0, Numeros
        <4>3. QED
          BY <4>1, <4>2, <1>0, Numeros DEF Numerados
      <3>2. ASSUME NEW etapa, etapa # "descansa", Ir(j, etapa),
                   \A k \in Trabajos \ {j} : intentos'[k] = intentos[k]
            PROVE  Descanso
        BY <3>2, <1>0 DEF Ir, Numerados
      <3>3. CASE ~ Vencer(j)
        BY <1>0, <1>7, <3>2, <3>3
           DEF Trabajo, Solicitar, Concedido, Denegado, Reintentar, Terminar, Quitar,
               Abandonar, Acabar
      <3>4. QED
        BY <3>1, <3>3
    <2>4. QED
      BY <2>1, <2>2, <2>3, <1>0 DEF Numerados
  <1>8. QED
    BY <1>3, <1>4, <1>5, <1>6, <1>7
       DEF Next, vars, Planificador, Scheduler, Agregar, EsperarFin, OtraRonda, Servir,
           Silencio, Caer, AgenteLee, Agente, AgenteConcede, AgenteDeniega, planif, trabajo

\* Every variable keeps its type.
LEMMA TiposPaso ==
    ASSUME TInv, [Next]_vars, Formas'
    PROVE  TypeOK'
  <1>0. TypeOK /\ Formas /\ Numerados
    BY DEF TInv
  <1> USE <1>0
  <1>1. sched' \in {"pide", "espera_nodos", "crea", "agrega", "espera", "duerme", "muerto"}
    <2>1. ASSUME NEW j \in Trabajos, Trabajo(j) PROVE UNCHANGED sched
      BY <2>1 DEF Trabajo, Solicitar, Concedido, Denegado, Vencer, Reintentar, Terminar, Quitar,
                  Abandonar, planif
    <2>2. QED
      BY <2>1 DEF TypeOK, Next, vars, Planificador, Scheduler, PedirNodos, RecibirNodos, Crear,
                  Agregar, EsperarFin, OtraRonda, Servir, Silencio, Caer, AgenteLee, Agente,
                  AgenteConcede, AgenteDeniega, planif
  <1>2. buzonSched' \in Seq({Lista(S) : S \in Listados} \cup {AllJobsDone})
    <2> DEFINE C == {Lista(S) : S \in Listados} \cup {AllJobsDone}
    <2>0. buzonSched \in Seq(C) /\ AllJobsDone \in C
      BY DEF TypeOK
    <2>1. ASSUME NEW j \in Trabajos, Trabajo(j) PROVE UNCHANGED buzonSched
      BY <2>1 DEF Trabajo, Solicitar, Concedido, Denegado, Vencer, Reintentar, Terminar, Quitar,
                  Abandonar, planif
    <2>2. ASSUME NEW S \in Listados, Responder(Lista(S)) PROVE buzonSched' \in Seq(C)
      <3>1. Lista(S) \in C
        BY <2>2
      <3>2. buzonSched' = buzonSched \/ buzonSched' = Append(buzonSched, Lista(S))
        BY <2>2 DEF Responder
      <3> HIDE DEF C
      <3>3. QED
        BY <2>0, <3>1, <3>2, AppendProperties
    <2>3. ASSUME NEW clase \in ClasesRespuesta, NEW j, NEW v, Responder(Respuesta(clase, j, v))
          PROVE  UNCHANGED buzonSched
      BY <2>3 DEF Responder, Respuesta, ClasesRespuesta
    <2>4. ASSUME AgenteLee \/ Agente PROVE buzonSched' \in Seq(C)
      BY <2>0, <2>2, <2>3, <2>4
         DEF AgenteLee, Agente, AgenteConcede, AgenteDeniega, ClasesRespuesta
    <2> HIDE DEF C
    <2>5. ASSUME RecibirNodos PROVE buzonSched' \in Seq(C)
      BY <2>0, <2>5, HeadTailProperties DEF RecibirNodos
    <2>6. ASSUME EsperarFin PROVE buzonSched' \in Seq(C)
      BY <2>0, <2>6, Selectivo DEF EsperarFin
    <2>7. ASSUME Servir PROVE buzonSched' \in Seq(C)
      BY <2>0, <2>7, AppendProperties DEF Servir
    <2>8. ASSUME Caer PROVE buzonSched' \in Seq(C)
      BY <2>8, EmptySeq DEF Caer
    <2>9. ASSUME UNCHANGED buzonSched PROVE buzonSched' \in Seq(C)
      BY <2>0, <2>9
    <2>10. buzonSched' \in Seq(C)
      BY <2>1, <2>4, <2>5, <2>6, <2>7, <2>8, <2>9
         DEF Next, vars, Planificador, Scheduler, PedirNodos, Crear, Agregar, OtraRonda,
             Silencio, planif
    <2>11. QED
      BY <2>10 DEF C
  <1>3. mapa' \subseteq Trabajos
    <2>1. ASSUME NEW j \in Trabajos, Trabajo(j) PROVE UNCHANGED mapa
      BY <2>1 DEF Trabajo, Solicitar, Concedido, Denegado, Vencer, Reintentar, Terminar, Quitar,
                  Abandonar, servidor
    <2>2. CASE Servir
      <3>1. Head(buzonServ) \in Mensajes
        BY <2>2, HeadTailProperties DEF Servir, Formas
      <3>2. Head(buzonServ).job \in Trabajos
        BY <3>1 DEF Mensajes, Respuestas
      <3>3. QED
        BY <2>2, <3>2 DEF Servir, TypeOK
    <2>3. QED
      BY <2>1, <2>2 DEF TypeOK, Next, vars, Planificador, Scheduler, PedirNodos, RecibirNodos,
                        Crear, Agregar, EsperarFin, OtraRonda, Silencio, Caer, AgenteLee, Agente,
                        AgenteConcede, AgenteDeniega, servidor
  <1>4. \A i \in DOMAIN buzonServ' : buzonServ'[i].job \in Trabajos
    <2>1. buzonServ' \in Seq(Mensajes)
      BY DEF Formas
    <2>2. \A i \in DOMAIN buzonServ' : buzonServ'[i] \in Mensajes
      BY <2>1, LenProperties, ElementOfSeq
    <2>3. QED
      BY <2>2 DEF Mensajes, Respuestas
  <1>5. /\ trab' \in [Trabajos -> Etapas]
        /\ intentos' \in [Trabajos -> 0..INTENTOS_HASTA_DESCARTAR]
        /\ permiso' \in [Trabajos -> 0..(INTENTOS_HASTA_DESCARTAR + 1)]
    <2> DEFINE Meta == /\ trab' \in [Trabajos -> Etapas]
                       /\ intentos' \in [Trabajos -> 0..INTENTOS_HASTA_DESCARTAR]
                       /\ permiso' \in [Trabajos -> 0..(INTENTOS_HASTA_DESCARTAR + 1)]
    <2>0. /\ trab \in [Trabajos -> Etapas]
          /\ intentos \in [Trabajos -> 0..INTENTOS_HASTA_DESCARTAR]
          /\ permiso \in [Trabajos -> 0..(INTENTOS_HASTA_DESCARTAR + 1)]
          /\ 0 \in 0..INTENTOS_HASTA_DESCARTAR /\ 0 \in 0..(INTENTOS_HASTA_DESCARTAR + 1)
      BY Numeros DEF TypeOK
    <2>1. ASSUME NEW j \in Trabajos, NEW etapa \in Etapas, Ir(j, etapa)
          PROVE  trab' \in [Trabajos -> Etapas]
      BY <2>0, <2>1 DEF Ir
    <2>2. ASSUME NEW j \in Trabajos, NEW etapa \in Etapas, Acabar(j, etapa) PROVE Meta
      BY <2>0, <2>1, <2>2 DEF Acabar
    <2>3. ASSUME NEW j \in Trabajos, Concedido(j) PROVE Meta
      <3>1. Head(buzon[j]) \in Respuestas
        BY <2>3, HeadTailProperties DEF Concedido, Formas
      <3>2. Head(buzon[j]).vez \in 0..(INTENTOS_HASTA_DESCARTAR + 1)
        BY <3>1, Numeros DEF Respuestas
      <3>3. QED
        BY <2>0, <2>1, <2>3, <3>2 DEF Concedido, Etapas
    <2>4. ASSUME NEW j \in Trabajos, Reintentar(j) PROVE Meta
      <3>1. intentos[j] + 1 \in 0..INTENTOS_HASTA_DESCARTAR
        BY <2>0, <2>4, Numeros DEF Reintentar, Numerados
      <3>2. QED
        BY <2>0, <2>1, <2>4, <3>1 DEF Reintentar, Etapas
    <2>5. ASSUME NEW j \in Trabajos, Trabajo(j) PROVE Meta
      BY <2>0, <2>1, <2>2, <2>3, <2>4, <2>5
         DEF Trabajo, Solicitar, Denegado, Vencer, Terminar, Quitar, Abandonar, Etapas
    <2>6. CASE Crear
      BY <2>0, <2>6 DEF Crear, Ir, Etapas
    <2>7. ASSUME UNCHANGED <<trab, intentos, permiso>> PROVE Meta
      BY <2>0, <2>7
    <2>8. QED
      BY <2>5, <2>6, <2>7
         DEF Next, vars, Planificador, Scheduler, PedirNodos, RecibirNodos, Agregar, EsperarFin,
             OtraRonda, Servir, Silencio, Caer, AgenteLee, Agente, AgenteConcede, AgenteDeniega,
             trabajo
  <1>6. registro' \in {"vivo", "veneno", "muerto"}
    <2>1. ASSUME NEW j \in Trabajos, Trabajo(j) PROVE registro' \in {"vivo", "veneno", "muerto"}
      BY <2>1 DEF TypeOK, Trabajo, Solicitar, Concedido, Denegado, Vencer, Reintentar, Terminar,
                  Quitar, Abandonar
    <2>2. QED
      BY <2>1 DEF TypeOK, Next, vars, Planificador, Scheduler, PedirNodos, RecibirNodos, Crear,
                  Agregar, EsperarFin, OtraRonda, Servir, Silencio, Caer, AgenteLee, Agente,
                  AgenteConcede, AgenteDeniega
  <1>7. \A j \in Trabajos :
            agente'[j] = SinPedido \/ agente'[j].est \in {"pedido", "concedido", "negado"}
    BY DEF Formas, EsFicha
  <1>8. QED
    BY <1>1, <1>2, <1>3, <1>4, <1>5, <1>6, <1>7 DEF TypeOK

\* Types, forms and the order of creation are kept together.
LEMMA TInvPaso == TInv /\ [Next]_vars => TInv'
  <1> SUFFICES ASSUME TInv, [Next]_vars PROVE TInv'
    OBVIOUS
  <1>1. Formas'
    BY CanalPaso, ServPaso, BuzonPaso, AgentePaso DEF Formas
  <1>2. QED
    BY <1>1, TiposPaso, NumeradosPaso DEF TInv

\* In every execution, for any number of jobs and attempts, any nodes and
\* listings, every variable of the planner keeps its type; in particular a job
\* is never tried more often than INTENTOS_HASTA_DESCARTAR allows.
THEOREM TiposPlanificador == Spec => []TypeOK
  <1>1. TInv => TypeOK
    BY DEF TInv
  <1>2. QED
    BY TInvInit, TInvPaso, <1>1, PTL DEF Spec

-----------------------------------------------------------------------------
(* The order of the lines of a job *)

\* A line of another job, or none, changes nothing of the lines of j.
LEMMA LineasDeOtro ==
    ASSUME EsSeq(canal), NEW j \in Trabajos,
           \/ canal' = canal
           \/ \E x : x.job # j /\ canal' = Append(canal, x)
    PROVE  /\ SinLineas(j) => SinLineas(j)'
           /\ \A k : Ultima(j, k) => Ultima(j, k)' /\ canal'[k] = canal[k]
           /\ \A i \in DOMAIN canal' :
                  canal'[i].job = j => i \in DOMAIN canal /\ canal'[i] = canal[i]
           /\ \A m \in ToSet(canal') : m.job = j => m \in ToSet(canal)
  <1>1. CASE canal' = canal
    BY <1>1 DEF SinLineas, Ultima
  <1>2. ASSUME NEW x, x.job # j, canal' = Append(canal, x)
        PROVE  /\ SinLineas(j) => SinLineas(j)'
               /\ \A k : Ultima(j, k) => Ultima(j, k)' /\ canal'[k] = canal[k]
               /\ \A i \in DOMAIN canal' :
                      canal'[i].job = j => i \in DOMAIN canal /\ canal'[i] = canal[i]
               /\ \A m \in ToSet(canal') : m.job = j => m \in ToSet(canal)
    <2>1. /\ Len(canal) \in Nat /\ DOMAIN canal = 1..Len(canal)
          /\ DOMAIN canal' = 1..(Len(canal) + 1)
          /\ \A i \in 1..Len(canal) : canal'[i] = canal[i]
          /\ canal'[Len(canal) + 1] = x
          /\ ToSet(canal') = ToSet(canal) \cup {x}
      BY <1>2, AlFinal
    <2>2. \A i \in DOMAIN canal' : canal'[i].job = j => i \in DOMAIN canal /\ canal'[i] = canal[i]
      <3> SUFFICES ASSUME NEW i \in 1..(Len(canal) + 1), canal'[i].job = j
                   PROVE  i \in 1..Len(canal)
        BY <2>1
      <3>1. i # Len(canal) + 1
        BY <1>2, <2>1
      <3>2. QED
        BY <2>1, <3>1
    <2>3. \A i \in DOMAIN canal : i \in DOMAIN canal'
      BY <2>1
    <2>4. QED
      BY <1>2, <2>1, <2>2, <2>3 DEF SinLineas, Ultima
  <1>3. QED
    BY <1>1, <1>2

\* A line of j is its last.
LEMMA LineaPropia ==
    ASSUME EsSeq(canal), NEW j \in Trabajos, NEW x, x.job = j, canal' = Append(canal, x)
    PROVE  \E k \in DOMAIN canal' :
              /\ Ultima(j, k)' /\ canal'[k] = x
              /\ \A i \in DOMAIN canal' : i < k => i \in DOMAIN canal /\ canal'[i] = canal[i]
  <1>1. /\ Len(canal) \in Nat /\ DOMAIN canal = 1..Len(canal)
        /\ DOMAIN canal' = 1..(Len(canal) + 1)
        /\ \A i \in 1..Len(canal) : canal'[i] = canal[i]
        /\ canal'[Len(canal) + 1] = x
    BY AlFinal
  <1>2. PICK k : k = Len(canal) + 1
    OBVIOUS
  <1>3. k \in DOMAIN canal' /\ canal'[k] = x /\ \A i \in DOMAIN canal' : ~ (i > k)
    BY <1>1, <1>2
  <1>4. \A i \in DOMAIN canal' : i < k => i \in DOMAIN canal /\ canal'[i] = canal[i]
    BY <1>1, <1>2
  <1>5. QED
    BY <1>3, <1>4 DEF Ultima

\* A line is read.
LEMMA LineaLeida ==
    ASSUME EsSeq(canal), canal # <<>>, canal' = Tail(canal), NEW j \in Trabajos
    PROVE  /\ SinLineas(j) => SinLineas(j)' /\ Head(canal).job # j
           /\ \A k : Ultima(j, k) /\ k # 1 =>
                  Ultima(j, k - 1)' /\ canal'[k - 1] = canal[k] /\ k > 1 /\ k \in Nat
           /\ Ultima(j, 1) => SinLineas(j)'
           /\ \A i \in DOMAIN canal' :
                  i \in Nat /\ i + 1 \in DOMAIN canal /\ canal'[i] = canal[i + 1]
           /\ ToSet(canal') \subseteq ToSet(canal)
           /\ Head(canal) = canal[1] /\ 1 \in DOMAIN canal /\ Head(canal) \in ToSet(canal)
  <1>1. /\ Len(canal) \in Nat \ {0} /\ DOMAIN canal = 1..Len(canal)
        /\ DOMAIN canal' = 1..(Len(canal) - 1)
        /\ \A i \in 1..(Len(canal) - 1) : canal'[i] = canal[i + 1]
        /\ Head(canal) = canal[1] /\ Head(canal) \in ToSet(canal)
        /\ ToSet(canal') \subseteq ToSet(canal)
    BY SinElPrimero
  <1>2. \A i \in DOMAIN canal' : i \in Nat /\ i + 1 \in DOMAIN canal /\ canal'[i] = canal[i + 1]
    BY <1>1
  <1>3. 1 \in DOMAIN canal
    BY <1>1
  <1>4. SinLineas(j) => SinLineas(j)' /\ Head(canal).job # j
    BY <1>1, <1>2, <1>3 DEF SinLineas
  <1>5. Ultima(j, 1) => SinLineas(j)'
    <2> SUFFICES ASSUME Ultima(j, 1), NEW i \in DOMAIN canal' PROVE canal'[i].job # j
      BY DEF SinLineas
    <2>1. i + 1 > 1 /\ i + 1 \in DOMAIN canal /\ canal'[i] = canal[i + 1]
      BY <1>1, <1>2
    <2>2. QED
      BY <2>1 DEF Ultima
  <1>6. ASSUME NEW k, Ultima(j, k), k # 1
        PROVE  Ultima(j, k - 1)' /\ canal'[k - 1] = canal[k] /\ k > 1 /\ k \in Nat
    <2>1. k \in 1..Len(canal) /\ canal[k].job = j
      BY <1>1, <1>6 DEF Ultima
    <2>2. k - 1 \in 1..(Len(canal) - 1) /\ (k - 1) + 1 = k /\ k > 1 /\ k \in Nat
      BY <1>1, <1>6, <2>1
    <2>3. k - 1 \in DOMAIN canal' /\ canal'[k - 1] = canal[k]
      BY <1>1, <2>2
    <2>4. ASSUME NEW i \in DOMAIN canal', i > k - 1 PROVE canal'[i].job # j
      <3>1. i + 1 \in DOMAIN canal /\ canal'[i] = canal[i + 1] /\ i \in Nat
        BY <1>2
      <3>2. i + 1 > k
        BY <2>2, <2>4, <3>1
      <3>3. QED
        BY <3>1, <3>2, <1>6 DEF Ultima
    <2>5. QED
      BY <2>1, <2>2, <2>3, <2>4 DEF Ultima
  <1>7. QED
    BY <1>1, <1>2, <1>3, <1>4, <1>5, <1>6

\* What is on its way to a job has the number of one of its requests.
LEMMA VecesDe ==
    ASSUME TInv, NEW j \in Trabajos
    PROVE  /\ \A m : DeCamino(m, j) => m.vez \in Nat /\ m.clase \in ClasesRespuesta
           /\ \A m \in ToSet(canal) : m.job = j /\ m.clase = "JOB_REQUEST" => m.vez \in Nat
           /\ agente[j].vez \in Nat /\ intentos[j] \in Nat
  <1>1. /\ buzonServ \in Seq(Mensajes) /\ buzon[j] \in Seq(Respuestas) /\ EsFicha(agente[j])
        /\ \A m \in ToSet(canal) : EsLinea(m)
    BY DEF TInv, Formas
  <1>2. ToSet(buzonServ) \subseteq Mensajes /\ ToSet(buzon[j]) \subseteq Respuestas
    BY <1>1, DeUnConjunto
  <1>3. ASSUME NEW m, DeCamino(m, j) PROVE m.vez \in Nat /\ m.clase \in ClasesRespuesta
    <2>1. m \in Respuestas
      BY <1>2, <1>3 DEF DeCamino, Contesta, Mensajes, ClasesRespuesta
    <2>2. QED
      BY <2>1, Numeros DEF Respuestas
  <1>4. \A m \in ToSet(canal) : m.job = j /\ m.clase = "JOB_REQUEST" => m.vez \in Nat
    BY <1>1, Numeros DEF EsLinea
  <1>5. agente[j].vez \in Nat
    BY <1>1, Numeros DEF EsFicha, SinPedido
  <1>6. intentos[j] \in Nat
    BY Numeros DEF TInv, TypeOK
  <1>7. QED
    BY <1>3, <1>4, <1>5, <1>6

\* What is not of a later attempt than v is not of one later than v + 1.
LEMMA HastaMas ==
    ASSUME TInv, NEW j \in Trabajos, NEW v \in Nat, Hasta(j, v)
    PROVE  Hasta(j, v + 1)
  <1>1. \A m : DeCamino(m, j) => m \in ToSet(buzonServ) \cup ToSet(buzon[j])
    BY DEF DeCamino, Contesta
  <1>2. \A x \in Nat : x <= v => x <= v + 1
    OBVIOUS
  <1>3. QED
    BY <1>1, <1>2, VecesDe DEF Hasta

\* A step that does nothing to job j but take its messages, or add lines and
\* messages of others.
LEMMA Ajeno ==
    ASSUME TInv, NEW j \in Trabajos, EnOrden(j),
           trab'[j] = trab[j], intentos'[j] = intentos[j], agente'[j] = agente[j],
           trab[j] = "sin_crear" => buzon'[j] = buzon[j],
           \A m : DeCamino(m, j)' => DeCamino(m, j),
           \/ canal' = canal
           \/ \E x : x.job # j /\ canal' = Append(canal, x)
    PROVE  EnOrden(j)'
  <1>0. EsSeq(canal) /\ \A m : DeCamino(m, j) => m \in ToSet(buzonServ) \cup ToSet(buzon[j])
    BY DEF TInv, Formas, DeCamino, Contesta
  <1>1. /\ SinLineas(j) => SinLineas(j)'
        /\ \A k : Ultima(j, k) => Ultima(j, k)' /\ canal'[k] = canal[k]
        /\ \A i \in DOMAIN canal' :
               canal'[i].job = j => i \in DOMAIN canal /\ canal'[i] = canal[i]
        /\ \A m \in ToSet(canal') : m.job = j => m \in ToSet(canal)
    BY <1>0, LineasDeOtro
  <1>2. Suelta(j) => Suelta(j)'
    BY <1>1 DEF Suelta, Ultima
  <1>3. Pedida(j) => Pedida(j)'
    <2>1. ASSUME NEW k \in DOMAIN canal, Ultima(j, k), canal[k].clase = "JOB_REQUEST",
                 agente[j].vez <= intentos[j],
                 \A i \in DOMAIN canal :
                    i < k /\ canal[i].job = j /\ canal[i].clase = "JOB_REQUEST" =>
                        canal[i].vez <= intentos[j]
          PROVE  Pedida(j)'
      <3>1. Ultima(j, k)' /\ canal'[k] = canal[k] /\ k \in DOMAIN canal'
        BY <1>1, <2>1 DEF Ultima
      <3>2. QED
        BY <1>1, <2>1, <3>1 DEF Pedida
    <2>2. QED
      BY <1>1, <2>1 DEF Pedida
  <1>4. ASSUME NEW v, Hasta(j, v) PROVE Hasta(j, v)'
    BY <1>0, <1>1, <1>4 DEF Hasta
  <1>5. Vigente(j) => Vigente(j)'
    BY <1>1 DEF Vigente
  <1>6. trab'[j] = "sin_crear" =>
          /\ SinLineas(j)' /\ agente'[j] = SinPedido /\ intentos'[j] = 0 /\ buzon'[j] = <<>>
          /\ \A m \in ToSet(buzonServ') : ~ Contesta(m, j)'
    <2> SUFFICES ASSUME trab[j] = "sin_crear"
                 PROVE  /\ SinLineas(j)' /\ agente'[j] = SinPedido /\ intentos'[j] = 0
                        /\ buzon'[j] = <<>> /\ \A m : ~ Contesta(m, j)'
      OBVIOUS
    <2>1. /\ SinLineas(j) /\ agente[j] = SinPedido /\ intentos[j] = 0 /\ buzon[j] = <<>>
          /\ \A m : ~ Contesta(m, j)
      BY DEF EnOrden, Contesta
    <2>2. \A m : ~ DeCamino(m, j)
      BY <2>1 DEF DeCamino, ToSet
    <2>3. \A m : ~ Contesta(m, j)'
      BY <2>2 DEF DeCamino
    <2>4. QED
      BY <2>1, <2>3, <1>1
  <1>7. trab'[j] = "espera" =>
          \A m \in ToSet(buzonServ') \cup ToSet(buzon'[j]) :
              DeCamino(m, j)' /\ m.clase = "JOB_GRANTED" /\ m.vez = intentos'[j] + 1 =>
                  Vigente(j)'
    BY <1>0, <1>5 DEF EnOrden
  <1>8. QED
    BY <1>2, <1>3, <1>4, <1>6, <1>7 DEF EnOrden

\* A job that does nothing keeps its grant as long as no line of it is sent.
LEMMA TrabajaAjeno ==
    ASSUME TInv, NEW j \in Trabajos, Trabaja(j),
           trab'[j] = trab[j], intentos'[j] = intentos[j], permiso'[j] = permiso[j],
           agente'[j] = agente[j],
           \/ canal' = canal
           \/ \E x : x.job # j /\ canal' = Append(canal, x)
    PROVE  Trabaja(j)'
  <1>1. SinLineas(j) => SinLineas(j)'
    BY LineasDeOtro DEF TInv, Formas
  <1>2. QED
    BY <1>1 DEF Trabaja, Vigente

\* A job sends a release, and waits no longer.
LEMMA Soltar ==
    ASSUME TInv, NEW j \in Trabajos, Enviar(Orden("JOB_RELEASE", j))
    PROVE  /\ Suelta(j)'
           /\ \A m \in ToSet(canal') : m \in ToSet(canal) \/ m.clase = "JOB_RELEASE"
  <1>1. PICK x : x = Orden("JOB_RELEASE", j)
    OBVIOUS
  <1>2. canal' = Append(canal, x) /\ x.job = j /\ x.clase = "JOB_RELEASE" /\ EsSeq(canal)
    BY <1>1 DEF Enviar, Orden, TInv, Formas
  <1>3. PICK k \in DOMAIN canal' : Ultima(j, k)' /\ canal'[k] = x
    BY <1>2, LineaPropia
  <1>4. ToSet(canal') = ToSet(canal) \cup {x}
    BY <1>2, AlFinal
  <1>5. QED
    BY <1>2, <1>3, <1>4 DEF Suelta

\* The steps of a job, seen by itself.
LEMMA TrabajoPropio ==
    ASSUME TInv, Vivo, NEW j \in Trabajos, EnOrden(j), Trabaja(j), Trabajo(j)
    PROVE  EnOrden(j)' /\ Trabaja(j)'
  <1>0. /\ trab \in [Trabajos -> Etapas] /\ intentos \in [Trabajos -> 0..INTENTOS_HASTA_DESCARTAR]
        /\ permiso \in [Trabajos -> 0..(INTENTOS_HASTA_DESCARTAR + 1)]
        /\ buzon \in [Trabajos -> Seq(Respuestas)] /\ buzonServ \in Seq(Mensajes)
        /\ EsSeq(canal) /\ intentos[j] \in Nat /\ ToSet(<<>>) = {}
        /\ \A m : DeCamino(m, j) => m \in ToSet(buzonServ) \cup ToSet(buzon[j])
    BY Numeros DEF TInv, TypeOK, Formas, DeCamino, Contesta, ToSet
  <1>1. CASE Solicitar(j)
    <2>0. PICK v \in Nat : v = intentos[j]
      BY <1>0
    <2>1. PICK x : x = Pedido(j, v + 1, linea[j])
      OBVIOUS
    <2>2. /\ canal' = Append(canal, x) /\ x.job = j /\ x.clase = "JOB_REQUEST" /\ x.vez = v + 1
          /\ trab[j] = "pide" /\ trab'[j] = "espera"
          /\ UNCHANGED <<intentos, buzon, buzonServ, agente>>
      BY <1>0, <1>1, <2>0, <2>1 DEF Solicitar, Enviar, Pedido, Ir, servidor
    <2>3. Hasta(j, v) /\ agente[j].vez <= v
      BY <2>0, <2>1, <2>2 DEF EnOrden, Hasta
    <2>4. PICK k \in DOMAIN canal' :
              /\ Ultima(j, k)' /\ canal'[k] = x
              /\ \A i \in DOMAIN canal' : i < k => i \in DOMAIN canal /\ canal'[i] = canal[i]
      BY <1>0, <2>2, LineaPropia
    <2>5. \A i \in DOMAIN canal' :
              i < k /\ canal'[i].job = j /\ canal'[i].clase = "JOB_REQUEST" => canal'[i].vez <= v
      BY <2>3, <2>4 DEF Hasta, ToSet
    <2>6. Pedida(j)'
      BY <2>0, <2>1, <2>2, <2>3, <2>4, <2>5 DEF Pedida
    <2>7. Hasta(j, v + 1)'
      <3>1. Hasta(j, v + 1)
        BY <2>3, HastaMas
      <3>2. ToSet(canal') = ToSet(canal) \cup {x}
        BY <1>0, <2>2, AlFinal
      <3>3. \A m \in ToSet(canal') : m.job = j /\ m.clase = "JOB_REQUEST" => m.vez <= v + 1
        BY <2>2, <3>1, <3>2 DEF Hasta
      <3>4. QED
        BY <2>2, <3>1, <3>3 DEF Hasta, DeCamino, Contesta
    <2>8. \A m : DeCamino(m, j)' => m.vez # intentos'[j] + 1
      <3>1. \A m : DeCamino(m, j)' => DeCamino(m, j)
        BY <2>2 DEF DeCamino, Contesta
      <3>2. \A m : DeCamino(m, j) => m.vez <= v
        BY <1>0, <2>3 DEF Hasta
      <3>3. QED
        BY <2>0, <2>1, <2>2, <3>1, <3>2
    <2>9. QED
      BY <2>0, <2>1, <2>2, <2>6, <2>7, <2>8 DEF EnOrden, Trabaja
  <1>2. CASE Concedido(j)
    <2>1. PICK m : m = Head(buzon[j])
      OBVIOUS
    <2>2. /\ trab[j] = "espera" /\ buzon[j] # <<>> /\ m.clase = "JOB_GRANTED"
          /\ trab'[j] = "trabaja" /\ permiso'[j] = m.vez
          /\ UNCHANGED <<canal, intentos, agente>>
      BY <1>0, <1>2, <2>1 DEF Concedido, Ir
    <2>3. m \in ToSet(buzon[j])
      <3>1. EsSeq(buzon[j])
        BY <1>0, DeUnConjunto
      <3>2. QED
        BY <2>1, <2>2, <3>1, SinElPrimero
    <2>4. m.vez = intentos[j] + 1 => Vigente(j)
      BY <2>2, <2>3 DEF EnOrden, DeCamino
    <2>5. Vigente(j) => Vigente(j)'
      BY <2>2 DEF Vigente, SinLineas
    <2>6. QED
      BY <2>2, <2>4, <2>5 DEF EnOrden, Trabaja
  <1>3. CASE \/ trab'[j] = "quita" /\ Enviar(Orden("JOB_RELEASE", j))
    BY <1>3, Soltar DEF EnOrden, Trabaja
  <1>4. CASE Vencer(j) /\ trab'[j] # "quita"
    <2>1. /\ trab[j] = "espera" /\ trab'[j] = "descansa" /\ Enviar(Orden("JOB_RELEASE", j))
          /\ UNCHANGED <<intentos, buzon, buzonServ, agente>>
      BY <1>0, <1>4 DEF Vencer, Acabar, Ir, servidor
    <2>2. Hasta(j, intentos[j] + 1)
      BY <2>1 DEF EnOrden
    <2>3. Hasta(j, intentos[j] + 1)'
      BY <2>1, <2>2, Soltar DEF Hasta, DeCamino, Contesta
    <2>4. QED
      BY <2>1, <2>3, Soltar DEF EnOrden, Trabaja
  <1>5. CASE Reintentar(j)
    <2>1. /\ trab[j] = "descansa" /\ trab'[j] = "pide" /\ intentos'[j] = intentos[j] + 1
          /\ UNCHANGED <<canal, buzon, buzonServ, agente>>
      BY <1>0, <1>5 DEF Reintentar, Ir, servidor
    <2>2. Hasta(j, intentos[j] + 1) /\ Suelta(j)
      BY <2>1 DEF EnOrden
    <2>3. Hasta(j, intentos[j])' /\ Suelta(j)'
      BY <2>1, <2>2 DEF Hasta, DeCamino, Contesta, Suelta, SinLineas, Ultima
    <2>4. QED
      BY <2>1, <2>3 DEF EnOrden, Trabaja
  <1>6. CASE Quitar(j)
    <2>1. trab[j] = "quita" /\ trab'[j] = "fin" /\ UNCHANGED <<canal, agente>>
      BY <1>0, <1>6 DEF Quitar, Ir
    <2>2. Suelta(j)'
      BY <2>1 DEF EnOrden, Suelta, SinLineas, Ultima
    <2>3. QED
      BY <2>1, <2>2 DEF EnOrden, Trabaja
  <1>7. CASE Denegado(j) \/ Terminar(j) \/ Vencer(j)
    <2>1. Enviar(Orden("JOB_RELEASE", j))
      BY <1>7 DEF Denegado, Terminar, Vencer
    <2>2. trab'[j] = "quita" \/ Vencer(j)
      BY <1>0, <1>7 DEF Denegado, Terminar, Acabar, Ir
    <2>3. QED
      BY <2>1, <2>2, <1>3, <1>4
  <1>8. QED
    BY <1>1, <1>2, <1>5, <1>6, <1>7 DEF Trabajo, Abandonar

\* A line is read by the agent, seen by the job it is of.
LEMMA LeePropio ==
    ASSUME TInv, NEW j \in Trabajos, EnOrden(j), AgenteLee, Head(canal).job = j
    PROVE  EnOrden(j)'
  <1>0. /\ canal # <<>> /\ canal' = Tail(canal) /\ EsSeq(canal)
        /\ UNCHANGED <<trab, intentos, buzon>> /\ ToSet(<<>>) = {}
        /\ agente = [k \in Trabajos |-> agente[k]]
        /\ intentos[j] \in Nat /\ agente[j].vez \in Nat
        /\ \A m : DeCamino(m, j) => m \in ToSet(buzonServ) \cup ToSet(buzon[j])
    BY VecesDe DEF AgenteLee, TInv, Formas, trabajo, DeCamino, Contesta, ToSet
  <1>1. PICK x : x = Head(canal)
    OBVIOUS
  <1>2. x \in ToSet(canal) /\ x = canal[1] /\ 1 \in DOMAIN canal /\ x.job = j
    BY <1>0, <1>1, LineaLeida
  <1>3. ~ SinLineas(j)
    BY <1>2 DEF SinLineas
  <1>4. \/ x.clase = "JOB_REQUEST" /\ x.vez \in Nat /\ agente'[j].vez = x.vez
           /\ UNCHANGED buzonServ
        \/ x.clase = "JOB_RELEASE" /\ agente'[j] = SinPedido
    <2>1. EsLinea(x)
      BY <1>2 DEF TInv, Formas
    <2>2. x.clase = "JOB_REQUEST" \/ x.clase = "JOB_RELEASE"
      BY <2>1, <1>2, Numeros DEF EsLinea
    <2>3. x.clase = "JOB_REQUEST" => x.vez \in Nat
      BY <2>1, Numeros DEF EsLinea
    <2>4. CASE x.clase = "JOB_REQUEST"
      <3>1. /\ agente' = [agente EXCEPT ![j] = [est |-> "pedido", vez |-> x.vez, pide |-> x.pide]]
            /\ UNCHANGED buzonServ
        BY <1>1, <1>2, <2>4 DEF AgenteLee
      <3>2. agente'[j] = [est |-> "pedido", vez |-> x.vez, pide |-> x.pide]
        BY <3>1, <1>0
      <3>3. QED
        BY <2>3, <2>4, <3>1, <3>2
    <2>5. CASE x.clase = "JOB_RELEASE"
      <3>1. agente' = [agente EXCEPT ![j] = SinPedido]
        BY <1>1, <1>2, <2>5 DEF AgenteLee
      <3>2. QED
        BY <2>5, <3>1, <1>0
    <2>6. QED
      BY <2>2, <2>4, <2>5
  <1>5. \A m : DeCamino(m, j)' => DeCamino(m, j) \/ m.vez = agente[j].vez
    <2>1. CASE UNCHANGED buzonServ
      BY <2>1, <1>0 DEF DeCamino, Contesta
    <2>2. ASSUME agente[j].est = "pedido", Responder(Respuesta("JOB_GRANTED", j, agente[j].vez))
          PROVE  \A m : DeCamino(m, j)' => DeCamino(m, j) \/ m.vez = agente[j].vez
      <3>1. PICK y : y = Respuesta("JOB_GRANTED", j, agente[j].vez)
        OBVIOUS
      <3>2. UNCHANGED buzonServ \/ buzonServ' = Append(buzonServ, y)
        BY <2>2, <3>1 DEF Responder
      <3>3. EsSeq(buzonServ)
        BY DeUnConjunto DEF TInv, Formas
      <3>4. ToSet(Append(buzonServ, y)) = ToSet(buzonServ) \cup {y}
        BY <3>3, AlFinal
      <3>5. y.vez = agente[j].vez
        BY <3>1 DEF Respuesta
      <3>6. QED
        BY <1>0, <3>2, <3>4, <3>5 DEF DeCamino, Contesta
    <2>3. QED
      BY <1>1, <1>2, <1>4, <2>1, <2>2 DEF AgenteLee
  <1>6. Suelta(j) => Suelta(j)'
    <2>1. ASSUME NEW k \in DOMAIN canal, Ultima(j, k), canal[k].clase = "JOB_RELEASE"
          PROVE  Suelta(j)'
      <3>1. CASE k = 1
        <4>1. SinLineas(j)' /\ agente'[j] = SinPedido
          BY <1>0, <1>2, <1>4, <2>1, <3>1, LineaLeida
        <4>2. QED
          BY <4>1 DEF Suelta
      <3>2. CASE k # 1
        <4>1. Ultima(j, k - 1)' /\ canal'[k - 1] = canal[k]
          BY <1>0, <2>1, <3>2, LineaLeida
        <4>2. k - 1 \in DOMAIN canal'
          BY <4>1 DEF Ultima
        <4>3. QED
          BY <2>1, <4>1, <4>2 DEF Suelta
      <3>3. QED
        BY <3>1, <3>2
    <2>2. QED
      BY <1>3, <2>1 DEF Suelta
  <1>7. Pedida(j) => Pedida(j)' /\ agente[j].vez <= intentos[j]
    <2>1. ASSUME NEW k \in DOMAIN canal, Ultima(j, k), canal[k].clase = "JOB_REQUEST",
                 \A i \in DOMAIN canal :
                    i < k /\ canal[i].job = j /\ canal[i].clase = "JOB_REQUEST" =>
                        canal[i].vez <= intentos[j]
          PROVE  Pedida(j)'
      <3>1. CASE k = 1
        <4>1. SinLineas(j)'
          BY <1>0, <2>1, <3>1, LineaLeida
        <4>2. QED
          BY <4>1 DEF Pedida
      <3>2. CASE k # 1
        <4>1. /\ Ultima(j, k - 1)' /\ canal'[k - 1] = canal[k] /\ k > 1 /\ k \in Nat
              /\ \A i \in DOMAIN canal' :
                    i \in Nat /\ i + 1 \in DOMAIN canal /\ canal'[i] = canal[i + 1]
          BY <1>0, <2>1, <3>2, LineaLeida
        <4>2. k - 1 \in DOMAIN canal'
          BY <4>1 DEF Ultima
        <4>3. agente'[j].vez <= intentos[j]
          BY <1>0, <1>2, <1>4, <2>1, <4>1 DEF SinPedido
        <4>4. \A i \in DOMAIN canal' :
                 i < k - 1 /\ canal'[i].job = j /\ canal'[i].clase = "JOB_REQUEST" =>
                     canal'[i].vez <= intentos[j]
          BY <2>1, <4>1
        <4>5. QED
          BY <1>0, <2>1, <4>1, <4>2, <4>3, <4>4 DEF Pedida
      <3>3. QED
        BY <3>1, <3>2
    <2>2. QED
      BY <1>3, <2>1 DEF Pedida
  <1>8. ASSUME NEW v \in Nat, Hasta(j, v) PROVE Hasta(j, v)'
    <2>1. ToSet(canal') \subseteq ToSet(canal)
      BY <1>0, LineaLeida
    <2>2. agente'[j].vez <= v
      BY <1>2, <1>4, <1>8 DEF Hasta, SinPedido
    <2>3. \A m : DeCamino(m, j)' => m.vez <= v
      BY <1>0, <1>5, <1>8 DEF Hasta
    <2>4. QED
      BY <2>1, <2>2, <2>3, <1>8 DEF Hasta
  <1>9. trab[j] = "espera" =>
           \A m : DeCamino(m, j)' /\ m.clase = "JOB_GRANTED" => m.vez # intentos[j] + 1
    <2> SUFFICES ASSUME trab[j] = "espera", NEW m, DeCamino(m, j)', m.clase = "JOB_GRANTED",
                        m.vez = intentos[j] + 1
                 PROVE  FALSE
      OBVIOUS
    <2>1. agente[j].vez <= intentos[j]
      BY <1>7 DEF EnOrden
    <2>2. DeCamino(m, j)
      BY <2>1, <1>0, <1>5
    <2>3. Vigente(j)
      BY <2>2, <1>0 DEF EnOrden
    <2>4. QED
      BY <2>3, <1>3 DEF Vigente
  <1>10. trab[j] # "sin_crear"
    BY <1>3 DEF EnOrden
  <1>11. (trab[j] = "pide" => Hasta(j, intentos[j])')
         /\ (trab[j] \in {"espera", "descansa"} => Hasta(j, intentos[j] + 1)')
    <2>1. PICK v \in Nat : v = intentos[j]
      BY <1>0
    <2>2. v + 1 \in Nat
      OBVIOUS
    <2>3. /\ trab[j] = "pide" => Hasta(j, v)'
          /\ trab[j] \in {"espera", "descansa"} => Hasta(j, v + 1)'
      BY <2>1, <2>2, <1>8 DEF EnOrden
    <2>4. QED
      BY <2>1, <2>3, <1>0 DEF Hasta
  <1>12. QED
    BY <1>0, <1>6, <1>7, <1>9, <1>10, <1>11 DEF EnOrden

\* A line is read by the agent, seen by the other jobs.
LEMMA LeeAjeno ==
    ASSUME TInv, NEW j \in Trabajos, EnOrden(j), AgenteLee, Head(canal).job # j
    PROVE  EnOrden(j)' /\ (agente'[j] = agente[j])
  <1>0. /\ canal # <<>> /\ canal' = Tail(canal) /\ EsSeq(canal)
        /\ UNCHANGED <<trab, intentos, buzon>> /\ ToSet(<<>>) = {}
        /\ agente = [k \in Trabajos |-> agente[k]]
        /\ \A m : DeCamino(m, j) => m \in ToSet(buzonServ) \cup ToSet(buzon[j])
    BY DEF AgenteLee, TInv, Formas, trabajo, DeCamino, Contesta, ToSet
  <1>1. PICK x : x = Head(canal)
    OBVIOUS
  <1>2. x \in ToSet(canal) /\ x = canal[1] /\ x.job # j
    BY <1>0, <1>1, LineaLeida
  <1>3. agente'[j] = agente[j]
    <2>1. UNCHANGED agente \/ \E f : agente' = [agente EXCEPT ![x.job] = f]
      BY <1>1 DEF AgenteLee
    <2>2. QED
      BY <1>0, <1>2, <2>1
  <1>4. \A m : DeCamino(m, j)' => DeCamino(m, j)
    <2>1. CASE UNCHANGED buzonServ
      BY <2>1, <1>0 DEF DeCamino, Contesta
    <2>2. ASSUME NEW y, Responder(y), y.clase = "NODES" \/ y.job = x.job
          PROVE  \A m : DeCamino(m, j)' => DeCamino(m, j)
      <3>1. UNCHANGED buzonServ \/ (buzonServ' = Append(buzonServ, y) /\ y.clase # "NODES")
        BY <2>2 DEF Responder
      <3>2. EsSeq(buzonServ)
        BY DeUnConjunto DEF TInv, Formas
      <3>3. ToSet(Append(buzonServ, y)) = ToSet(buzonServ) \cup {y}
        BY <3>2, AlFinal
      <3>4. QED
        BY <1>0, <1>2, <2>2, <3>1, <3>3 DEF DeCamino, Contesta
    <2>3. \A S : Lista(S).clase = "NODES"
      BY DEF Lista
    <2>4. \A v : Respuesta("JOB_GRANTED", x.job, v).job = x.job
      BY DEF Respuesta
    <2>5. \/ UNCHANGED buzonServ
          \/ \E S : Responder(Lista(S))
          \/ \E v : Responder(Respuesta("JOB_GRANTED", x.job, v))
      BY <1>1 DEF AgenteLee
    <2>6. QED
      BY <2>1, <2>2, <2>3, <2>4, <2>5
  <1>5. SinLineas(j) => SinLineas(j)'
    BY <1>0, LineaLeida
  <1>6. \A k : Ultima(j, k) => /\ Ultima(j, k - 1)' /\ canal'[k - 1] = canal[k]
                               /\ k > 1 /\ k \in Nat /\ k - 1 \in DOMAIN canal'
    <2>1. \A k : Ultima(j, k) => k # 1
      BY <1>2 DEF Ultima
    <2>2. QED
      BY <2>1, <1>0, LineaLeida DEF Ultima
  <1>7. \A i \in DOMAIN canal' :
            i \in Nat /\ i + 1 \in DOMAIN canal /\ canal'[i] = canal[i + 1]
    BY <1>0, LineaLeida
  <1>8. Suelta(j) => Suelta(j)'
    BY <1>3, <1>5, <1>6 DEF Suelta
  <1>9. Pedida(j) => Pedida(j)'
    <2>1. ASSUME NEW k \in DOMAIN canal, Ultima(j, k), canal[k].clase = "JOB_REQUEST",
                 agente[j].vez <= intentos[j],
                 \A i \in DOMAIN canal :
                    i < k /\ canal[i].job = j /\ canal[i].clase = "JOB_REQUEST" =>
                        canal[i].vez <= intentos[j]
          PROVE  Pedida(j)'
      <3>1. /\ Ultima(j, k - 1)' /\ canal'[k - 1] = canal[k] /\ k > 1 /\ k \in Nat
            /\ k - 1 \in DOMAIN canal'
        BY <1>6, <2>1
      <3>2. \A i \in DOMAIN canal' :
                 i < k - 1 /\ canal'[i].job = j /\ canal'[i].clase = "JOB_REQUEST" =>
                     canal'[i].vez <= intentos[j]
        BY <1>7, <2>1, <3>1
      <3>3. QED
        BY <1>0, <1>3, <2>1, <3>1, <3>2 DEF Pedida
    <2>2. QED
      BY <1>5, <2>1 DEF Pedida
  <1>10. ASSUME NEW v, Hasta(j, v) PROVE Hasta(j, v)'
    <2>1. ToSet(canal') \subseteq ToSet(canal)
      BY <1>0, LineaLeida
    <2>2. QED
      BY <2>1, <1>0, <1>3, <1>4, <1>10 DEF Hasta
  <1>11. Vigente(j) => Vigente(j)'
    BY <1>3, <1>5 DEF Vigente
  <1>12. trab[j] = "sin_crear" => \A m : ~ Contesta(m, j)'
    <2>1. trab[j] = "sin_crear" => \A m : ~ DeCamino(m, j)
      BY <1>0 DEF EnOrden, DeCamino, Contesta
    <2>2. QED
      BY <2>1, <1>4 DEF DeCamino
  <1>13. \A v : Hasta(j, v) => Hasta(j, v)'
    BY <1>10
  <1>14. (trab[j] = "pide" => Hasta(j, intentos[j])')
         /\ (trab[j] \in {"espera", "descansa"} => Hasta(j, intentos[j] + 1)')
    <2>1. PICK v, w : v = intentos[j] /\ w = intentos[j] + 1
      OBVIOUS
    <2>2. /\ trab[j] = "pide" => Hasta(j, v)'
          /\ trab[j] \in {"espera", "descansa"} => Hasta(j, w)'
      BY <2>1, <1>10 DEF EnOrden
    <2>3. QED
      BY <2>1, <2>2, <1>0 DEF Hasta
  <1>15. QED
    BY <1>0, <1>3, <1>4, <1>5, <1>8, <1>9, <1>11, <1>12, <1>14 DEF EnOrden


\* The agent answers the request of a job, seen by the job.
LEMMA ContestaPropio ==
    ASSUME TInv, Vivo, NEW j \in Trabajos, EnOrden(j), Trabaja(j), agente[j].est = "pedido",
           NEW clase \in ClasesRespuesta, NEW est, Anotar(j, est),
           clase = "JOB_GRANTED" => est = "concedido",
           Responder(Respuesta(clase, j, agente[j].vez)), UNCHANGED <<canal, trabajo>>
    PROVE  EnOrden(j)' /\ Trabaja(j)'
  <1>0. /\ UNCHANGED <<canal, trab, intentos, buzon, permiso>> /\ EsFicha(agente[j])
        /\ agente = [k \in Trabajos |-> agente[k]]
        /\ intentos[j] \in Nat /\ agente[j].vez \in Nat
        /\ \A m : DeCamino(m, j) => m \in ToSet(buzonServ) \cup ToSet(buzon[j])
    BY VecesDe DEF TInv, Formas, trabajo, DeCamino, Contesta
  <1>0a. PICK v \in Nat : v = agente[j].vez
    BY <1>0
  <1>1. PICK y : v = agente[j].vez /\ y = Respuesta(clase, j, v)
    BY <1>0a
  <1>2. agente'[j].vez = v /\ agente'[j].est = est
    <2>1. agente[j] = [est |-> agente[j].est, vez |-> agente[j].vez, pide |-> agente[j].pide]
      BY <1>0 DEF EsFicha, SinPedido
    <2>2. agente'[j] = [agente[j] EXCEPT !.est = est]
      BY <1>0 DEF Anotar
    <2>3. agente'[j] = [est |-> est, vez |-> v, pide |-> agente[j].pide]
      BY <1>1, <2>1, <2>2
    <2>4. QED
      BY <2>3
  <1>3. agente[j] # SinPedido /\ trab[j] # "sin_crear" /\ ~ Vigente(j)
    BY DEF SinPedido, EnOrden, Vigente
  <1>4. \A m : DeCamino(m, j)' => DeCamino(m, j) \/ m = y
    <2>1. UNCHANGED buzonServ \/ buzonServ' = Append(buzonServ, y)
      BY <1>1 DEF Responder
    <2>2. EsSeq(buzonServ)
      BY DeUnConjunto DEF TInv, Formas
    <2>3. ToSet(Append(buzonServ, y)) = ToSet(buzonServ) \cup {y}
      BY <2>2, AlFinal
    <2>4. QED
      BY <1>0, <2>1, <2>3 DEF DeCamino, Contesta
  <1>5. y.vez = v /\ y.clase = clase
    BY <1>1 DEF Respuesta
  <1>6. Suelta(j) => Suelta(j)'
    BY <1>0, <1>3 DEF Suelta, Ultima
  <1>7. Pedida(j) => Pedida(j)'
    BY <1>0, <1>1, <1>2 DEF Pedida, Ultima, SinLineas
  <1>8. ASSUME NEW w, Hasta(j, w) PROVE Hasta(j, w)'
    <2>1. \A m : DeCamino(m, j)' => m.vez <= w
      BY <1>0, <1>1, <1>4, <1>5, <1>8 DEF Hasta
    <2>2. QED
      BY <1>0, <1>1, <1>2, <1>8, <2>1 DEF Hasta
  <1>9. (trab[j] = "pide" => Hasta(j, intentos[j])')
         /\ (trab[j] \in {"espera", "descansa"} => Hasta(j, intentos[j] + 1)')
    <2>1. PICK u, w : u = intentos[j] /\ w = intentos[j] + 1
      OBVIOUS
    <2>2. /\ trab[j] = "pide" => Hasta(j, u)'
          /\ trab[j] \in {"espera", "descansa"} => Hasta(j, w)'
      BY <2>1, <1>8 DEF EnOrden
    <2>3. QED
      BY <2>1, <2>2, <1>0 DEF Hasta
  <1>10. ASSUME trab[j] = "espera", NEW m, DeCamino(m, j)', m.clase = "JOB_GRANTED",
                m.vez = intentos[j] + 1
         PROVE  Vigente(j)'
    <2>1. ~ DeCamino(m, j)
      BY <1>0, <1>3, <1>10 DEF EnOrden
    <2>2. m = y
      BY <1>4, <1>10, <2>1
    <2>3. agente[j].vez = intentos[j] + 1 /\ est = "concedido"
      BY <2>2, <1>1, <1>5, <1>10
    <2>4. ~ (agente[j].vez <= intentos[j])
      BY <2>3, <1>0
    <2>5. SinLineas(j)
      BY <1>10, <2>4 DEF EnOrden, Pedida
    <2>6. QED
      BY <1>0, <1>2, <2>3, <2>5 DEF Vigente, SinLineas
  <1>11. EnOrden(j)'
    BY <1>0, <1>3, <1>6, <1>7, <1>9, <1>10 DEF EnOrden
  <1>12. Trabaja(j)'
    BY <1>0, <1>3 DEF Trabaja
  <1>13. QED
    BY <1>11, <1>12

\* The agent answers the request of a job, seen by the others.
LEMMA ContestaAjeno ==
    ASSUME TInv, Vivo, NEW j \in Trabajos, NEW k \in Trabajos, k # j, agente[k].est = "pedido",
           NEW clase \in ClasesRespuesta, NEW est, Anotar(k, est),
           Responder(Respuesta(clase, k, agente[k].vez)), UNCHANGED <<canal, trabajo>>
    PROVE  agente'[j] = agente[j] /\ \A m : DeCamino(m, j)' => DeCamino(m, j)
  <1>1. agente'[j] = agente[j]
    BY DEF Anotar, TInv, Formas
  <1>2. PICK y : y = Respuesta(clase, k, agente[k].vez)
    OBVIOUS
  <1>3. y.job = k
    BY <1>2 DEF Respuesta
  <1>4. UNCHANGED buzonServ \/ buzonServ' = Append(buzonServ, y)
    BY <1>2 DEF Responder
  <1>5. EsSeq(buzonServ)
    BY DeUnConjunto DEF TInv, Formas
  <1>6. ToSet(Append(buzonServ, y)) = ToSet(buzonServ) \cup {y}
    BY <1>5, AlFinal
  <1>7. \A m : DeCamino(m, j)' => DeCamino(m, j)
    BY <1>3, <1>4, <1>6 DEF DeCamino, Contesta, trabajo
  <1>8. QED
    BY <1>1, <1>7

\* A message of the scheduler, or of a job, is no answer.
LEMMA AvisoNoContesta ==
    ASSUME TInv, NEW j \in Trabajos, NEW clase \in {"add", "remove"}, NEW k,
           buzonServ' = Append(buzonServ, Orden(clase, k)), buzon'[j] = buzon[j]
    PROVE  \A m : DeCamino(m, j)' => DeCamino(m, j)
  <1>1. PICK y : y = Orden(clase, k)
    OBVIOUS
  <1>2. y.clase \notin ClasesRespuesta
    BY <1>1 DEF Orden, ClasesRespuesta
  <1>3. EsSeq(buzonServ)
    BY DeUnConjunto DEF TInv, Formas
  <1>4. ToSet(buzonServ') = ToSet(buzonServ) \cup {y}
    BY <1>1, <1>3, AlFinal
  <1>5. QED
    BY <1>2, <1>4 DEF DeCamino, Contesta

\* The server takes a message: what it gives a job was on its way to it.
LEMMA SirveLoQueVenia ==
    ASSUME TInv, NEW j \in Trabajos, Servir
    PROVE  /\ \A m : DeCamino(m, j)' => DeCamino(m, j)
           /\ trab[j] = "sin_crear" => buzon'[j] = buzon[j]
  <1>0. /\ buzonServ # <<>> /\ buzonServ' = Tail(buzonServ) /\ EsSeq(buzonServ)
        /\ buzon \in [Trabajos -> Seq(Respuestas)]
    BY DeUnConjunto DEF TInv, Formas, Servir
  <1>1. PICK x : x = Head(buzonServ)
    OBVIOUS
  <1>2. x \in ToSet(buzonServ) /\ ToSet(buzonServ') \subseteq ToSet(buzonServ)
    BY <1>0, <1>1, SinElPrimero
  <1>3. \/ UNCHANGED buzon
        \/ /\ x.clase \in ClasesRespuesta /\ Recibe(x.job)
           /\ buzon' = [buzon EXCEPT ![x.job] = Append(@, x)]
    BY <1>1 DEF Servir, ClasesRespuesta
  <1>4. CASE buzon'[j] = buzon[j]
    BY <1>2, <1>4 DEF DeCamino, Contesta
  <1>5. CASE /\ x.clase \in ClasesRespuesta /\ Recibe(j) /\ x.job = j
             /\ buzon'[j] = Append(buzon[j], x)
    <2>1. EsSeq(buzon[j])
      BY <1>0, DeUnConjunto
    <2>2. ToSet(buzon'[j]) = ToSet(buzon[j]) \cup {x}
      BY <1>5, <2>1, AlFinal
    <2>3. \A m : DeCamino(m, j)' => DeCamino(m, j)
      BY <1>2, <1>5, <2>2 DEF DeCamino, Contesta
    <2>4. QED
      BY <1>5, <2>3 DEF Recibe
  <1>6. QED
    BY <1>0, <1>3, <1>4, <1>5

\* A job is created: nothing of it is on its way.
LEMMA CrearPropio ==
    ASSUME TInv, NEW j \in Trabajos, EnOrden(j), Trabaja(j), Crear, j = Nuevo
    PROVE  EnOrden(j)' /\ Trabaja(j)'
  <1>1. /\ trab'[j] = "pide" /\ UNCHANGED <<canal, intentos, buzon, buzonServ, agente>>
    BY DEF Crear, Ir, TInv, TypeOK, servidor
  <1>2. trab[j] = "sin_crear"
    <2>1. j \notin Creados
      BY ElNuevo DEF TInv, Trabajos
    <2>2. QED
      BY <2>1 DEF Creados
  <1>3. /\ SinLineas(j) /\ agente[j] = SinPedido /\ intentos[j] = 0 /\ buzon[j] = <<>>
        /\ \A m \in ToSet(buzonServ) : ~ Contesta(m, j)
    BY <1>2 DEF EnOrden
  <1>4. Suelta(j)'
    BY <1>1, <1>3 DEF Suelta, SinLineas
  <1>5. Hasta(j, intentos[j])'
    <2>1. \A m \in ToSet(canal) : m.job # j
      BY <1>3 DEF SinLineas, ToSet
    <2>2. \A m : ~ DeCamino(m, j)
      BY <1>3 DEF DeCamino, Contesta, ToSet
    <2>3. agente[j].vez = 0 /\ 0 <= 0
      BY <1>3 DEF SinPedido
    <2>4. \A m : ~ DeCamino(m, j)'
      BY <1>1, <2>2 DEF DeCamino, Contesta
    <2>5. QED
      BY <1>1, <1>3, <2>1, <2>3, <2>4 DEF Hasta
  <1>6. QED
    BY <1>1, <1>4, <1>5 DEF EnOrden, Trabaja

\* What the scheduler, the server, and the other jobs do is nothing to a job.
LEMMA PlanificadorAjeno ==
    ASSUME TInv, NEW j \in Trabajos, ~ (Crear /\ j = Nuevo),
           \/ Scheduler \/ Servir \/ Silencio
           \/ \E k \in Trabajos : k # j /\ Trabajo(k)
    PROVE  /\ trab'[j] = trab[j] /\ intentos'[j] = intentos[j] /\ permiso'[j] = permiso[j]
           /\ agente'[j] = agente[j]
           /\ trab[j] = "sin_crear" => buzon'[j] = buzon[j]
           /\ \A m : DeCamino(m, j)' => DeCamino(m, j)
           /\ \/ canal' = canal
              \/ \E x : x.job # j /\ canal' = Append(canal, x)
  <1> DEFINE Meta ==
           /\ trab'[j] = trab[j] /\ intentos'[j] = intentos[j] /\ permiso'[j] = permiso[j]
           /\ agente'[j] = agente[j]
           /\ trab[j] = "sin_crear" => buzon'[j] = buzon[j]
           /\ \A m : DeCamino(m, j)' => DeCamino(m, j)
           /\ \/ canal' = canal
              \/ \E x : x.job # j /\ canal' = Append(canal, x)
  <1>0. /\ trab \in [Trabajos -> Etapas] /\ intentos \in [Trabajos -> 0..INTENTOS_HASTA_DESCARTAR]
        /\ permiso \in [Trabajos -> 0..(INTENTOS_HASTA_DESCARTAR + 1)]
        /\ buzon \in [Trabajos -> Seq(Respuestas)] /\ j # 0
    BY Numeros DEF TInv, TypeOK, Formas
  <1>1. ASSUME UNCHANGED <<buzonServ, buzon>> PROVE \A m : DeCamino(m, j)' => DeCamino(m, j)
    BY <1>1 DEF DeCamino, Contesta
  <1>2. ASSUME Enviar(Orden("GET_NODES", 0))
        PROVE  \E x : x.job # j /\ canal' = Append(canal, x)
    <2>1. Orden("GET_NODES", 0).job # j
      BY <1>0 DEF Orden
    <2>2. QED
      BY <1>2, <2>1 DEF Enviar
  <1>3. ASSUME PedirNodos \/ RecibirNodos PROVE Meta
    <2>1. /\ UNCHANGED <<trab, intentos, permiso, agente, buzonServ, buzon>>
          /\ UNCHANGED canal \/ Enviar(Orden("GET_NODES", 0))
      BY <1>3 DEF PedirNodos, RecibirNodos, servidor, trabajo
    <2>2. QED
      BY <1>1, <1>2, <2>1
  <1>4. ASSUME EsperarFin \/ OtraRonda \/ Silencio PROVE Meta
    <2>1. UNCHANGED <<trab, intentos, permiso, agente, buzonServ, buzon, canal>>
      BY <1>4 DEF EsperarFin, OtraRonda, Silencio, servidor, trabajo
    <2>2. QED
      BY <1>1, <2>1
  <1>5. ASSUME Crear PROVE Meta
    <2>1. /\ UNCHANGED <<intentos, permiso, agente, buzonServ, buzon, canal>>
          /\ trab'[j] = trab[j]
      BY <1>0, <1>5 DEF Crear, Ir, servidor
    <2>2. QED
      BY <1>1, <2>1
  <1>6. ASSUME Agregar PROVE Meta
    <2>1. /\ UNCHANGED <<trab, intentos, permiso, agente, buzon, canal>>
          /\ buzonServ' = Append(buzonServ, Orden("add", Nuevo - 1))
      BY <1>6 DEF Agregar, trabajo
    <2>2. QED
      BY <2>1, AvisoNoContesta
  <1>7. ASSUME Servir PROVE Meta
    <2>1. UNCHANGED <<trab, intentos, permiso, agente, canal>>
      BY <1>7 DEF Servir
    <2>2. QED
      BY <1>7, <2>1, SirveLoQueVenia
  <1>8. ASSUME NEW k \in Trabajos, k # j, Trabajo(k) PROVE Meta
    <2>1. \A e : Ir(k, e) => trab'[j] = trab[j]
      BY <1>0, <1>8 DEF Ir
    <2>2. \A e : Acabar(k, e) =>
              /\ trab'[j] = trab[j] /\ intentos'[j] = intentos[j] /\ permiso'[j] = permiso[j]
              /\ buzon'[j] = buzon[j]
      BY <1>0, <1>8, <2>1 DEF Acabar
    <2>3. /\ trab'[j] = trab[j] /\ intentos'[j] = intentos[j] /\ permiso'[j] = permiso[j]
          /\ buzon'[j] = buzon[j] /\ UNCHANGED agente
      BY <1>0, <1>8, <2>1, <2>2
         DEF Trabajo, Solicitar, Concedido, Denegado, Vencer, Reintentar, Terminar, Quitar,
             Abandonar
    <2>4. \/ UNCHANGED canal
          \/ Enviar(Orden("JOB_RELEASE", k))
          \/ Enviar(Pedido(k, intentos[k] + 1, linea[k]))
      BY <1>8
         DEF Trabajo, Solicitar, Concedido, Denegado, Vencer, Reintentar, Terminar, Quitar,
             Abandonar
    <2>5. canal' = canal \/ \E x : x.job # j /\ canal' = Append(canal, x)
      <3>1. Orden("JOB_RELEASE", k).job # j /\ Pedido(k, intentos[k] + 1, linea[k]).job # j
        BY <1>8 DEF Orden, Pedido
      <3>2. QED
        BY <2>4, <3>1 DEF Enviar
    <2>6. UNCHANGED buzonServ \/ buzonServ' = Append(buzonServ, Orden("remove", k))
      BY <1>8
         DEF Trabajo, Solicitar, Concedido, Denegado, Vencer, Reintentar, Terminar, Quitar,
             Abandonar, servidor
    <2>7. \A m : DeCamino(m, j)' => DeCamino(m, j)
      <3>1. CASE UNCHANGED buzonServ
        BY <2>3, <3>1 DEF DeCamino, Contesta
      <3>2. CASE buzonServ' = Append(buzonServ, Orden("remove", k))
        BY <2>3, <3>2, AvisoNoContesta
      <3>3. QED
        BY <2>6, <3>1, <3>2
    <2>8. QED
      BY <2>3, <2>5, <2>7
  <1>9. QED
    BY <1>3, <1>4, <1>5, <1>6, <1>7, <1>8 DEF Scheduler

\* A job that works with its last grant has no line on its way: none is read.
LEMMA TrabajaLee ==
    ASSUME TInv, NEW j \in Trabajos, Trabaja(j), AgenteLee
    PROVE  Trabaja(j)'
  <1>0. /\ canal # <<>> /\ canal' = Tail(canal) /\ EsSeq(canal)
        /\ UNCHANGED <<trab, intentos, permiso>> /\ agente = [k \in Trabajos |-> agente[k]]
    BY DEF AgenteLee, TInv, Formas, trabajo
  <1>1. SinLineas(j) => SinLineas(j)' /\ Head(canal).job # j
    BY <1>0, LineaLeida
  <1>2. PICK x : x = Head(canal)
    OBVIOUS
  <1>3. UNCHANGED agente \/ \E f : agente' = [agente EXCEPT ![x.job] = f]
    BY <1>2 DEF AgenteLee
  <1>4. x.job # j => agente'[j] = agente[j]
    BY <1>0, <1>3
  <1>5. QED
    BY <1>0, <1>1, <1>2, <1>4 DEF Trabaja, Vigente

\* The order of what concerns a job, in every step.
LEMMA OrdenPaso ==
    ASSUME OInv, [Next]_vars, Vivo', NEW j \in Trabajos
    PROVE  EnOrden(j)'
  <1>1. Vivo /\ TInv /\ EnOrden(j) /\ Trabaja(j)
    <2>1. registro' # "muerto" => registro # "muerto"
      <3>1. TypeOK
        BY DEF OInv, TInv
      <3>2. QED
        BY <3>1 DEF Next, vars, Planificador, Scheduler, PedirNodos, RecibirNodos, Crear, Agregar,
             EsperarFin, OtraRonda, Servir, Silencio, Caer, Agente, AgenteConcede, AgenteDeniega,
             AgenteLee, Trabajo, Solicitar, Concedido, Denegado, Vencer, Reintentar, Terminar,
             Quitar, Abandonar, Vivo
    <2>2. QED
      BY <2>1 DEF OInv, Vivo
  <1>2. CASE UNCHANGED vars
    <2>1. UNCHANGED <<trab, intentos, agente, buzon, buzonServ, canal>>
      BY <1>2 DEF vars, servidor, trabajo
    <2>2. \A m : DeCamino(m, j)' => DeCamino(m, j)
      BY <2>1 DEF DeCamino, Contesta
    <2>3. QED
      BY <1>1, <2>1, <2>2, Ajeno
  <1>3. CASE Crear /\ j = Nuevo
    BY <1>1, <1>3, CrearPropio
  <1>4. CASE ~ (Crear /\ j = Nuevo) /\ (Scheduler \/ Servir \/ Silencio)
    BY <1>1, <1>4, PlanificadorAjeno, Ajeno
  <1>5. CASE Caer
    BY <1>5 DEF Caer, Vivo
  <1>6. ASSUME NEW k \in Trabajos, k # j, Trabajo(k) PROVE EnOrden(j)'
    <2>1. CASE Crear /\ j = Nuevo
      BY <1>1, <2>1, CrearPropio
    <2>2. CASE ~ (Crear /\ j = Nuevo)
      BY <1>1, <1>6, <2>2, PlanificadorAjeno, Ajeno
    <2>3. QED
      BY <2>1, <2>2
  <1>7. CASE Trabajo(j)
    BY <1>1, <1>7, TrabajoPropio
  <1>8. CASE AgenteLee
    BY <1>1, <1>8, LeePropio, LeeAjeno
  <1>9. ASSUME NEW k \in Trabajos, AgenteConcede(k) \/ AgenteDeniega(k) PROVE EnOrden(j)'
    <2>1. PICK clase, est :
              /\ clase \in ClasesRespuesta /\ Anotar(k, est)
              /\ Responder(Respuesta(clase, k, agente[k].vez))
              /\ clase = "JOB_GRANTED" => est = "concedido"
              /\ agente[k].est = "pedido" /\ UNCHANGED <<canal, trabajo>>
      BY <1>9 DEF AgenteConcede, AgenteDeniega, ClasesRespuesta
    <2>2. CASE k = j
      BY <1>1, <2>1, <2>2, ContestaPropio
    <2>3. CASE k # j
      <3>1. agente'[j] = agente[j] /\ \A m : DeCamino(m, j)' => DeCamino(m, j)
        BY <1>1, <2>1, <2>3, ContestaAjeno
      <3>2. UNCHANGED <<trab, intentos, buzon, canal>>
        BY <2>1 DEF trabajo
      <3>3. QED
        BY <1>1, <3>1, <3>2, Ajeno
    <2>4. QED
      BY <2>2, <2>3
  <1>10. QED
    BY <1>2, <1>3, <1>4, <1>5, <1>6, <1>7, <1>8, <1>9 DEF Next, Planificador, Agente

\* A job that works keeps its grant, in every step, and also after the fall.
LEMMA TrabajaPaso ==
    ASSUME OInv, [Next]_vars, NEW j \in Trabajos
    PROVE  Trabaja(j)'
  <1>1. /\ TInv /\ Trabaja(j) /\ (Vivo => EnOrden(j))
        /\ trab \in [Trabajos -> Etapas]
    BY DEF OInv, TInv, TypeOK
  <1>2. CASE UNCHANGED vars
    <2>1. UNCHANGED <<trab, intentos, agente, permiso, canal>>
      BY <1>2 DEF vars, trabajo
    <2>2. QED
      BY <1>1, <2>1, TrabajaAjeno
  <1>3. CASE Crear /\ j = Nuevo
    BY <1>1, <1>3, CrearPropio DEF Crear
  <1>4. CASE ~ (Crear /\ j = Nuevo) /\ (Scheduler \/ Servir \/ Silencio)
    BY <1>1, <1>4, PlanificadorAjeno, TrabajaAjeno
  <1>5. CASE Caer
    <2>1. PICK i \in 0..Len(canal) : canal' = SubSeq(canal, 1, i)
      BY <1>5 DEF Caer
    <2>2. EsSeq(canal') /\ ToSet(canal') \subseteq ToSet(canal)
      BY <1>1, <2>1, Escritas DEF TInv, Formas
    <2>3. SinLineas(j) => SinLineas(j)'
      BY <2>2 DEF SinLineas, ToSet
    <2>4. UNCHANGED <<trab, intentos, agente, permiso>>
      BY <1>5 DEF Caer, trabajo
    <2>5. QED
      BY <1>1, <2>3, <2>4 DEF Trabaja, Vigente
  <1>6. ASSUME NEW k \in Trabajos, k # j, Trabajo(k) PROVE Trabaja(j)'
    <2>1. CASE Crear /\ j = Nuevo
      BY <1>3, <2>1
    <2>2. CASE ~ (Crear /\ j = Nuevo)
      BY <1>1, <1>6, <2>2, PlanificadorAjeno, TrabajaAjeno
    <2>3. QED
      BY <2>1, <2>2
  <1>7. CASE Trabajo(j)
    <2>1. CASE Vivo
      BY <1>1, <1>7, <2>1, TrabajoPropio
    <2>2. CASE ~ Vivo
      <3>1. Abandonar(j)
        BY <1>7, <2>2 DEF Trabajo, Solicitar, Concedido, Denegado, Vencer, Reintentar, Terminar,
             Quitar
      <3>2. trab'[j] = "fin"
        BY <1>1, <3>1 DEF Abandonar, Acabar, Ir
      <3>3. QED
        BY <3>2 DEF Trabaja
    <2>3. QED
      BY <2>1, <2>2
  <1>8. CASE AgenteLee
    BY <1>1, <1>8, TrabajaLee
  <1>9. ASSUME NEW k \in Trabajos, AgenteConcede(k) \/ AgenteDeniega(k) PROVE Trabaja(j)'
    <2>0. Vivo /\ EnOrden(j)
      BY <1>1, <1>9 DEF AgenteConcede, AgenteDeniega, Vivo
    <2>1. PICK clase, est :
              /\ clase \in ClasesRespuesta /\ Anotar(k, est)
              /\ Responder(Respuesta(clase, k, agente[k].vez))
              /\ clase = "JOB_GRANTED" => est = "concedido"
              /\ agente[k].est = "pedido" /\ UNCHANGED <<canal, trabajo>>
      BY <1>9 DEF AgenteConcede, AgenteDeniega, ClasesRespuesta
    <2>2. CASE k = j
      BY <1>1, <2>0, <2>1, <2>2, ContestaPropio
    <2>3. CASE k # j
      <3>1. agente'[j] = agente[j]
        BY <1>1, <2>0, <2>1, <2>3, ContestaAjeno
      <3>2. UNCHANGED <<trab, intentos, permiso, canal>>
        BY <2>1 DEF trabajo
      <3>3. QED
        BY <1>1, <3>1, <3>2, TrabajaAjeno
    <2>4. QED
      BY <2>2, <2>3
  <1>10. QED
    BY <1>2, <1>3, <1>4, <1>5, <1>6, <1>7, <1>8, <1>9 DEF Next, Planificador, Agente

\* The invariant holds at the start.
LEMMA OInvInit == Init => OInv
  <1> SUFFICES ASSUME Init PROVE OInv
    OBVIOUS
  <1>1. TInv
    BY TInvInit
  <1>2. ASSUME NEW j \in Trabajos PROVE EnOrden(j) /\ Trabaja(j)
    <2>1. /\ trab[j] = "sin_crear" /\ intentos[j] = 0 /\ buzon[j] = <<>>
          /\ agente[j] = SinPedido /\ canal = <<>> /\ buzonServ = <<>>
      BY DEF Init
    <2>2. SinLineas(j) /\ ToSet(buzonServ) = {}
      BY <2>1 DEF SinLineas, ToSet
    <2>3. QED
      BY <2>1, <2>2 DEF EnOrden, Trabaja
  <1>3. QED
    BY <1>1, <1>2 DEF OInv

\* Every step keeps it.
LEMMA OInvPaso == OInv /\ [Next]_vars => OInv'
  <1> SUFFICES ASSUME OInv, [Next]_vars PROVE OInv'
    OBVIOUS
  <1>1. TInv'
    BY TInvPaso DEF OInv
  <1>2. \A j \in Trabajos : Vivo' => EnOrden(j)'
    BY OrdenPaso
  <1>3. \A j \in Trabajos : Trabaja(j)'
    BY TrabajaPaso
  <1>4. QED
    BY <1>1, <1>2, <1>3 DEF OInv

\* It is enough for what is claimed.
LEMMA OInvBasta == OInv => PermisoVigente /\ SinReservasOlvidadas
  <1> SUFFICES ASSUME OInv PROVE PermisoVigente /\ SinReservasOlvidadas
    OBVIOUS
  <1>1. PermisoVigente
    BY DEF OInv, Trabaja, Vigente, PermisoVigente
  <1>2. SinReservasOlvidadas
    <2> SUFFICES ASSUME NEW j \in Trabajos, Vivo, trab[j] \in {"fin", "quita", "descansa", "pide"},
                        SinLineas(j)
                 PROVE  agente[j] = SinPedido
      BY DEF SinReservasOlvidadas, SinLineas
    <2>1. Suelta(j)
      BY DEF OInv, EnOrden
    <2>2. QED
      BY <2>1 DEF Suelta, Ultima, SinLineas
  <1>3. QED
    BY <1>1, <1>2

\* A job that works with the grant of its last request holds its resources,
\* whatever the delays (ejecutar_trabajo).
THEOREM PermisoVigenteSiempre == Spec => []PermisoVigente
  BY OInvInit, OInvPaso, OInvBasta, PTL DEF Spec

\* What a job has released, and given up, is not left at the agent
\* (manejar_fallo, ejecutar_trabajo).
THEOREM SinReservasOlvidadasSiempre == Spec => []SinReservasOlvidadas
  BY OInvInit, OInvPaso, OInvBasta, PTL DEF Spec
-----------------------------------------------------------------------------
(* Recursion that descends *)

\* A way to build sequences: at v, the options R.op[v] each put R.cab[v][o] in
\* front of what is built at R.sig[v][o]; where there is none, the end.
Cuerpo(R, f, v) ==
    IF R.op[v] = {} THEN {<<>>}
    ELSE UNION {{<<R.cab[v][o]>> \o resto : resto \in f[R.sig[v][o]]} : o \in R.op[v]}

\* Each option goes down.
Desciende(R) ==
    \A v \in R.dom :
        /\ R.niv[v] \in Nat
        /\ \A o \in R.op[v] : R.sig[v][o] \in R.dom /\ R.niv[R.sig[v][o]] < R.niv[v]

\* f is the recursion, up to a level and at all of them.
HastaNivel(R, m) == {v \in R.dom : R.niv[v] <= m}
EsHasta(R, f, m) == f = [v \in HastaNivel(R, m) |-> Cuerpo(R, f, v)]
EsReparto(R, f) == f = [v \in R.dom |-> Cuerpo(R, f, v)]

\* The body looks at its options only.
LEMMA CuerpoIgual ==
    ASSUME NEW R, NEW f, NEW g, NEW v,
           \A o \in R.op[v] : f[R.sig[v][o]] = g[R.sig[v][o]]
    PROVE  Cuerpo(R, f, v) = Cuerpo(R, g, v)
  <1> DEFINE A(o) == {<<R.cab[v][o]>> \o resto : resto \in f[R.sig[v][o]]}
             B(o) == {<<R.cab[v][o]>> \o resto : resto \in g[R.sig[v][o]]}
  <1>1. \A o \in R.op[v] : A(o) = B(o)
    OBVIOUS
  <1> HIDE DEF A, B
  <1>2. {A(o) : o \in R.op[v]} = {B(o) : o \in R.op[v]}
    BY <1>1
  <1>3. QED
    BY <1>2 DEF Cuerpo, A, B

\* There is a recursion up to each level.
LEMMA HayHasta ==
    ASSUME NEW R, Desciende(R), NEW n \in Nat
    PROVE  \E f : EsHasta(R, f, n)
  <1> DEFINE A == {m \in Nat : \E f : EsHasta(R, f, m)}
  <1>1. ASSUME NEW m \in Nat, NEW f,
               \A v \in HastaNivel(R, m) : \A o \in R.op[v] :
                  f[R.sig[v][o]] = Cuerpo(R, f, R.sig[v][o])
        PROVE  m \in A
    <2> DEFINE q == [v \in HastaNivel(R, m) |-> Cuerpo(R, f, v)]
    <2>1. ASSUME NEW v \in HastaNivel(R, m)
          PROVE  Cuerpo(R, f, v) = Cuerpo(R, q, v)
      <3>1. ASSUME NEW o \in R.op[v]
            PROVE  f[R.sig[v][o]] = q[R.sig[v][o]]
        <4>1. R.sig[v][o] \in HastaNivel(R, m)
          BY DEF HastaNivel, Desciende
        <4>2. QED
          BY <1>1, <4>1
      <3> HIDE DEF q
      <3>2. QED
        BY <3>1, CuerpoIgual
    <2>2. EsHasta(R, q, m)
      BY <2>1 DEF EsHasta
    <2> HIDE DEF q
    <2>3. QED
      BY <2>2
  <1>2. 0 \in A
    <2>1. \A v \in HastaNivel(R, 0) : \A o \in R.op[v] : FALSE
      BY DEF HastaNivel, Desciende
    <2> HIDE DEF A
    <2>2. QED
      BY <2>1, <1>1
  <1>3. \A m \in 1..n : m - 1 \in A => m \in A
    <2>1. SUFFICES ASSUME NEW m \in 1..n, m - 1 \in A PROVE m \in A
      OBVIOUS
    <2>2. PICK f : EsHasta(R, f, m - 1)
      BY <2>1
    <2>3. ASSUME NEW v \in HastaNivel(R, m), NEW o \in R.op[v]
          PROVE  f[R.sig[v][o]] = Cuerpo(R, f, R.sig[v][o])
      <3>1. R.sig[v][o] \in HastaNivel(R, m - 1)
        BY DEF HastaNivel, Desciende
      <3>2. QED
        BY <2>2, <3>1 DEF EsHasta
    <2> HIDE DEF A
    <2>4. QED
      BY <1>1, <2>3
  <1> HIDE DEF A
  <1>4. n \in A
    BY <1>2, <1>3, HastaN
  <1>5. QED
    BY <1>4 DEF A

\* Two of them agree where both are defined.
LEMMA HastaUnico ==
    ASSUME NEW R, Desciende(R), NEW m \in Nat, NEW l \in Nat,
           NEW f, EsHasta(R, f, m), NEW g, EsHasta(R, g, l),
           NEW v \in HastaNivel(R, m) \cap HastaNivel(R, l)
    PROVE  f[v] = g[v]
  <1> DEFINE Comunes == HastaNivel(R, m) \cap HastaNivel(R, l)
             A == {k \in 0..m : \A w \in Comunes : R.niv[w] <= k => f[w] = g[w]}
  <1>1. \A w \in Comunes : f[w] = Cuerpo(R, f, w) /\ g[w] = Cuerpo(R, g, w)
    BY DEF EsHasta
  <1>2. ASSUME NEW w \in Comunes, NEW o \in R.op[w]
        PROVE  R.sig[w][o] \in Comunes /\ R.niv[R.sig[w][o]] < R.niv[w]
    BY DEF HastaNivel, Desciende
  <1>3. ASSUME NEW w \in Comunes,
               \A o \in R.op[w] : f[R.sig[w][o]] = g[R.sig[w][o]]
        PROVE  f[w] = g[w]
    BY <1>1, <1>3, CuerpoIgual
  <1>4. \A w \in Comunes : R.niv[w] \in Nat
    BY DEF HastaNivel, Desciende
  <1>a. R.niv[v] <= m
    BY DEF HastaNivel
  <1>b. v \in Comunes
    OBVIOUS
  <1> HIDE DEF Comunes
  <1>5. 0 \in A
    <2>1. ASSUME NEW w \in Comunes, R.niv[w] <= 0
          PROVE  f[w] = g[w]
      <3>1. \A o \in R.op[w] : FALSE
        BY <1>2, <1>4, <2>1
      <3>2. QED
        BY <1>3, <3>1
    <2>2. QED
      BY <2>1
  <1>6. \A k \in 1..m : k - 1 \in A => k \in A
    <2>1. SUFFICES ASSUME NEW k \in 1..m, k - 1 \in A, NEW w \in Comunes, R.niv[w] <= k
                   PROVE  f[w] = g[w]
      OBVIOUS
    <2>2. ASSUME NEW o \in R.op[w]
          PROVE  f[R.sig[w][o]] = g[R.sig[w][o]]
      BY <1>2, <1>4, <2>1
    <2>3. QED
      BY <1>3, <2>2
  <1> HIDE DEF A
  <1>7. m \in A
    BY <1>5, <1>6, HastaN
  <1>8. QED
    BY <1>7, <1>a, <1>b DEF A

\* A recursion that goes down has a solution.
LEMMA HayReparto ==
    ASSUME NEW R, Desciende(R)
    PROVE  \E f : EsReparto(R, f)
  <1> DEFINE tramo(m) == CHOOSE f : EsHasta(R, f, m)
             F == [v \in R.dom |-> tramo(R.niv[v])[v]]
  <1>1. \A m \in Nat : EsHasta(R, tramo(m), m)
    BY HayHasta, Zenon
  <1>2. \A v \in R.dom : F[v] = tramo(R.niv[v])[v]
    OBVIOUS
  <1>3. \A v \in R.dom : R.niv[v] \in Nat /\ v \in HastaNivel(R, R.niv[v])
    BY DEF Desciende, HastaNivel
  <1>d. F = [v \in R.dom |-> F[v]]
    OBVIOUS
  <1> HIDE DEF tramo, F
  <1>4. ASSUME NEW v \in R.dom
        PROVE  F[v] = Cuerpo(R, F, v)
    <2>1. PICK f : f = tramo(R.niv[v])
      OBVIOUS
    <2>2. EsHasta(R, f, R.niv[v])
      BY <1>1, <1>3, <2>1
    <2>3. f[v] = Cuerpo(R, f, v)
      BY <1>3, <2>2 DEF EsHasta
    <2>4. ASSUME NEW o \in R.op[v]
          PROVE  f[R.sig[v][o]] = F[R.sig[v][o]]
      <3>1. PICK w \in R.dom : w = R.sig[v][o]
        BY DEF Desciende
      <3>2. w \in HastaNivel(R, R.niv[v]) /\ w \in HastaNivel(R, R.niv[w])
        BY <1>3, <3>1 DEF HastaNivel, Desciende
      <3>3. PICK g : g = tramo(R.niv[w])
        OBVIOUS
      <3>4. EsHasta(R, g, R.niv[w])
        BY <1>1, <1>3, <3>3
      <3>5. f[w] = g[w]
        BY <1>3, <2>2, <3>2, <3>4, HastaUnico
      <3>6. QED
        BY <1>2, <3>1, <3>3, <3>5
    <2>5. QED
      BY <1>2, <2>1, <2>3, <2>4, CuerpoIgual
  <1>5. EsReparto(R, F)
    BY <1>4, <1>d DEF EsReparto
  <1>6. QED
    BY <1>5

\* The weight of a sequence: the sum of those of its elements.
Peso(peso, s) == Suma(DOMAIN s, [k \in DOMAIN s |-> peso[s[k]]])

LEMMA PesoVacia ==
    ASSUME NEW peso
    PROVE  Peso(peso, <<>>) = 0
  BY SumaCero DEF Peso

\* One element put in front.
LEMMA PesoDelante ==
    ASSUME NEW C, NEW peso, \A c \in C : peso[c] \in Nat, NEW c \in C, NEW s \in Seq(C)
    PROVE  /\ <<c>> \o s \in Seq(C)
           /\ Peso(peso, <<c>> \o s) = peso[c] + Peso(peso, s)
  <1>1. PICK q : q = <<c>> \o s
    OBVIOUS
  <1>2. /\ Len(s) \in Nat /\ DOMAIN s = 1..Len(s)
        /\ \A i \in 1..Len(s) : s[i] \in C
    BY LenProperties, ElementOfSeq
  <1>3. /\ q \in Seq(C) /\ Len(q) = 1 + Len(s)
        /\ q[1] = c /\ \A i \in 1..Len(s) : q[i + 1] = s[i]
    <2>1. <<c>> \in Seq(C) /\ Len(<<c>>) = 1 /\ <<c>>[1] = c
      OBVIOUS
    <2>2. PICK u \in Seq(C) : u = <<c>>
      BY <2>1
    <2>3. /\ u \o s \in Seq(C) /\ Len(u \o s) = 1 + Len(s)
          /\ \A i \in 1..(Len(u) + Len(s)) :
                (u \o s)[i] = IF i <= Len(u) THEN u[i] ELSE s[i - Len(u)]
      BY <2>1, <2>2, ConcatProperties
    <2>4. Len(u) = 1 /\ u[1] = c
      BY <2>1, <2>2
    <2>5. 1 \in 1..(1 + Len(s)) /\ \A i \in 1..Len(s) : i + 1 \in 1..(1 + Len(s))
      BY <1>2
    <2>6. /\ (u \o s)[1] = c
          /\ \A i \in 1..Len(s) : (u \o s)[i + 1] = s[i]
      BY <1>2, <2>3, <2>4, <2>5
    <2>7. QED
      BY <1>1, <2>2, <2>3, <2>6
  <1>4. PICK m \in Nat : m = Len(s)
    BY <1>2
  <1>5. DOMAIN q = 1..(m + 1)
    BY <1>3, <1>4, LenProperties
  <1>6. PICK f : f = [k \in DOMAIN q |-> peso[q[k]]]
    OBVIOUS
  <1>7. PICK g : g = [k \in DOMAIN s |-> peso[s[k]]]
    OBVIOUS
  <1>8. \A k \in 1..(m + 1) : f[k] = peso[q[k]] /\ f[k] \in Nat
    <2>1. \A k \in 1..(m + 1) : q[k] \in C
      BY <1>3, <1>4, ElementOfSeq
    <2>2. QED
      BY <1>5, <1>6, <2>1
  <1>9. \A k \in 1..m : g[k] = f[Salta(1, k)]
    <2>1. SUFFICES ASSUME NEW k \in 1..m PROVE g[k] = f[k + 1]
      BY DEF Salta
    <2>2. k + 1 \in 1..(m + 1)
      OBVIOUS
    <2>3. q[k + 1] = s[k] /\ f[k + 1] = peso[q[k + 1]]
      BY <1>3, <1>4, <1>8, <2>2
    <2>4. QED
      BY <1>2, <1>4, <1>7, <2>3
  <1>10. 1 \in 1..(m + 1)
    OBVIOUS
  <1>11. Suma(1..(m + 1), f) = f[1] + Suma(1..m, g)
    BY <1>8, <1>9, <1>10, SumaQuitar
  <1>12. f[1] = peso[c]
    BY <1>3, <1>8, <1>10
  <1>13. Peso(peso, q) = Suma(1..(m + 1), f)
    BY <1>5, <1>6 DEF Peso
  <1>14. Peso(peso, s) = Suma(1..m, g)
    BY <1>2, <1>4, <1>7 DEF Peso
  <1>15. QED
    BY <1>1, <1>3, <1>11, <1>12, <1>13, <1>14

\* What each option puts in front weighs what is lost by going down.
Conserva(R, C, peso, val) ==
    /\ \A c \in C : peso[c] \in Nat
    /\ \A v \in R.dom :
        /\ R.op[v] = {} => val[v] = 0
        /\ \A o \in R.op[v] :
            /\ R.cab[v][o] \in C
            /\ val[v] = peso[R.cab[v][o]] + val[R.sig[v][o]]

\* Then all that is built weighs what it is built from.
LEMMA PesoDeReparto ==
    ASSUME NEW R, Desciende(R), NEW f, EsReparto(R, f),
           NEW C, NEW peso, NEW val, Conserva(R, C, peso, val),
           NEW v \in R.dom, NEW s \in f[v]
    PROVE  s \in Seq(C) /\ Peso(peso, s) = val[v]
  <1> DEFINE Bien(q, w) == q \in Seq(C) /\ Peso(peso, q) = val[w]
             A == {k \in Nat : \A w \in R.dom : R.niv[w] <= k =>
                                  \A q \in f[w] : Bien(q, w)}
  <1>1. PICK n \in Nat : n = R.niv[v]
    BY DEF Desciende
  <1>2. ASSUME NEW w \in R.dom, NEW q \in f[w],
               \A o \in R.op[w] : \A r \in f[R.sig[w][o]] : Bien(r, R.sig[w][o])
        PROVE  Bien(q, w)
    <2>1. f[w] = Cuerpo(R, f, w)
      BY DEF EsReparto
    <2>2. CASE R.op[w] = {}
      <3>1. q = <<>>
        BY <2>1, <2>2 DEF Cuerpo
      <3>2. QED
        BY <2>2, <3>1, PesoVacia DEF Conserva
    <2>3. CASE R.op[w] # {}
      <3>1. PICK o \in R.op[w] : \E r \in f[R.sig[w][o]] : q = <<R.cab[w][o]>> \o r
        BY <2>1, <2>3 DEF Cuerpo
      <3>2. PICK r \in f[R.sig[w][o]] : q = <<R.cab[w][o]>> \o r
        BY <3>1
      <3>3. PICK c \in C : c = R.cab[w][o]
        BY DEF Conserva
      <3>4. Bien(r, R.sig[w][o])
        BY <1>2
      <3>5. r \in Seq(C) /\ \A d \in C : peso[d] \in Nat
        BY <3>4 DEF Conserva
      <3>6. q \in Seq(C) /\ Peso(peso, q) = peso[c] + Peso(peso, r)
        BY <3>2, <3>3, <3>5, PesoDelante
      <3>7. val[w] = peso[c] + val[R.sig[w][o]]
        BY <3>3 DEF Conserva
      <3>8. QED
        BY <3>4, <3>6, <3>7
    <2>4. QED
      BY <2>2, <2>3
  <1>3. \A w \in R.dom : R.niv[w] \in Nat
    BY DEF Desciende
  <1>4. \A w \in R.dom : \A o \in R.op[w] :
            R.sig[w][o] \in R.dom /\ R.niv[R.sig[w][o]] < R.niv[w]
    BY DEF Desciende
  <1> HIDE DEF Bien
  <1>5. 0 \in A
    <2>1. \A w \in R.dom : R.niv[w] <= 0 => \A o \in R.op[w] : FALSE
      BY <1>3, <1>4
    <2>2. QED
      BY <1>2, <2>1
  <1>6. \A k \in 1..n : k - 1 \in A => k \in A
    <2>1. SUFFICES ASSUME NEW k \in 1..n, k - 1 \in A, NEW w \in R.dom, R.niv[w] <= k,
                          NEW q \in f[w]
                   PROVE  Bien(q, w)
      OBVIOUS
    <2>2. ASSUME NEW o \in R.op[w], NEW r \in f[R.sig[w][o]]
          PROVE  Bien(r, R.sig[w][o])
      <3>1. R.sig[w][o] \in R.dom /\ R.niv[R.sig[w][o]] <= k - 1
        BY <1>3, <1>4, <2>1
      <3>2. QED
        BY <2>1, <3>1
    <2>3. QED
      BY <1>2, <2>2
  <1> HIDE DEF A
  <1>7. n \in A
    BY <1>5, <1>6, HastaN
  <1>8. Bien(s, v)
    BY <1>1, <1>7 DEF A
  <1>9. QED
    BY <1>8 DEF Bien

-----------------------------------------------------------------------------
(* The pieces of a node *)

\* Whole units of d within a.
LEMMA Unidades ==
    ASSUME NEW a \in Nat, NEW d \in Nat \ {0}
    PROVE  /\ a >= d => a \div d >= 1
           /\ \A k \in 1..(a \div d) : d * k \in Nat /\ d * k <= a /\ d * k >= 1
  <1>1. PICK q \in Nat : q = a \div d
    OBVIOUS
  <1>2. PICK r \in Nat : r = a % d
    OBVIOUS
  <1>3. a = d * q + r /\ r < d
    BY <1>1, <1>2
  <1>4. a >= d => q >= 1
    BY <1>3
  <1>5. ASSUME NEW k \in 1..q
        PROVE  d * k \in Nat /\ d * k <= a /\ d * k >= 1
    <2>1. PICK e \in Nat : q = k + e
      <3>1. q - k \in Nat /\ q = k + (q - k)
        OBVIOUS
      <3>2. QED
        BY <3>1
    <2>2. d * q = d * k + d * e
      BY <2>1
    <2>3. d * k \in Nat /\ d * e \in Nat /\ d * k >= 1
      OBVIOUS
    <2>4. QED
      BY <1>3, <2>2, <2>3
  <1>6. QED
    BY <1>1, <1>4, <1>5

\* A piece takes something of what there is, and no more; there is always one.
LEMMA UnTamano ==
    ASSUME NEW t \in Tipos, NEW a \in Nat
    PROVE  /\ Tamanos(t, a) # {}
           /\ \A x \in Tamanos(t, a) : x \in Nat /\ x <= a /\ (a > 0 => x > 0)
  <1>1. CASE a = 0
    BY <1>1 DEF Tamanos
  <1>2. CASE a # 0 /\ t # "mem"
    BY <1>2 DEF Tamanos
  <1>3. CASE a # 0 /\ t = "mem" /\ a < GB
    BY <1>3 DEF Tamanos
  <1>4. CASE a # 0 /\ t = "mem" /\ ~ (a < GB)
    <2>1. Tamanos(t, a) = {GB * k : k \in 1..(a \div GB)}
      BY <1>4 DEF Tamanos
    <2>2. GB \in Nat \ {0} /\ a >= GB
      BY <1>4, CapacidadAssumption
    <2>3. /\ a \div GB >= 1
          /\ \A k \in 1..(a \div GB) : GB * k \in Nat /\ GB * k <= a /\ GB * k >= 1
      BY <2>2, Unidades
    <2>4. 1 \in 1..(a \div GB)
      BY <2>2, <2>3
    <2> HIDE DEF Tamanos
    <2>5. QED
      BY <2>1, <2>3, <2>4
  <1>5. QED
    BY <1>1, <1>2, <1>3, <1>4

LEMMA UnTrozo ==
    ASSUME NEW r \in Montos
    PROVE  /\ Trozos(r) # {}
           /\ \A c \in Trozos(r) :
                /\ c \in Montos /\ Restantes(r, c) \in Montos
                /\ \A t \in Tipos : /\ Restantes(r, c)[t] = r[t] - c[t]
                                    /\ c[t] <= r[t] /\ (r[t] > 0 => c[t] > 0)
  <1>1. \A t \in Tipos : r[t] \in Nat
    BY DEF Montos
  <1>2. \A t \in Tipos :
            /\ Tamanos(t, r[t]) # {}
            /\ \A x \in Tamanos(t, r[t]) : x \in Nat /\ x <= r[t] /\ (r[t] > 0 => x > 0)
    BY <1>1, UnTamano
  <1>3. Trozos(r) # {}
    <2> DEFINE c == [t \in Tipos |-> CHOOSE x : x \in Tamanos(t, r[t])]
    <2>1. \A t \in Tipos : c[t] \in Tamanos(t, r[t])
      BY <1>2
    <2>2. c \in Trozos(r)
      BY <2>1 DEF Trozos
    <2>3. QED
      BY <2>2
  <1>4. ASSUME NEW c \in Trozos(r)
        PROVE  /\ c \in Montos /\ Restantes(r, c) \in Montos
               /\ \A t \in Tipos : /\ Restantes(r, c)[t] = r[t] - c[t]
                                   /\ c[t] <= r[t] /\ (r[t] > 0 => c[t] > 0)
    <2>1. \A t \in Tipos : c[t] \in Tamanos(t, r[t])
      BY DEF Trozos
    <2>2. c = [t \in Tipos |-> c[t]]
      BY DEF Trozos
    <2>3. \A t \in Tipos : c[t] \in Nat /\ c[t] <= r[t] /\ (r[t] > 0 => c[t] > 0)
      BY <1>2, <2>1
    <2>4. c \in Montos
      BY <2>2, <2>3 DEF Montos
    <2>5. \A t \in Tipos : r[t] - c[t] \in Nat
      BY <1>1, <2>3
    <2>6. QED
      BY <2>3, <2>4, <2>5 DEF Restantes, Montos
  <1>5. QED
    BY <1>3, <1>4

\* The recursion of Cortes: what is left has less units.
Unidades3(r) == r["cpu"] + r["mem"] + r["gpu"]
Opciones(r) == IF \A t \in Tipos : r[t] = 0 THEN {} ELSE Trozos(r)
Cortando ==
    [dom |-> Montos,
     niv |-> [r \in Montos |-> Unidades3(r)],
     op  |-> [r \in Montos |-> Opciones(r)],
     cab |-> [r \in Montos |-> [c \in Opciones(r) |-> c]],
     sig |-> [r \in Montos |-> [c \in Opciones(r) |-> Restantes(r, c)]]]

LEMMA CortandoBaja == Desciende(Cortando)
  <1>1. SUFFICES ASSUME NEW r \in Montos
                 PROVE  /\ Unidades3(r) \in Nat
                        /\ \A c \in Opciones(r) :
                              /\ Restantes(r, c) \in Montos
                              /\ Unidades3(Restantes(r, c)) < Unidades3(r)
    <2> HIDE DEF Montos, Unidades3, Opciones, Restantes
    <2>1. QED
      BY DEF Desciende, Cortando
  <1>2. r["cpu"] \in Nat /\ r["mem"] \in Nat /\ r["gpu"] \in Nat
    BY DEF Montos, Tipos
  <1>3. ASSUME NEW c \in Opciones(r)
        PROVE  Restantes(r, c) \in Montos /\ Unidades3(Restantes(r, c)) < Unidades3(r)
    <2>1. c \in Trozos(r) /\ \E t \in Tipos : r[t] # 0
      BY DEF Opciones
    <2>2. PICK q : q = Restantes(r, c)
      OBVIOUS
    <2>3. /\ c \in Montos /\ q \in Montos
          /\ \A t \in Tipos : q[t] = r[t] - c[t] /\ c[t] <= r[t] /\ (r[t] > 0 => c[t] > 0)
      BY <2>1, <2>2, UnTrozo
    <2>4. c["cpu"] \in Nat /\ c["mem"] \in Nat /\ c["gpu"] \in Nat
      BY <2>3 DEF Montos, Tipos
    <2>5. r["cpu"] > 0 \/ r["mem"] > 0 \/ r["gpu"] > 0
      BY <1>2, <2>1 DEF Tipos
    <2>6. Unidades3(q) < Unidades3(r)
      BY <1>2, <2>3, <2>4, <2>5 DEF Unidades3, Tipos
    <2>7. QED
      BY <2>2, <2>3, <2>6
  <1>4. QED
    BY <1>2, <1>3 DEF Unidades3

\* Cortes is what it recurs to be.
LEMMA CortesDef == EsReparto(Cortando, Cortes)
  <1> DEFINE paso(f, r) == IF \A t \in Tipos : r[t] = 0 THEN {<<>>}
                           ELSE UNION {{<<c>> \o resto : resto \in f[Restantes(r, c)]} :
                                          c \in Trozos(r)}
  <1>1. ASSUME NEW f, NEW r \in Montos
        PROVE  Cuerpo(Cortando, f, r) = paso(f, r)
    <2>1. /\ Cortando.op[r] = Opciones(r)
          /\ \A c \in Opciones(r) : /\ Cortando.cab[r][c] = c
                                    /\ Cortando.sig[r][c] = Restantes(r, c)
      BY DEF Cortando
    <2>2. CASE \A t \in Tipos : r[t] = 0
      <3>1. Cortando.op[r] = {}
        BY <2>1, <2>2 DEF Opciones
      <3>2. QED
        BY <2>2, <3>1 DEF Cuerpo
    <2>3. CASE ~ \A t \in Tipos : r[t] = 0
      <3>1. Opciones(r) = Trozos(r) /\ Trozos(r) # {}
        BY <2>3, UnTrozo DEF Opciones
      <3> DEFINE A(c) == {<<Cortando.cab[r][c]>> \o resto : resto \in f[Cortando.sig[r][c]]}
                 B(c) == {<<c>> \o resto : resto \in f[Restantes(r, c)]}
      <3>2. \A c \in Trozos(r) : A(c) = B(c)
        BY <2>1, <3>1
      <3>3. {A(c) : c \in Trozos(r)} = {B(c) : c \in Trozos(r)}
        <4> HIDE DEF A, B
        <4>1. QED
          BY <3>2
      <3>4. Cuerpo(Cortando, f, r) = UNION {A(c) : c \in Trozos(r)}
        BY <2>1, <3>1 DEF Cuerpo
      <3>5. paso(f, r) = UNION {B(c) : c \in Trozos(r)}
        BY <2>3
      <3> HIDE DEF A, B, paso
      <3>6. QED
        BY <3>3, <3>4, <3>5
    <2>4. QED
      BY <2>2, <2>3
  <1>2. \E f : f = [r \in Montos |-> paso(f, r)]
    <2>1. PICK f : EsReparto(Cortando, f)
      BY CortandoBaja, HayReparto
    <2>2. f = [r \in Montos |-> Cuerpo(Cortando, f, r)]
      BY <2>1 DEF EsReparto, Cortando
    <2> HIDE DEF paso
    <2>3. f = [r \in Montos |-> paso(f, r)]
      BY <1>1, <2>2
    <2>4. QED
      BY <2>3
  <1> DEFINE g == CHOOSE f : f = [r \in Montos |-> paso(f, r)]
  <1>3. g = [r \in Montos |-> paso(g, r)]
    <2> HIDE DEF paso
    <2>1. QED
      BY <1>2, Zenon
  <1>4. Cortes = g
    BY Zenon DEF Cortes
  <1> HIDE DEF g, paso
  <1>5. Cortes = [r \in Montos |-> Cuerpo(Cortando, Cortes, r)]
    BY <1>1, <1>3, <1>4
  <1>6. QED
    BY <1>5 DEF EsReparto, Cortando

\* The pieces of r are pieces, and together they are r.
De(t) == [c \in Montos |-> c[t]]

LEMMA CortesSuman ==
    ASSUME NEW r \in Montos, NEW s \in Cortes[r], NEW t \in Tipos
    PROVE  s \in Seq(Montos) /\ Peso(De(t), s) = r[t]
  <1> DEFINE val == [q \in Montos |-> q[t]]
  <1>1. Conserva(Cortando, Montos, De(t), val)
    <2>1. \A c \in Montos : De(t)[c] = c[t] /\ val[c] = c[t] /\ c[t] \in Nat
      BY DEF De, Montos
    <2>2. ASSUME NEW q \in Montos
          PROVE  /\ Opciones(q) = {} => q[t] = 0
                 /\ \A c \in Opciones(q) :
                      c \in Montos /\ Restantes(q, c) \in Montos /\ q[t] = c[t] + Restantes(q, c)[t]
      <3>1. Opciones(q) = {} => q[t] = 0
        BY UnTrozo DEF Opciones
      <3>2. ASSUME NEW c \in Opciones(q)
            PROVE  c \in Montos /\ Restantes(q, c) \in Montos /\ q[t] = c[t] + Restantes(q, c)[t]
        <4>1. c \in Trozos(q)
          BY DEF Opciones
        <4>2. /\ c \in Montos /\ Restantes(q, c) \in Montos
              /\ Restantes(q, c)[t] = q[t] - c[t]
          BY <4>1, UnTrozo
        <4>3. q[t] \in Nat /\ c[t] \in Nat
          BY <4>2 DEF Montos
        <4>4. QED
          BY <4>2, <4>3
      <3>3. QED
        BY <3>1, <3>2
    <2>3. /\ Cortando.dom = Montos
          /\ \A q \in Montos :
              /\ Cortando.op[q] = Opciones(q)
              /\ \A c \in Opciones(q) : /\ Cortando.cab[q][c] = c
                                        /\ Cortando.sig[q][c] = Restantes(q, c)
      BY DEF Cortando
    <2> HIDE DEF val
    <2>4. QED
      BY <2>1, <2>2, <2>3 DEF Conserva
  <1>2. r \in Cortando.dom
    BY DEF Cortando
  <1>3. val[r] = r[t]
    OBVIOUS
  <1> HIDE DEF val
  <1>4. QED
    BY <1>1, <1>2, <1>3, CortandoBaja, CortesDef, PesoDeReparto

-----------------------------------------------------------------------------
(* The jobs that share out the pieces *)

\* The weight of a sequence is that of one of its elements and of the others.
LEMMA PesoSin ==
    ASSUME NEW C, NEW peso, \A c \in C : peso[c] \in Nat,
           NEW s \in Seq(C), NEW i \in 1..Len(s)
    PROVE  /\ RemoveAt(s, i) \in Seq(C)
           /\ Len(RemoveAt(s, i)) = Len(s) - 1
           /\ Peso(peso, s) = peso[s[i]] + Peso(peso, RemoveAt(s, i))
  <1>1. /\ Len(s) \in Nat /\ DOMAIN s = 1..Len(s)
        /\ \A k \in 1..Len(s) : s[k] \in C
    BY LenProperties, ElementOfSeq
  <1>2. PICK m \in Nat : m + 1 = Len(s)
    <2>1. Len(s) - 1 \in Nat /\ (Len(s) - 1) + 1 = Len(s)
      BY <1>1
    <2>2. QED
      BY <2>1
  <1>3. PICK u : u = SubSeq(s, 1, i - 1)
    OBVIOUS
  <1>4. PICK v : v = SubSeq(s, i + 1, Len(s))
    OBVIOUS
  <1>5. /\ i \in 1..(m + 1) /\ i - 1 \in Int /\ i + 1 \in Int /\ Len(s) \in Int
        /\ \A k \in 1..(i - 1) : s[k] \in C
        /\ \A k \in (i + 1)..Len(s) : s[k] \in C
    BY <1>1, <1>2
  <1>6. /\ u \in Seq(C) /\ Len(u) = i - 1
        /\ \A k \in 1..((i - 1) - 1 + 1) : u[k] = s[1 + k - 1]
    BY <1>3, <1>5, SubSeqProperties
  <1>7. /\ v \in Seq(C) /\ Len(v) = IF i + 1 <= Len(s) THEN Len(s) - (i + 1) + 1 ELSE 0
        /\ \A k \in 1..(Len(s) - (i + 1) + 1) : v[k] = s[(i + 1) + k - 1]
    BY <1>4, <1>5, SubSeqProperties
  <1>8. Len(v) = (m + 1) - i
    BY <1>2, <1>5, <1>7
  <1>9. /\ \A k \in 1..(i - 1) : u[k] = s[k]
        /\ \A k \in 1..((m + 1) - i) : v[k] = s[i + k]
    <2>1. ASSUME NEW k \in 1..(i - 1) PROVE u[k] = s[k]
      <3>1. k \in 1..((i - 1) - 1 + 1) /\ 1 + k - 1 = k
        BY <1>5
      <3>2. QED
        BY <1>6, <3>1
    <2>2. ASSUME NEW k \in 1..((m + 1) - i) PROVE v[k] = s[i + k]
      <3>1. k \in 1..(Len(s) - (i + 1) + 1) /\ (i + 1) + k - 1 = i + k
        BY <1>2, <1>5
      <3>2. QED
        BY <1>7, <3>1
    <2>3. QED
      BY <2>1, <2>2
  <1>10. PICK q : q = RemoveAt(s, i)
    OBVIOUS
  <1>11. q = u \o v
    BY <1>3, <1>4, <1>10 DEF RemoveAt
  <1>12. /\ q \in Seq(C) /\ Len(q) = m
         /\ \A k \in 1..m : q[k] = IF k <= i - 1 THEN u[k] ELSE v[k - (i - 1)]
    <2>1. /\ u \o v \in Seq(C) /\ Len(u \o v) = Len(u) + Len(v)
          /\ \A k \in 1..(Len(u) + Len(v)) :
                (u \o v)[k] = IF k <= Len(u) THEN u[k] ELSE v[k - Len(u)]
      BY <1>6, <1>7, ConcatProperties
    <2>2. Len(u) + Len(v) = m
      BY <1>5, <1>6, <1>8
    <2>3. QED
      BY <1>6, <1>11, <2>1, <2>2
  <1>13. \A k \in 1..m : q[k] = s[IF k < i THEN k ELSE k + 1]
    <2>1. SUFFICES ASSUME NEW k \in 1..m PROVE q[k] = s[IF k < i THEN k ELSE k + 1]
      OBVIOUS
    <2>2. CASE k < i
      <3>1. k \in 1..(i - 1) /\ k <= i - 1
        BY <1>5, <2>2
      <3>2. QED
        BY <1>9, <1>12, <2>2, <3>1
    <2>3. CASE ~ (k < i)
      <3>1. /\ k - (i - 1) \in 1..((m + 1) - i) /\ ~ (k <= i - 1)
            /\ i + (k - (i - 1)) = k + 1
        BY <1>5, <2>3
      <3>2. q[k] = v[k - (i - 1)]
        BY <1>12, <3>1
      <3>3. v[k - (i - 1)] = s[i + (k - (i - 1))]
        BY <1>9, <3>1
      <3>4. QED
        BY <2>3, <3>1, <3>2, <3>3
    <2>4. QED
      BY <2>2, <2>3
  <1>14. DOMAIN q = 1..m /\ DOMAIN s = 1..(m + 1)
    BY <1>1, <1>2, <1>12, LenProperties
  <1>15. PICK f : f = [k \in DOMAIN s |-> peso[s[k]]]
    OBVIOUS
  <1>16. PICK g : g = [k \in DOMAIN q |-> peso[q[k]]]
    OBVIOUS
  <1>17. \A k \in 1..(m + 1) : f[k] = peso[s[k]] /\ f[k] \in Nat
    BY <1>1, <1>2, <1>14, <1>15
  <1>18. \A k \in 1..m : g[k] = f[Salta(i, k)]
    <2>1. SUFFICES ASSUME NEW k \in 1..m
                   PROVE  g[k] = f[Salta(i, k)]
      OBVIOUS
    <2>2. PICK h : h = IF k < i THEN k ELSE k + 1
      OBVIOUS
    <2>3. h = Salta(i, k)
      BY <2>2 DEF Salta
    <2>4. h \in 1..(m + 1)
      BY <1>5, <2>2
    <2>5. g[k] = peso[q[k]] /\ q[k] = s[h]
      BY <1>13, <1>14, <1>16, <2>2
    <2>6. QED
      BY <1>17, <2>3, <2>4, <2>5
  <1>19. Suma(1..(m + 1), f) = f[i] + Suma(1..m, g)
    <2>1. PICK j \in 1..(m + 1) : j = i
      BY <1>5
    <2>2. /\ \A k \in 1..(m + 1) : f[k] \in Nat
          /\ \A k \in 1..m : g[k] = f[Salta(j, k)]
      BY <1>17, <1>18, <2>1
    <2>3. Suma(1..(m + 1), f) = f[j] + Suma(1..m, g)
      BY <2>2, SumaQuitar, Z3
    <2>4. QED
      BY <2>1, <2>3
  <1>20. Peso(peso, s) = Suma(1..(m + 1), f) /\ Peso(peso, q) = Suma(1..m, g)
    BY <1>14, <1>15, <1>16 DEF Peso
  <1>21. QED
    BY <1>2, <1>5, <1>10, <1>12, <1>17, <1>19, <1>20

\* A sum of values none of which is greater, and one is less.
LEMMA SumaMenor ==
    ASSUME NEW S, IsFiniteSet(S), NEW f, NEW g,
           \A x \in S : f[x] \in Nat /\ g[x] \in Nat /\ f[x] <= g[x],
           NEW y \in S, f[y] < g[y]
    PROVE  Suma(S, f) < Suma(S, g)
  <1>1. PICK F : F = Fichas(S, f)
    OBVIOUS
  <1>2. PICK G : G = Fichas(S, g)
    OBVIOUS
  <1>3. IsFiniteSet(G) /\ Suma(S, f) \in Nat /\ Suma(S, g) \in Nat
    BY <1>2, SumaNat
  <1>4. \A p : p \in F <=> \E x \in S : \E k \in 1..f[x] : p = <<x, k>>
    BY <1>1, FichasPares
  <1>5. \A p : p \in G <=> \E x \in S : \E k \in 1..g[x] : p = <<x, k>>
    BY <1>2, FichasPares
  <1>6. F \subseteq G
    <2>1. \A x \in S : \A k \in 1..f[x] : k \in 1..g[x]
      OBVIOUS
    <2>2. QED
      BY <1>4, <1>5, <2>1
  <1>7. F # G
    <2>1. g[y] \in 1..g[y] /\ g[y] \notin 1..f[y]
      OBVIOUS
    <2>2. <<y, g[y]>> \in G
      BY <1>5, <2>1
    <2>3. <<y, g[y]>> \notin F
      BY <1>4, <2>1
    <2>4. QED
      BY <2>2, <2>3
  <1>8. Cardinality(F) <= Cardinality(G) /\ Cardinality(F) # Cardinality(G)
    BY <1>3, <1>6, <1>7, FS_Subset
  <1>9. QED
    BY <1>1, <1>2, <1>3, <1>8 DEF Suma

\* The units of a type that the request of a node's piece is for.
DeLaParte(T, n, t) == IF n \in DOMAIN T THEN T[n][t] ELSE 0

LEMMA CantidadDe ==
    ASSUME NEW Q \in SUBSET Nodos, NEW T \in [Q -> Montos], NEW n \in Nodos, NEW t \in Tipos
    PROVE  Cantidad(Juntar(T), n, t) = DeLaParte(T, n, t) /\ DeLaParte(T, n, t) \in Nat
  <1>1. PICK J : J = Juntar(T)
    OBVIOUS
  <1>2. \A m \in Q : \A u \in Tipos : T[m][u] \in Nat
    BY DEF Montos
  <1>3. \A p : p \in J <=> \E m \in Q : \E u \in Tipos :
                              T[m][u] > 0 /\ p = [nodo |-> m, tipo |-> u, cant |-> T[m][u]]
    <2>1. SUFFICES ASSUME NEW p
                   PROVE  p \in J <=> \E m \in Q : \E u \in Tipos :
                              T[m][u] > 0 /\ p = [nodo |-> m, tipo |-> u, cant |-> T[m][u]]
      OBVIOUS
    <2>2. DOMAIN T = Q
      OBVIOUS
    <2>3. ASSUME p \in J
          PROVE  \E m \in Q : \E u \in Tipos :
                    T[m][u] > 0 /\ p = [nodo |-> m, tipo |-> u, cant |-> T[m][u]]
      BY <1>1, <2>2, <2>3 DEF Juntar
    <2>4. ASSUME NEW m \in Q, NEW u \in Tipos, T[m][u] > 0,
                 p = [nodo |-> m, tipo |-> u, cant |-> T[m][u]]
          PROVE  p \in J
      <3>1. PICK d : d = <<m, u>>
        OBVIOUS
      <3>2. d \in {e \in Q \X Tipos : T[e[1]][e[2]] > 0} /\ d[1] = m /\ d[2] = u
        BY <2>4, <3>1
      <3>3. QED
        BY <1>1, <2>2, <2>4, <3>2 DEF Juntar
    <2>5. QED
      BY <2>3, <2>4
  <1>4. PICK S : S = {p \in J : p.nodo = n /\ p.tipo = t}
    OBVIOUS
  <1>5. PICK f : f = [p \in S |-> p.cant]
    OBVIOUS
  <1>6. Cantidad(Juntar(T), n, t) = Suma(S, f)
    BY <1>1, <1>4, <1>5 DEF Cantidad
  <1>7. \A p \in J : \A m, u : p.nodo = m /\ p.tipo = u =>
            m \in Q /\ T[m][u] > 0 /\ p = [nodo |-> m, tipo |-> u, cant |-> T[m][u]]
    BY <1>3
  <1>8. CASE n \in Q /\ T[n][t] > 0
    <2>1. PICK x : x = [nodo |-> n, tipo |-> t, cant |-> T[n][t]]
      OBVIOUS
    <2>2. x \in J /\ x.nodo = n /\ x.tipo = t /\ x.cant = T[n][t]
      BY <1>3, <1>8, <2>1
    <2>3. S = {x}
      BY <1>4, <1>7, <2>1, <2>2
    <2>4. f[x] = T[n][t] /\ f[x] \in Nat
      BY <1>2, <1>5, <1>8, <2>2, <2>3
    <2>5. Suma({x}, f) = f[x]
      BY <2>4, SumaUno
    <2>6. QED
      BY <1>2, <1>6, <1>8, <2>3, <2>4, <2>5 DEF DeLaParte
  <1>9. CASE ~ (n \in Q /\ T[n][t] > 0)
    <2>1. S = {}
      BY <1>4, <1>7, <1>9
    <2>2. Suma(S, f) = 0
      BY <2>1, SumaCero
    <2>3. DeLaParte(T, n, t) = 0
      BY <1>2, <1>9 DEF DeLaParte
    <2>4. QED
      BY <1>6, <2>2, <2>3
  <1>10. QED
    BY <1>8, <1>9

\* The pieces that node n gives to a job.
Da(V, n) == IF n \in Quedan(V) THEN 1 ELSE 0

\* One of the pieces of each node that has some.
LEMMA UnaEleccion ==
    ASSUME NEW V \in [Nodos -> Seq(Montos)], NEW f \in Elecciones(V)
    PROVE  /\ Elegidos(V, f) \in [Quedan(V) -> Montos]
           /\ Otros(V, f) \in [Nodos -> Seq(Montos)]
           /\ \A n \in Nodos :
                /\ Len(Otros(V, f)[n]) = Len(V[n]) - Da(V, n)
                /\ \A t \in Tipos :
                      Peso(De(t), V[n]) = DeLaParte(Elegidos(V, f), n, t)
                                            + Peso(De(t), Otros(V, f)[n])
  <1>1. Quedan(V) \subseteq Nodos
    BY DEF Quedan
  <1>2. \A n \in Nodos : V[n] \in Seq(Montos) /\ Len(V[n]) \in Nat /\ DOMAIN V[n] = 1..Len(V[n])
    BY LenProperties
  <1>3. \A n \in Quedan(V) : f[n] \in 1..Len(V[n])
    BY <1>1, <1>2 DEF Elecciones
  <1>4. PICK T : T = Elegidos(V, f)
    OBVIOUS
  <1>5. PICK W : W = Otros(V, f)
    OBVIOUS
  <1>6. /\ DOMAIN T = Quedan(V) /\ T = [n \in Quedan(V) |-> T[n]]
        /\ \A n \in Quedan(V) : T[n] = V[n][f[n]]
    BY <1>4 DEF Elegidos
  <1>7. /\ W = [n \in Nodos |-> W[n]]
        /\ \A n \in Nodos : W[n] = IF n \in Quedan(V) THEN RemoveAt(V[n], f[n]) ELSE V[n]
    BY <1>5 DEF Otros
  <1>8. \A n \in Quedan(V) : T[n] \in Montos
    BY <1>1, <1>2, <1>3, <1>6, ElementOfSeq
  <1>9. ASSUME NEW n \in Nodos, NEW t \in Tipos
        PROVE  /\ W[n] \in Seq(Montos)
               /\ Len(W[n]) = Len(V[n]) - Da(V, n)
               /\ Peso(De(t), V[n]) = DeLaParte(T, n, t) + Peso(De(t), W[n])
    <2>1. \A c \in Montos : De(t)[c] = c[t] /\ De(t)[c] \in Nat
      BY DEF De, Montos
    <2>2. PICK s \in Seq(Montos) : s = V[n]
      BY <1>2
    <2>3. CASE n \in Quedan(V)
      <3>1. PICK i \in 1..Len(s) : i = f[n]
        BY <1>3, <2>2, <2>3
      <3>2. /\ RemoveAt(s, i) \in Seq(Montos)
            /\ Len(RemoveAt(s, i)) = Len(s) - 1
            /\ Peso(De(t), s) = De(t)[s[i]] + Peso(De(t), RemoveAt(s, i))
        BY <2>1, PesoSin
      <3>3. W[n] = RemoveAt(s, i) /\ T[n] = s[i] /\ T[n] \in Montos
        BY <1>6, <1>7, <1>8, <2>2, <2>3, <3>1
      <3>4. DeLaParte(T, n, t) = De(t)[s[i]]
        BY <1>6, <2>1, <2>3, <3>3 DEF DeLaParte
      <3>5. QED
        BY <2>2, <2>3, <3>2, <3>3, <3>4 DEF Da
    <2>4. CASE n \notin Quedan(V)
      <3>1. W[n] = s /\ DeLaParte(T, n, t) = 0 /\ s = <<>>
        BY <1>6, <1>7, <2>2, <2>4 DEF DeLaParte, Quedan
      <3>2. Peso(De(t), s) = 0
        BY <3>1, PesoVacia
      <3>3. QED
        BY <1>2, <2>2, <2>4, <3>1, <3>2 DEF Da
    <2>5. QED
      BY <2>3, <2>4
  <1>10. "cpu" \in Tipos
    BY DEF Tipos
  <1>11. T \in [Quedan(V) -> Montos]
    BY <1>6, <1>8
  <1>12. W \in [Nodos -> Seq(Montos)]
    BY <1>7, <1>9, <1>10
  <1>13. QED
    BY <1>4, <1>5, <1>9, <1>10, <1>11, <1>12

\* The recursion of Repartir: each job leaves less pieces.
Repartos == [Nodos -> Seq(Montos)]
Piezas(V) == Suma(Nodos, [n \in Nodos |-> Len(V[n])])
Turnos(V) == IF Quedan(V) = {} THEN {} ELSE Elecciones(V)
Repartiendo ==
    [dom |-> Repartos,
     niv |-> [V \in Repartos |-> Piezas(V)],
     op  |-> [V \in Repartos |-> Turnos(V)],
     cab |-> [V \in Repartos |-> [f \in Turnos(V) |-> Juntar(Elegidos(V, f))]],
     sig |-> [V \in Repartos |-> [f \in Turnos(V) |-> Otros(V, f)]]]

LEMMA RepartiendoEs ==
    /\ Repartiendo.dom = Repartos
    /\ \A V \in Repartos :
        /\ Repartiendo.niv[V] = Piezas(V) /\ Repartiendo.op[V] = Turnos(V)
        /\ \A f \in Turnos(V) : /\ Repartiendo.cab[V][f] = Juntar(Elegidos(V, f))
                                /\ Repartiendo.sig[V][f] = Otros(V, f)
  BY DEF Repartiendo

\* While a node has pieces left there is a choice.
LEMMA HayEleccion ==
    ASSUME NEW V \in Repartos
    PROVE  Elecciones(V) # {}
  <1> DEFINE f == [n \in Quedan(V) |-> 1]
  <1>1. \A n \in Quedan(V) : 1 \in DOMAIN V[n]
    <2>1. SUFFICES ASSUME NEW n \in Quedan(V) PROVE 1 \in DOMAIN V[n]
      OBVIOUS
    <2>2. PICK s \in Seq(Montos) : s = V[n] /\ s # <<>>
      BY DEF Quedan, Repartos
    <2>3. Len(s) \in Nat /\ Len(s) # 0 /\ DOMAIN s = 1..Len(s)
      BY <2>2, EmptySeq, LenProperties
    <2>4. QED
      BY <2>2, <2>3
  <1>2. f \in Elecciones(V)
    BY <1>1 DEF Elecciones
  <1>3. QED
    BY <1>2

LEMMA RepartiendoBaja == Desciende(Repartiendo)
  <1>1. SUFFICES ASSUME NEW V \in Repartos
                 PROVE  /\ Piezas(V) \in Nat
                        /\ \A f \in Turnos(V) :
                              Otros(V, f) \in Repartos /\ Piezas(Otros(V, f)) < Piezas(V)
    BY RepartiendoEs DEF Desciende
  <1>2. IsFiniteSet(Nodos)
    BY CapacidadAssumption
  <1>3. ASSUME NEW W \in Repartos, NEW n \in Nodos
        PROVE  W[n] \in Seq(Montos) /\ Len(W[n]) \in Nat
    <2>1. W[n] \in Seq(Montos)
      BY DEF Repartos
    <2>2. QED
      BY <2>1, LenProperties
  <1>4. ASSUME NEW W \in Repartos
        PROVE  Piezas(W) \in Nat
    <2> DEFINE l == [n \in Nodos |-> Len(W[n])]
    <2>1. \A n \in Nodos : l[n] \in Nat
      BY <1>3
    <2> HIDE DEF l
    <2>2. Suma(Nodos, l) \in Nat
      BY <1>2, <2>1, SumaNat
    <2>3. QED
      BY <2>2 DEF Piezas, l
  <1>5. ASSUME NEW f \in Turnos(V)
        PROVE  Otros(V, f) \in Repartos /\ Piezas(Otros(V, f)) < Piezas(V)
    <2>1. f \in Elecciones(V) /\ Quedan(V) # {}
      BY DEF Turnos
    <2>2. PICK W : W = Otros(V, f)
      OBVIOUS
    <2>3. /\ W \in Repartos
          /\ \A n \in Nodos : Len(W[n]) = Len(V[n]) - Da(V, n)
      BY <2>1, <2>2, UnaEleccion DEF Repartos
    <2>4. PICK y \in Nodos : y \in Quedan(V)
      BY <2>1 DEF Quedan
    <2>5. PICK a : a = [n \in Nodos |-> Len(W[n])]
      OBVIOUS
    <2>6. PICK b : b = [n \in Nodos |-> Len(V[n])]
      OBVIOUS
    <2>7. \A n \in Nodos : /\ a[n] \in Nat /\ b[n] \in Nat
                           /\ a[n] = b[n] - Da(V, n)
      BY <1>3, <2>3, <2>5, <2>6
    <2>8. \A n \in Nodos : a[n] \in Nat /\ b[n] \in Nat /\ a[n] <= b[n]
      BY <2>7 DEF Da
    <2>9. a[y] < b[y]
      BY <2>4, <2>7 DEF Da
    <2>10. Suma(Nodos, a) < Suma(Nodos, b)
      BY <1>2, <2>8, <2>9, SumaMenor
    <2>11. QED
      BY <2>2, <2>3, <2>5, <2>6, <2>10 DEF Piezas
  <1>6. QED
    BY <1>4, <1>5

\* Repartir is what it recurs to be.
LEMMA RepartirDef == EsReparto(Repartiendo, Repartir)
  <1> DEFINE paso(g, V) ==
                IF Quedan(V) = {} THEN {<<>>}
                ELSE UNION {{<<Juntar(Elegidos(V, f))>> \o resto : resto \in g[Otros(V, f)]} :
                               f \in Elecciones(V)}
  <1>1. ASSUME NEW g, NEW V \in Repartos
        PROVE  Cuerpo(Repartiendo, g, V) = paso(g, V)
    <2>1. /\ Repartiendo.op[V] = Turnos(V)
          /\ \A f \in Turnos(V) : /\ Repartiendo.cab[V][f] = Juntar(Elegidos(V, f))
                                  /\ Repartiendo.sig[V][f] = Otros(V, f)
      BY RepartiendoEs
    <2>2. CASE Quedan(V) = {}
      <3>1. Repartiendo.op[V] = {}
        BY <2>1, <2>2 DEF Turnos
      <3>2. QED
        BY <2>2, <3>1 DEF Cuerpo
    <2>3. CASE Quedan(V) # {}
      <3>1. Turnos(V) = Elecciones(V) /\ Elecciones(V) # {}
        BY <2>3, HayEleccion DEF Turnos
      <3> DEFINE A(f) == {<<Repartiendo.cab[V][f]>> \o resto : resto \in g[Repartiendo.sig[V][f]]}
                 B(f) == {<<Juntar(Elegidos(V, f))>> \o resto : resto \in g[Otros(V, f)]}
      <3>2. \A f \in Elecciones(V) : A(f) = B(f)
        BY <2>1, <3>1
      <3>3. {A(f) : f \in Elecciones(V)} = {B(f) : f \in Elecciones(V)}
        <4> HIDE DEF A, B
        <4>1. QED
          BY <3>2
      <3>4. Cuerpo(Repartiendo, g, V) = UNION {A(f) : f \in Elecciones(V)}
        BY <2>1, <3>1 DEF Cuerpo
      <3>5. paso(g, V) = UNION {B(f) : f \in Elecciones(V)}
        BY <2>3
      <3> HIDE DEF A, B, paso
      <3>6. QED
        BY <3>3, <3>4, <3>5
    <2>4. QED
      BY <2>2, <2>3
  <1>2. \E g : g = [V \in Repartos |-> paso(g, V)]
    <2>1. PICK g : EsReparto(Repartiendo, g)
      BY RepartiendoBaja, HayReparto
    <2>2. g = [V \in Repartos |-> Cuerpo(Repartiendo, g, V)]
      BY <2>1, RepartiendoEs DEF EsReparto
    <2> HIDE DEF paso
    <2>3. g = [V \in Repartos |-> paso(g, V)]
      BY <1>1, <2>2
    <2>4. QED
      BY <2>3
  <1> DEFINE h == CHOOSE g : g = [V \in Repartos |-> paso(g, V)]
  <1>3. h = [V \in Repartos |-> paso(h, V)]
    <2> HIDE DEF paso
    <2>1. QED
      BY <1>2, Zenon
  <1>4. Repartir = h
    BY Zenon DEF Repartir, Repartos
  <1> HIDE DEF h, paso
  <1>5. Repartir = [V \in Repartos |-> Cuerpo(Repartiendo, Repartir, V)]
    BY <1>1, <1>3, <1>4
  <1>6. QED
    BY <1>5, RepartiendoEs DEF EsReparto

\* What a job may ask for.
Lineas == {Juntar(T) : T \in UNION {[Q -> Montos] : Q \in SUBSET Nodos}}

\* It is an amount of each type.
LEMMA LineaMonto ==
    ASSUME NEW x \in Lineas, NEW n \in Nodos, NEW t \in Tipos
    PROVE  Cantidad(x, n, t) \in Nat
  <1>1. PICK Q \in SUBSET Nodos : \E T \in [Q -> Montos] : x = Juntar(T)
    BY DEF Lineas
  <1>2. PICK T \in [Q -> Montos] : x = Juntar(T)
    BY <1>1
  <1>3. QED
    BY <1>2, CantidadDe

\* The jobs that come of the pieces ask for all of them.
LEMMA RepartirSuma ==
    ASSUME NEW V \in Repartos, NEW s \in Repartir[V], NEW n \in Nodos, NEW t \in Tipos
    PROVE  s \in Seq(Lineas) /\ Pide(s, n, t) = Peso(De(t), V[n])
  <1> DEFINE C == Lineas
             peso == [x \in C |-> Cantidad(x, n, t)]
             val == [W \in Repartos |-> Peso(De(t), W[n])]
  <1>1. ASSUME NEW Q \in SUBSET Nodos, NEW T \in [Q -> Montos]
        PROVE  /\ Juntar(T) \in C /\ peso[Juntar(T)] = DeLaParte(T, n, t)
               /\ DeLaParte(T, n, t) \in Nat
    <2>1. Juntar(T) \in C
      BY DEF Lineas
    <2>2. QED
      BY <2>1, CantidadDe
  <1>2. \A x \in C : peso[x] = Cantidad(x, n, t) /\ peso[x] \in Nat
    BY LineaMonto
  <1>3. \A W \in Repartos : val[W] = Peso(De(t), W[n])
    OBVIOUS
  <1> HIDE DEF C, peso, val
  <1>4. ASSUME NEW W \in Repartos
        PROVE  /\ Turnos(W) = {} => val[W] = 0
               /\ \A f \in Turnos(W) :
                    /\ Juntar(Elegidos(W, f)) \in C
                    /\ val[W] = peso[Juntar(Elegidos(W, f))] + val[Otros(W, f)]
    <2>1. ASSUME Turnos(W) = {}
          PROVE  val[W] = 0
      <3>1. Quedan(W) = {}
        BY <2>1, HayEleccion DEF Turnos
      <3>2. W[n] = <<>>
        BY <3>1 DEF Quedan
      <3>3. QED
        BY <1>3, <3>2, PesoVacia
    <2>2. ASSUME NEW f \in Turnos(W)
          PROVE  /\ Juntar(Elegidos(W, f)) \in C
                 /\ val[W] = peso[Juntar(Elegidos(W, f))] + val[Otros(W, f)]
      <3>1. f \in Elecciones(W)
        BY DEF Turnos
      <3>2. PICK T : T = Elegidos(W, f)
        OBVIOUS
      <3>3. PICK X : X = Otros(W, f)
        OBVIOUS
      <3>4. /\ T \in [Quedan(W) -> Montos] /\ X \in Repartos
            /\ Peso(De(t), W[n]) = DeLaParte(T, n, t) + Peso(De(t), X[n])
        <4>1. W \in [Nodos -> Seq(Montos)]
          BY DEF Repartos
        <4>2. /\ Elegidos(W, f) \in [Quedan(W) -> Montos]
              /\ Otros(W, f) \in [Nodos -> Seq(Montos)]
              /\ Peso(De(t), W[n]) = DeLaParte(Elegidos(W, f), n, t)
                                        + Peso(De(t), Otros(W, f)[n])
          BY <3>1, <4>1, UnaEleccion
        <4>3. QED
          BY <3>2, <3>3, <4>2 DEF Repartos
      <3>5. Quedan(W) \in SUBSET Nodos
        BY DEF Quedan
      <3>6. Juntar(T) \in C /\ peso[Juntar(T)] = DeLaParte(T, n, t)
        BY <1>1, <3>4, <3>5
      <3>7. QED
        BY <1>3, <3>2, <3>3, <3>4, <3>6
    <2>3. QED
      BY <2>1, <2>2
  <1>5. Conserva(Repartiendo, C, peso, val)
    BY <1>2, <1>4, RepartiendoEs DEF Conserva
  <1>6. V \in Repartiendo.dom
    BY RepartiendoEs
  <1>7. s \in Seq(C) /\ Peso(peso, s) = val[V]
    BY <1>5, <1>6, RepartiendoBaja, RepartirDef, PesoDeReparto
  <1>8. \A k \in DOMAIN s : s[k] \in C
    BY <1>7, ElementOfSeq, LenProperties
  <1>9. \A k \in DOMAIN s : [i \in DOMAIN s |-> peso[s[i]]][k]
                              = [i \in DOMAIN s |-> Cantidad(s[i], n, t)][k]
    BY <1>2, <1>8
  <1>10. Suma(DOMAIN s, [k \in DOMAIN s |-> peso[s[k]]])
           = Suma(DOMAIN s, [k \in DOMAIN s |-> Cantidad(s[k], n, t)])
    BY <1>9, SumaIgual
  <1>11. QED
    BY <1>3, <1>7, <1>10 DEF Pide, Peso, C

-----------------------------------------------------------------------------
(* The jobs of a round *)

\* Half of a node is an amount.
LEMMA MitadTipo ==
    ASSUME NEW n \in Nodos
    PROVE  Mitad(n) \in Montos
  <1>1. \A t \in Tipos : Capacidad[n][t] \div 2 \in Nat
    BY CapacidadAssumption
  <1>2. QED
    BY <1>1 DEF Mitad, Montos

\* The jobs made of a listing ask for half of each of its nodes, and for no
\* more of any other.
LEMMA TrabajosSuman ==
    ASSUME NEW L \in SUBSET Nodos, NEW s \in TrabajosDe[L], NEW n \in Nodos, NEW t \in Tipos
    PROVE  s \in Seq(Lineas) /\ Pide(s, n, t) = IF n \in L THEN Mitad(n)[t] ELSE 0
  <1>1. PICK V : /\ s \in Repartir[V] /\ DOMAIN V = Nodos
                 /\ V = [m \in Nodos |-> V[m]]
                 /\ \A m \in Nodos : V[m] \in IF m \in L THEN Cortes[Mitad(m)] ELSE {<<>>}
    <2> DEFINE D == UNION {Cortes[Mitad(m)] : m \in Nodos} \cup {<<>>}
               Vs == {W \in [Nodos -> D] :
                        \A m \in Nodos : W[m] \in IF m \in L THEN Cortes[Mitad(m)] ELSE {<<>>}}
    <2>1. TrabajosDe[L] = UNION {Repartir[V] : V \in Vs}
      BY DEF TrabajosDe
    <2> HIDE DEF D
    <2>2. QED
      BY <2>1
  <1>2. \A m \in Nodos : V[m] \in Seq(Montos)
    <2>1. SUFFICES ASSUME NEW m \in Nodos PROVE V[m] \in Seq(Montos)
      OBVIOUS
    <2>2. CASE m \in L
      BY <1>1, <2>2, MitadTipo, CortesSuman
    <2>3. CASE m \notin L
      <3>1. V[m] = <<>>
        BY <1>1, <2>3
      <3>2. <<>> \in Seq(Montos)
        OBVIOUS
      <3>3. QED
        BY <3>1, <3>2
    <2>4. QED
      BY <2>2, <2>3
  <1>3. V \in Repartos
    BY <1>1, <1>2 DEF Repartos
  <1>4. s \in Seq(Lineas) /\ Pide(s, n, t) = Peso(De(t), V[n])
    BY <1>1, <1>3, RepartirSuma
  <1>5. CASE n \in L
    BY <1>1, <1>4, <1>5, MitadTipo, CortesSuman
  <1>6. CASE n \notin L
    BY <1>1, <1>4, <1>6, PesoVacia
  <1>7. QED
    BY <1>4, <1>5, <1>6

\* A round begins with the answer to the request of nodes.
LEMMA RepartoExactoPaso ==
    TInv /\ [Next]_vars =>
      [sched = "espera_nodos" /\ sched' = "crea" =>
        \A n \in Head(buzonSched).nodos : \A t \in Tipos :
            Pide(porCrear', n, t) = Mitad(n)[t]]_vars
  <1>1. SUFFICES ASSUME TInv, Next, sched = "espera_nodos", sched' = "crea",
                        NEW n \in Head(buzonSched).nodos, NEW t \in Tipos
                 PROVE  Pide(porCrear', n, t) = Mitad(n)[t]
    OBVIOUS
  <1>2. RecibirNodos
    BY <1>1 DEF Next, Planificador, Scheduler, PedirNodos, Crear, Agregar, EsperarFin,
         OtraRonda, Servir, Silencio, Caer, Trabajo, Solicitar, Concedido, Denegado, Vencer,
         Reintentar, Terminar, Quitar, Abandonar, AgenteLee, Agente, AgenteConcede,
         AgenteDeniega, planif
  <1>3. PICK m : m = Head(buzonSched)
    OBVIOUS
  <1>4. m.clase = "NODES" /\ porCrear' \in TrabajosDe[m.nodos]
    BY <1>1, <1>2, <1>3 DEF RecibirNodos
  <1>5. m \in {Lista(S) : S \in Listados} \cup {AllJobsDone}
    <2>1. buzonSched \in Seq({Lista(S) : S \in Listados} \cup {AllJobsDone}) /\ buzonSched # <<>>
      BY <1>1, <1>2 DEF TInv, TypeOK, RecibirNodos
    <2>2. QED
      BY <1>3, <2>1, HeadTailProperties
  <1>6. m.nodos \in SUBSET Nodos
    <2>1. PICK S \in Listados : m = Lista(S)
      BY <1>4, <1>5 DEF AllJobsDone
    <2>2. QED
      BY <2>1, CotasAssumption DEF Lista
  <1>7. PICK L \in SUBSET Nodos : L = m.nodos
    BY <1>6
  <1>8. PICK s : s = porCrear'
    OBVIOUS
  <1>9. n \in L /\ n \in Nodos /\ s \in TrabajosDe[L]
    BY <1>1, <1>3, <1>4, <1>7, <1>8
  <1>10. Pide(s, n, t) = IF n \in L THEN Mitad(n)[t] ELSE 0
    BY <1>1, <1>9, TrabajosSuman
  <1>11. QED
    BY <1>8, <1>9, <1>10

\* However the resources of the nodes are cut up and shared out, nothing of
\* the half that the planner may use is left over, nor asked for twice.
THEOREM RepartoExactoSiempre == Spec => RepartoExacto
  BY TInvInit, TInvPaso, RepartoExactoPaso, PTL DEF Spec, RepartoExacto

-----------------------------------------------------------------------------
(* The invariant: when the server says that a round is over *)

\* Job j has a process.
Activo(j) == trab[j] \notin {"sin_crear", "fin"}

\* A message about job j is in the server's mailbox; the server knows of the
\* job, or is about to.
EnBuzon(clase, j) == Orden(clase, j) \in ToSet(buzonServ)
Conocido(j) == j \in mapa \/ EnBuzon("add", j)

\* A job is added once and removed once, and all are added before one is removed.
EsCuenta(m) == m.clase \in {"add", "remove"}
UnaVez(s) == \A i, k \in DOMAIN s : EsCuenta(s[i]) /\ s[k] = s[i] => i = k
AltasAntes(s) == \A i, k \in DOMAIN s : s[i].clase = "remove" /\ s[k].clase = "add" => k < i

\* What the server knows of a job, and what it will hear.
Cuenta(j) ==
    /\ j \in mapa => ~ EnBuzon("add", j)
    /\ EnBuzon("remove", j) => trab[j] = "fin"
    /\ trab[j] = "fin" => (Conocido(j) <=> EnBuzon("remove", j))
    /\ trab[j] = "sin_crear" => ~ Conocido(j)
    /\ Activo(j) => Conocido(j) \/ (sched = "agrega" /\ j = Nuevo - 1)

\* No job ends while the scheduler creates those of the round.
Creando ==
    /\ sched \in {"crea", "agrega"} =>
          \A j \in Trabajos : trab[j] # "quita" /\ ~ EnBuzon("remove", j)
    /\ sched = "agrega" => ~ Conocido(Nuevo - 1) /\ trab[Nuevo - 1] # "fin"

\* Nothing is left for the server to do.
Hecho == mapa = {} /\ \A j \in Trabajos : ~ EnBuzon("add", j) /\ ~ EnBuzon("remove", j)

\* It says once that the round is over, when it is.
UnAviso(s) == \A i, k \in DOMAIN s : s[i] = AllJobsDone /\ s[k] = AllJobsDone => i = k
Avisado == AllJobsDone \in ToSet(buzonSched)
EntreRondas == sched \in {"pide", "espera_nodos", "duerme"}

Avisos ==
    /\ UnaVez(buzonServ) /\ AltasAntes(buzonServ) /\ UnAviso(buzonSched)
    /\ \A j \in Trabajos : Cuenta(j)
    /\ Creando
    /\ EntreRondas \/ Avisado => Hecho
    /\ Avisado => sched = "espera"
    /\ sched # "muerto"

\* A round starts when no job of the former one is left.
SinNadie == sched \in {"pide", "espera_nodos"} => \A j \in Trabajos : ~ Activo(j)

RondaInv ==
    /\ OInv
    /\ registro = "vivo" => Avisos
    /\ Vivo => SinNadie

-----------------------------------------------------------------------------
(* The order of what the server is told *)

\* A message put at the end.
LEMMA CuentaAlFinal ==
    ASSUME NEW s, EsSeq(s), UnaVez(s), AltasAntes(s), NEW x,
           EsCuenta(x) => x \notin ToSet(s),
           x.clase = "add" => \A m \in ToSet(s) : m.clase # "remove"
    PROVE  UnaVez(Append(s, x)) /\ AltasAntes(Append(s, x))
  <1>1. PICK q : q = Append(s, x)
    OBVIOUS
  <1>2. PICK n \in Nat : n = Len(s)
    BY AlFinal
  <1>3. /\ DOMAIN s = 1..n /\ DOMAIN q = 1..(n + 1) /\ q[n + 1] = x
        /\ \A i \in 1..n : q[i] = s[i]
    BY <1>1, <1>2, AlFinal
  <1>4. \A i \in 1..n : s[i] \in ToSet(s)
    BY <1>3 DEF ToSet
  <1>5. \A i \in 1..(n + 1) : i \in 1..n \/ i = n + 1
    OBVIOUS
  <1>6. UnaVez(q)
    <2>1. SUFFICES ASSUME NEW i \in 1..(n + 1), NEW k \in 1..(n + 1), EsCuenta(q[i]), q[k] = q[i]
                   PROVE  i = k
      BY <1>3 DEF UnaVez
    <2>2. CASE i \in 1..n /\ k \in 1..n
      BY <1>3, <2>1, <2>2 DEF UnaVez
    <2>3. CASE i \in 1..n /\ k = n + 1
      BY <1>3, <1>4, <2>1, <2>3
    <2>4. CASE i = n + 1 /\ k \in 1..n
      BY <1>3, <1>4, <2>1, <2>4
    <2>5. QED
      BY <1>5, <2>2, <2>3, <2>4
  <1>7. AltasAntes(q)
    <2>1. SUFFICES ASSUME NEW i \in 1..(n + 1), NEW k \in 1..(n + 1),
                          q[i].clase = "remove", q[k].clase = "add"
                   PROVE  k < i
      BY <1>3 DEF AltasAntes
    <2>2. CASE i \in 1..n /\ k \in 1..n
      BY <1>3, <2>1, <2>2 DEF AltasAntes
    <2>3. CASE i \in 1..n /\ k = n + 1
      BY <1>3, <1>4, <2>1, <2>3
    <2>4. CASE i = n + 1 /\ k \in 1..n
      BY <2>4
    <2>5. CASE i = n + 1 /\ k = n + 1
      BY <2>1, <2>5
    <2>6. QED
      BY <1>5, <2>2, <2>3, <2>4, <2>5
  <1>8. QED
    BY <1>1, <1>6, <1>7

\* The first message taken.
LEMMA CuentaSinPrimero ==
    ASSUME NEW s, EsSeq(s), s # <<>>, UnaVez(s), AltasAntes(s)
    PROVE  /\ UnaVez(Tail(s)) /\ AltasAntes(Tail(s))
           /\ EsCuenta(Head(s)) => Head(s) \notin ToSet(Tail(s))
           /\ Head(s).clase = "remove" => \A m \in ToSet(s) : m.clase # "add"
  <1>1. PICK q : q = Tail(s)
    OBVIOUS
  <1>2. PICK n \in Nat \ {0} : n = Len(s)
    BY SinElPrimero
  <1>3. /\ DOMAIN s = 1..n /\ DOMAIN q = 1..(n - 1) /\ Head(s) = s[1]
        /\ \A i \in 1..(n - 1) : q[i] = s[i + 1]
    BY <1>1, <1>2, SinElPrimero
  <1>4. \A i \in 1..(n - 1) : i + 1 \in 1..n /\ i + 1 # 1
    OBVIOUS
  <1>5. UnaVez(q)
    <2>1. SUFFICES ASSUME NEW i \in 1..(n - 1), NEW k \in 1..(n - 1), EsCuenta(q[i]), q[k] = q[i]
                   PROVE  i = k
      BY <1>3 DEF UnaVez
    <2>2. i + 1 = k + 1
      BY <1>3, <1>4, <2>1 DEF UnaVez
    <2>3. QED
      BY <2>2
  <1>6. AltasAntes(q)
    <2>1. SUFFICES ASSUME NEW i \in 1..(n - 1), NEW k \in 1..(n - 1),
                          q[i].clase = "remove", q[k].clase = "add"
                   PROVE  k < i
      BY <1>3 DEF AltasAntes
    <2>2. k + 1 < i + 1
      BY <1>3, <1>4, <2>1 DEF AltasAntes
    <2>3. QED
      BY <2>2
  <1>7. ASSUME EsCuenta(Head(s)), Head(s) \in ToSet(q) PROVE FALSE
    <2>1. PICK i \in 1..(n - 1) : q[i] = Head(s)
      BY <1>3, <1>7 DEF ToSet
    <2>2. s[i + 1] = s[1] /\ 1 \in 1..n
      BY <1>3, <2>1
    <2>3. i + 1 = 1
      BY <1>3, <1>4, <1>7, <2>2 DEF UnaVez
    <2>4. QED
      BY <2>3
  <1>8. ASSUME Head(s).clase = "remove", NEW m \in ToSet(s), m.clase = "add" PROVE FALSE
    <2>1. PICK k \in 1..n : s[k] = m
      BY <1>3 DEF ToSet
    <2>2. 1 \in 1..n /\ s[1].clase = "remove"
      BY <1>3, <1>8
    <2>3. k < 1
      BY <1>3, <1>8, <2>1, <2>2 DEF AltasAntes
    <2>4. QED
      BY <2>3
  <1>9. QED
    BY <1>1, <1>5, <1>6, <1>7, <1>8

\* The scheduler is told something else, or that the round is over.
LEMMA AvisoAlFinal ==
    ASSUME NEW s, EsSeq(s), UnAviso(s), NEW x, x = AllJobsDone => AllJobsDone \notin ToSet(s)
    PROVE  UnAviso(Append(s, x))
  <1>1. PICK q : q = Append(s, x)
    OBVIOUS
  <1>2. PICK n \in Nat : n = Len(s)
    BY AlFinal
  <1>3. /\ DOMAIN s = 1..n /\ DOMAIN q = 1..(n + 1) /\ q[n + 1] = x
        /\ \A i \in 1..n : q[i] = s[i] /\ s[i] \in ToSet(s)
    <2>1. /\ DOMAIN s = 1..n /\ DOMAIN q = 1..(n + 1) /\ q[n + 1] = x
          /\ \A i \in 1..n : q[i] = s[i]
      BY <1>1, <1>2, AlFinal
    <2>2. QED
      BY <2>1 DEF ToSet
  <1>4. SUFFICES ASSUME NEW i \in 1..(n + 1), NEW k \in 1..(n + 1),
                        q[i] = AllJobsDone, q[k] = AllJobsDone
                 PROVE  i = k
    BY <1>1, <1>3 DEF UnAviso
  <1>5. \A h \in 1..(n + 1) : h \in 1..n \/ h = n + 1
    OBVIOUS
  <1>6. CASE i \in 1..n /\ k \in 1..n
    BY <1>3, <1>4, <1>6 DEF UnAviso
  <1>7. CASE i \in 1..n /\ k = n + 1
    BY <1>3, <1>4, <1>7
  <1>8. CASE i = n + 1 /\ k \in 1..n
    BY <1>3, <1>4, <1>8
  <1>9. QED
    BY <1>5, <1>6, <1>7, <1>8

\* The scheduler takes its first message.
LEMMA AvisoSinPrimero ==
    ASSUME NEW s, EsSeq(s), s # <<>>, UnAviso(s)
    PROVE  UnAviso(Tail(s))
  <1>1. PICK q : q = Tail(s)
    OBVIOUS
  <1>2. PICK n \in Nat \ {0} : n = Len(s)
    BY SinElPrimero
  <1>3. /\ DOMAIN s = 1..n /\ DOMAIN q = 1..(n - 1)
        /\ \A i \in 1..(n - 1) : q[i] = s[i + 1]
    BY <1>1, <1>2, SinElPrimero
  <1>4. \A i \in 1..(n - 1) : i + 1 \in 1..n
    OBVIOUS
  <1>5. SUFFICES ASSUME NEW i \in 1..(n - 1), NEW k \in 1..(n - 1),
                        q[i] = AllJobsDone, q[k] = AllJobsDone
                 PROVE  i = k
    BY <1>1, <1>3 DEF UnAviso
  <1>6. i + 1 = k + 1
    BY <1>3, <1>4, <1>5 DEF UnAviso
  <1>7. QED
    BY <1>6

\* It takes the only notice.
LEMMA AvisoTomado ==
    ASSUME NEW C, NEW s \in Seq(C), UnAviso(s), AllJobsDone \in ToSet(s)
    PROVE  AllJobsDone \notin ToSet(RemoveFirst(s, AllJobsDone))
  <1>1. Len(s) \in Nat /\ DOMAIN s = 1..Len(s) /\ \A k \in 1..Len(s) : s[k] \in C
    BY LenProperties, ElementOfSeq
  <1> DEFINE I == {i \in 1..Len(s) : s[i] = AllJobsDone}
  <1>2. I # {}
    BY <1>1 DEF ToSet
  <1>3. PICK k \in 1..Len(s) : k = Min(I) /\ s[k] = AllJobsDone
    <2>1. I \subseteq Nat
      OBVIOUS
    <2>2. Min(I) \in I
      BY <1>2, <2>1, MenorNumero
    <2>3. QED
      BY <2>2
  <1>4. RemoveFirst(s, AllJobsDone) = RemoveAt(s, k)
    BY <1>2, <1>3 DEF RemoveFirst, SelectInSeq
  <1>5. PICK D : D = C \ {AllJobsDone}
    OBVIOUS
  <1>6. \A i \in 1..Len(s) : i # k => s[i] \in D
    BY <1>1, <1>3, <1>5 DEF UnAviso
  <1>7. SubSeq(s, 1, k - 1) \in Seq(D) /\ SubSeq(s, k + 1, Len(s)) \in Seq(D)
    <2>1. \A i \in 1..(k - 1) : s[i] \in D
      BY <1>1, <1>6
    <2>2. \A i \in (k + 1)..Len(s) : s[i] \in D
      BY <1>1, <1>6
    <2>3. QED
      BY <1>1, <2>1, <2>2, SubSeqProperties
  <1>8. RemoveAt(s, k) \in Seq(D)
    BY <1>7, ConcatProperties DEF RemoveAt
  <1>9. ToSet(RemoveAt(s, k)) \subseteq D
    BY <1>8, DeUnConjunto
  <1>10. QED
    BY <1>4, <1>5, <1>9

-----------------------------------------------------------------------------
(* What the server knows, step by step *)

\* The last job created is one.
LEMMA ElUltimo ==
    ASSUME TInv, sched = "agrega"
    PROVE  Nuevo - 1 \in Trabajos /\ trab[Nuevo - 1] # "sin_crear"
  <1>1. Creados # {} /\ Creados = 1..(Nuevo - 1) /\ Nuevo \in Nat
    BY ElNuevo DEF TInv, Numerados
  <1>2. Nuevo - 1 \in Creados
    BY <1>1
  <1>3. QED
    BY <1>2 DEF Creados

\* What tells one job from another.
LEMMA OrdenUnica ==
    ASSUME NEW c, NEW d, NEW j, NEW k
    PROVE  /\ Orden(c, j) = Orden(d, k) => c = d /\ j = k
           /\ Orden(c, j).clase = c /\ Orden(c, j).job = j
  BY DEF Orden

\* A message that counts is an order to add or to remove a job.
LEMMA CuentaTipo ==
    ASSUME NEW m \in Mensajes, EsCuenta(m)
    PROVE  m.job \in Trabajos /\ m = Orden(m.clase, m.job)
  <1>1. m \in [clase : {"add", "remove"}, job : Trabajos]
    BY DEF Mensajes, Respuestas, ClasesRespuesta, EsCuenta
  <1>2. QED
    BY <1>1 DEF Orden

\* The step neither creates nor ends jobs, nor tells of it.
Calla ==
    /\ EntreRondas' <=> EntreRondas
    /\ \A e \in {"crea", "agrega", "espera", "muerto"} : sched' = e <=> sched = e
    /\ \A j \in Trabajos : /\ trab'[j] = "fin" <=> trab[j] = "fin"
                           /\ trab'[j] = "sin_crear" <=> trab[j] = "sin_crear"
                           /\ sched \in {"crea", "agrega"} => trab'[j] # "quita"
    /\ mapa' = mapa
    /\ \A j \in Trabajos : /\ EnBuzon("add", j)' <=> EnBuzon("add", j)
                           /\ EnBuzon("remove", j)' <=> EnBuzon("remove", j)
    /\ UnaVez(buzonServ') /\ AltasAntes(buzonServ')
    /\ UnAviso(buzonSched') /\ (Avisado' => Avisado)

LEMMA AvisosIgual ==
    ASSUME TInv, Avisos, Calla
    PROVE  Avisos'
  <1>1. Nuevo' = Nuevo
    <2>1. Creados' = Creados
      BY DEF Calla, Creados
    <2>2. QED
      BY <2>1 DEF Nuevo
  <1>2. sched = "agrega" => Nuevo - 1 \in Trabajos
    BY ElUltimo
  <1>3. \A j \in Trabajos : Conocido(j)' <=> Conocido(j)
    BY DEF Calla, Conocido
  <1>4. ASSUME NEW j \in Trabajos PROVE Cuenta(j)'
    <2>1. Cuenta(j)
      BY DEF Avisos
    <2>2. QED
      BY <1>1, <1>3, <2>1 DEF Calla, Cuenta, Activo
  <1>5. Creando'
    BY <1>1, <1>2, <1>3 DEF Calla, Avisos, Creando
  <1>6. Hecho => Hecho'
    BY DEF Hecho, Calla
  <1>7. QED
    BY <1>4, <1>5, <1>6 DEF Calla, Avisos

\* An answer of the agent put in the mailbox counts for nothing.
LEMMA RespuestaNoCuenta ==
    ASSUME TInv, UnaVez(buzonServ), AltasAntes(buzonServ), NEW x, x.clase \notin {"add", "remove"},
           buzonServ' = Append(buzonServ, x)
    PROVE  /\ UnaVez(buzonServ') /\ AltasAntes(buzonServ')
           /\ \A j \in Trabajos : /\ EnBuzon("add", j)' <=> EnBuzon("add", j)
                                  /\ EnBuzon("remove", j)' <=> EnBuzon("remove", j)
  <1>1. EsSeq(buzonServ)
    BY DeUnConjunto DEF TInv, Formas
  <1>2. UnaVez(buzonServ') /\ AltasAntes(buzonServ')
    BY <1>1, CuentaAlFinal DEF EsCuenta
  <1>3. ToSet(buzonServ') = ToSet(buzonServ) \cup {x}
    BY <1>1, AlFinal
  <1>4. \A j : x # Orden("add", j) /\ x # Orden("remove", j)
    BY OrdenUnica
  <1>5. QED
    BY <1>2, <1>3, <1>4 DEF EnBuzon

\* The agent's answers, and the listing.
LEMMA AvisosResponder ==
    ASSUME TInv, Avisos, NEW m, m.clase \notin {"add", "remove"}, m # AllJobsDone,
           Responder(m) \/ UNCHANGED <<buzonSched, buzonServ>>,
           UNCHANGED <<sched, mapa, trab>>
    PROVE  Avisos'
  <1>1. \/ UNCHANGED buzonServ \/ buzonServ' = Append(buzonServ, m)
    BY DEF Responder
  <1>2. \/ UNCHANGED buzonSched \/ buzonSched' = Append(buzonSched, m)
    BY DEF Responder
  <1>3. /\ UnaVez(buzonServ') /\ AltasAntes(buzonServ')
        /\ \A j \in Trabajos : /\ EnBuzon("add", j)' <=> EnBuzon("add", j)
                               /\ EnBuzon("remove", j)' <=> EnBuzon("remove", j)
    <2>1. CASE UNCHANGED buzonServ
      BY <2>1 DEF Avisos, EnBuzon
    <2>2. CASE buzonServ' = Append(buzonServ, m)
      BY <2>2, RespuestaNoCuenta DEF Avisos
    <2>3. QED
      BY <1>1, <2>1, <2>2
  <1>4. UnAviso(buzonSched') /\ (Avisado' => Avisado)
    <2>1. CASE UNCHANGED buzonSched
      BY <2>1 DEF Avisos, Avisado
    <2>2. CASE buzonSched' = Append(buzonSched, m)
      <3>1. EsSeq(buzonSched)
        BY DeUnConjunto DEF TInv, TypeOK
      <3>2. ToSet(buzonSched') = ToSet(buzonSched) \cup {m}
        BY <2>2, <3>1, AlFinal
      <3>3. QED
        BY <2>2, <3>1, <3>2, AvisoAlFinal DEF Avisos, Avisado
    <2>3. QED
      BY <1>2, <2>1, <2>2
  <1>5. \A j \in Trabajos : sched \in {"crea", "agrega"} => trab[j] # "quita"
    BY DEF Avisos, Creando
  <1>6. Calla
    BY <1>3, <1>4, <1>5 DEF Calla, EntreRondas
  <1>7. QED
    BY <1>6, AvisosIgual

\* The steps of the agent.
LEMMA AvisosAgente ==
    ASSUME TInv, Avisos, AgenteLee \/ \E j \in Trabajos : AgenteConcede(j) \/ AgenteDeniega(j)
    PROVE  Avisos'
  <1>1. UNCHANGED <<sched, mapa, trab>>
    BY DEF AgenteLee, AgenteConcede, AgenteDeniega, trabajo
  <1>2. \A j, v : /\ Respuesta("JOB_GRANTED", j, v).clase = "JOB_GRANTED"
                  /\ Respuesta("JOB_DENIED", j, v).clase = "JOB_DENIED"
    BY DEF Respuesta
  <1>3. \A S : Lista(S).clase = "NODES"
    BY DEF Lista
  <1>4. AllJobsDone.clase = "alljobsdone"
    BY DEF AllJobsDone
  <1>5. \E m : /\ m.clase \in {"NODES", "JOB_GRANTED", "JOB_DENIED"}
               /\ Responder(m) \/ UNCHANGED <<buzonSched, buzonServ>>
    <2>1. CASE AgenteLee
      <3>1. PICK x : x = Head(canal)
        OBVIOUS
      <3>2. \/ \E S \in Listados : Responder(Lista(S))
            \/ UNCHANGED <<buzonSched, buzonServ>>
            \/ Responder(Respuesta("JOB_GRANTED", x.job, agente[x.job].vez))
        BY <2>1, <3>1 DEF AgenteLee
      <3>3. QED
        BY <1>2, <1>3, <3>2
    <2>2. CASE \E j \in Trabajos : AgenteConcede(j) \/ AgenteDeniega(j)
      BY <1>2, <2>2 DEF AgenteConcede, AgenteDeniega
    <2>3. QED
      BY <2>1, <2>2
  <1>6. PICK m : /\ m.clase \in {"NODES", "JOB_GRANTED", "JOB_DENIED"}
                 /\ Responder(m) \/ UNCHANGED <<buzonSched, buzonServ>>
    BY <1>5
  <1>7. m.clase \notin {"add", "remove"} /\ m # AllJobsDone
    BY <1>4, <1>6
  <1>8. QED
    BY <1>1, <1>6, <1>7, AvisosResponder

\* A job that does not end.
LEMMA AvisosTrabajo ==
    ASSUME TInv, Avisos, Vivo, registro' = "vivo", NEW j \in Trabajos, Trabajo(j), ~ Quitar(j)
    PROVE  Avisos'
  <1>1. /\ Solicitar(j) \/ Concedido(j) \/ Vencer(j) \/ Reintentar(j) \/ Terminar(j)
    BY DEF Trabajo, Abandonar, Denegado
  <1>2. UNCHANGED <<planif, servidor>>
    BY <1>1 DEF Solicitar, Concedido, Vencer, Reintentar, Terminar
  <1>3. UNCHANGED <<sched, buzonSched, mapa, buzonServ>>
    BY <1>2 DEF planif, servidor
  <1>4. PICK e \in {"espera", "trabaja", "quita", "descansa", "pide"} : Ir(j, e)
    BY <1>1 DEF Solicitar, Concedido, Vencer, Reintentar, Terminar, Acabar
  <1>5. trab[j] \notin {"fin", "sin_crear"}
    BY <1>1 DEF Solicitar, Concedido, Vencer, Reintentar, Terminar
  <1>6. Vencer(j) \/ Terminar(j) \/ e # "quita"
    <2>1. trab'[j] = e
      BY <1>4 DEF Ir, TInv, TypeOK
    <2>2. Solicitar(j) \/ Concedido(j) \/ Reintentar(j) => trab'[j] # "quita"
      BY DEF Solicitar, Concedido, Reintentar, Ir, TInv, TypeOK
    <2>3. QED
      BY <1>1, <2>1, <2>2
  <1>7. sched \in {"crea", "agrega"} => e # "quita"
    BY <1>6 DEF Vencer, Terminar, PasaElTiempo
  <1>8. \A k \in Trabajos : trab'[k] = IF k = j THEN e ELSE trab[k]
    BY <1>4 DEF Ir, TInv, TypeOK
  <1>9. \A k \in Trabajos : sched \in {"crea", "agrega"} => trab[k] # "quita"
    BY DEF Avisos, Creando
  <1>10. Calla
    <2>1. \A k \in Trabajos : /\ trab'[k] = "fin" <=> trab[k] = "fin"
                              /\ trab'[k] = "sin_crear" <=> trab[k] = "sin_crear"
                              /\ sched \in {"crea", "agrega"} => trab'[k] # "quita"
      BY <1>5, <1>7, <1>8, <1>9
    <2>2. QED
      BY <1>3, <2>1 DEF Calla, EntreRondas, EnBuzon, Avisado, Avisos
  <1>11. QED
    BY <1>10, AvisosIgual

\* The scheduler between two rounds, and at the start of one.
LEMMA AvisosEntre ==
    ASSUME TInv, Avisos, PedirNodos \/ RecibirNodos \/ OtraRonda
    PROVE  Avisos'
  <1>1. EntreRondas /\ Hecho /\ ~ Avisado
    BY DEF Avisos, EntreRondas, PedirNodos, RecibirNodos, OtraRonda
  <1>2. UNCHANGED <<mapa, buzonServ, trab>>
    BY DEF PedirNodos, RecibirNodos, OtraRonda, servidor, trabajo
  <1>3. sched' \in {"pide", "espera_nodos", "espera", "crea"}
    BY DEF PedirNodos, RecibirNodos, OtraRonda
  <1>4. UnAviso(buzonSched') /\ ~ Avisado'
    <2>1. CASE UNCHANGED buzonSched
      BY <1>1, <2>1 DEF Avisos, Avisado
    <2>2. CASE RecibirNodos
      <3>1. EsSeq(buzonSched)
        BY DeUnConjunto DEF TInv, TypeOK
      <3>2. buzonSched # <<>> /\ buzonSched' = Tail(buzonSched)
        BY <2>2 DEF RecibirNodos
      <3>3. QED
        BY <1>1, <3>1, <3>2, SinElPrimero, AvisoSinPrimero DEF Avisos, Avisado
    <2>3. QED
      BY <2>1, <2>2 DEF PedirNodos, OtraRonda
  <1>5. Nuevo' = Nuevo
    BY <1>2 DEF Nuevo, Creados
  <1>6. Hecho' /\ \A j \in Trabajos : ~ Conocido(j) /\ ~ Conocido(j)'
    BY <1>1, <1>2 DEF Hecho, EnBuzon, Conocido
  <1>7. ASSUME NEW j \in Trabajos
        PROVE  ~ Activo(j) /\ Cuenta(j)' /\ trab[j] # "quita"
    <2>1. Cuenta(j) /\ sched # "agrega"
      BY <1>1 DEF Avisos, EntreRondas
    <2>2. ~ Activo(j)
      BY <1>6, <2>1 DEF Cuenta
    <2>3. Cuenta(j)'
      BY <1>2, <1>6, <2>1, <2>2 DEF Cuenta, Activo, EnBuzon, Conocido
    <2>4. QED
      BY <2>2, <2>3 DEF Activo
  <1>8. Creando'
    BY <1>2, <1>3, <1>6, <1>7 DEF Creando, Hecho
  <1>9. UnaVez(buzonServ') /\ AltasAntes(buzonServ')
    BY <1>2 DEF Avisos
  <1>10. QED
    BY <1>3, <1>4, <1>6, <1>7, <1>8, <1>9 DEF Avisos

\* The process of a job starts.
LEMMA UnoMas ==
    ASSUME TInv, Crear, NEW n \in Trabajos, n = Nuevo
    PROVE  /\ n \in Nat /\ Creados = 1..(n - 1) /\ Nuevo' = n + 1
           /\ trab[n] = "sin_crear"
           /\ \A k \in Trabajos : trab'[k] = IF k = n THEN "pide" ELSE trab[k]
  <1>1. \A k \in Trabajos : trab'[k] = IF k = n THEN "pide" ELSE trab[k]
    BY DEF Crear, Ir, TInv, TypeOK
  <1>2. n \in Nat /\ n # 0 /\ Creados = 1..(n - 1)
    BY ElNuevo, Numeros DEF TInv
  <1>3. trab[n] = "sin_crear"
    <2>1. n \notin Creados
      BY <1>2
    <2>2. QED
      BY <2>1 DEF Creados
  <1>4. Creados' = Creados \cup {n}
    BY <1>1 DEF Creados
  <1>5. Creados' = 1..n
    <2>1. 1..n = (1..(n - 1)) \cup {n}
      BY <1>2
    <2>2. QED
      BY <1>2, <1>4, <2>1
  <1>6. Cardinality(1..n) = n
    BY <1>2, FS_Interval
  <1>7. Nuevo' = n + 1
    BY <1>5, <1>6 DEF Nuevo
  <1>8. QED
    BY <1>1, <1>2, <1>3, <1>7

\* The server does not know of it.
LEMMA AvisosCrear ==
    ASSUME TInv, Avisos, Crear, NEW n \in Trabajos, n = Nuevo
    PROVE  Avisos'
  <1>1. sched = "crea" /\ sched' = "agrega" /\ UNCHANGED <<buzonSched, mapa, buzonServ>>
    BY DEF Crear, servidor
  <1>2. /\ n \in Nat /\ Nuevo' - 1 = n /\ trab[n] = "sin_crear"
        /\ \A k \in Trabajos : trab'[k] = IF k = n THEN "pide" ELSE trab[k]
    BY UnoMas
  <1>3. \A j : (Conocido(j)' <=> Conocido(j)) /\ \A c : EnBuzon(c, j)' <=> EnBuzon(c, j)
    BY <1>1 DEF Conocido, EnBuzon
  <1>4. \A j \in Trabajos : Cuenta(j)
    BY DEF Avisos
  <1>5. ~ Conocido(n)
    BY <1>2, <1>4 DEF Cuenta
  <1>6. \A j \in Trabajos : trab[j] # "quita" /\ ~ EnBuzon("remove", j)
    BY <1>1 DEF Avisos, Creando
  <1>7. ASSUME NEW j \in Trabajos PROVE Cuenta(j)'
    <2>1. CASE j = n
      <3>1. trab'[j] = "pide" /\ sched' = "agrega" /\ j = Nuevo' - 1
        BY <1>1, <1>2, <2>1
      <3>2. (j \in mapa' => ~ EnBuzon("add", j)') /\ ~ EnBuzon("remove", j)'
        BY <1>1, <1>3, <1>4, <1>6 DEF Cuenta
      <3>3. QED
        BY <3>1, <3>2 DEF Cuenta, Activo
    <2>2. CASE j # n
      <3>1. Cuenta(j) /\ trab'[j] = trab[j] /\ sched # "agrega"
        BY <1>1, <1>2, <1>4, <2>2
      <3>2. QED
        BY <1>1, <1>3, <3>1 DEF Cuenta, Activo
    <2>3. QED
      BY <2>1, <2>2
  <1>8. Creando'
    <2>1. \A j \in Trabajos : trab'[j] # "quita" /\ ~ EnBuzon("remove", j)'
      BY <1>2, <1>3, <1>6
    <2>2. ~ Conocido(n)' /\ trab'[n] # "fin"
      BY <1>2, <1>3, <1>5
    <2>3. PICK m : m = Nuevo' - 1
      OBVIOUS
    <2>4. ~ Conocido(m)' /\ trab'[m] # "fin"
      BY <1>2, <2>2, <2>3
    <2>5. ~ Conocido(Nuevo - 1)' /\ trab'[Nuevo' - 1] # "fin"
      BY <2>3, <2>4 DEF Conocido, EnBuzon
    <2>6. QED
      BY <2>1, <2>5 DEF Creando
  <1>9. ~ Avisado
    BY <1>1 DEF Avisos
  <1>10. QED
    BY <1>1, <1>7, <1>8, <1>9 DEF Avisos, EntreRondas, Avisado

\* The server is told of a job that has not ended.
LEMMA AvisosAgregar ==
    ASSUME TInv, Avisos, Agregar
    PROVE  Avisos'
  <1>1. PICK n \in Trabajos : n = Nuevo - 1 /\ trab[n] # "sin_crear"
    BY ElUltimo DEF Agregar
  <1>2. /\ sched = "agrega" /\ sched' \in {"espera", "crea"} /\ UNCHANGED <<buzonSched, mapa, trab>>
        /\ buzonServ' = Append(buzonServ, Orden("add", n))
    BY <1>1 DEF Agregar, trabajo
  <1>3. ~ Conocido(n) /\ trab[n] # "fin"
    BY <1>1, <1>2 DEF Avisos, Creando
  <1>4. \A j \in Trabajos : trab[j] # "quita" /\ ~ EnBuzon("remove", j)
    BY <1>2 DEF Avisos, Creando
  <1>5. EsSeq(buzonServ) /\ ToSet(buzonServ) \subseteq Mensajes
    BY DeUnConjunto DEF TInv, Formas
  <1>6. \A m \in ToSet(buzonServ) : m.clase # "remove"
    BY <1>4, <1>5, CuentaTipo DEF EnBuzon, EsCuenta
  <1>7. Orden("add", n) \notin ToSet(buzonServ)
    BY <1>3 DEF Conocido, EnBuzon
  <1>8. UnaVez(buzonServ') /\ AltasAntes(buzonServ')
    BY <1>2, <1>5, <1>6, <1>7, CuentaAlFinal DEF Avisos
  <1>9. ToSet(buzonServ') = ToSet(buzonServ) \cup {Orden("add", n)}
    BY <1>2, <1>5, AlFinal
  <1>10. \A j \in Trabajos : /\ EnBuzon("remove", j)' <=> EnBuzon("remove", j)
                             /\ EnBuzon("add", j)' <=> EnBuzon("add", j) \/ j = n
    <2>1. \A j : Orden("remove", j) # Orden("add", n)
      BY OrdenUnica
    <2>2. \A j : Orden("add", j) = Orden("add", n) <=> j = n
      BY OrdenUnica
    <2>3. QED
      BY <1>9, <2>1, <2>2 DEF EnBuzon
  <1>11. ASSUME NEW j \in Trabajos PROVE Cuenta(j)'
    <2>1. Cuenta(j) /\ trab'[j] = trab[j] /\ (j \in mapa' <=> j \in mapa)
      BY <1>2 DEF Avisos
    <2>2. CASE j = n
      BY <1>1, <1>3, <1>4, <1>10, <2>1, <2>2 DEF Cuenta, Conocido, Activo
    <2>3. CASE j # n
      BY <1>1, <1>10, <2>1, <2>3 DEF Cuenta, Conocido, Activo
    <2>4. QED
      BY <2>2, <2>3
  <1>12. Creando'
    BY <1>2, <1>4, <1>10 DEF Creando
  <1>13. ~ Avisado /\ ~ Avisado' /\ ~ EntreRondas'
    BY <1>2 DEF Avisos, Avisado, EntreRondas
  <1>14. QED
    BY <1>2, <1>8, <1>11, <1>12, <1>13 DEF Avisos

\* The scheduler hears that the round is over.
LEMMA AvisosEsperarFin ==
    ASSUME TInv, Avisos, EsperarFin
    PROVE  Avisos'
  <1>1. /\ sched = "espera" /\ sched' = "duerme" /\ UNCHANGED <<mapa, buzonServ, trab>>
        /\ buzonSched' = RemoveFirst(buzonSched, AllJobsDone) /\ Avisado
    BY DEF EsperarFin, servidor, trabajo, Avisado
  <1>2. Hecho /\ UnAviso(buzonSched)
    BY <1>1 DEF Avisos
  <1>3. ~ Avisado'
    BY <1>1, <1>2, AvisoTomado DEF Avisado, TInv, TypeOK
  <1>4. UnAviso(buzonSched')
    <2>1. AllJobsDone \notin ToSet(buzonSched')
      BY <1>3 DEF Avisado
    <2>2. QED
      BY <2>1 DEF UnAviso, ToSet
  <1>5. Hecho' /\ \A j \in Trabajos : Conocido(j)' <=> Conocido(j)
    BY <1>1, <1>2 DEF Hecho, EnBuzon, Conocido
  <1>6. ASSUME NEW j \in Trabajos PROVE Cuenta(j)'
    <2>1. Cuenta(j)
      BY DEF Avisos
    <2>2. QED
      BY <1>1, <1>5, <2>1 DEF Cuenta, Activo, EnBuzon
  <1>7. Creando'
    BY <1>1 DEF Creando
  <1>8. QED
    BY <1>1, <1>3, <1>4, <1>5, <1>6, <1>7 DEF Avisos

\* The process of a job ends.
LEMMA AvisosQuitar ==
    ASSUME TInv, Avisos, NEW n \in Trabajos, Quitar(n)
    PROVE  Avisos'
  <1>1. /\ trab[n] = "quita" /\ UNCHANGED <<sched, buzonSched, mapa>>
        /\ buzonServ' = Append(buzonServ, Orden("remove", n))
        /\ \A k \in Trabajos : trab'[k] = IF k = n THEN "fin" ELSE trab[k]
    BY DEF Quitar, Ir, planif, TInv, TypeOK
  <1>2. Cuenta(n) /\ sched \notin {"crea", "agrega"}
    BY <1>1 DEF Avisos, Creando
  <1>3. Conocido(n) /\ ~ EnBuzon("remove", n)
    BY <1>1, <1>2 DEF Cuenta, Activo
  <1>4. EsSeq(buzonServ)
    BY DeUnConjunto DEF TInv, Formas
  <1>5. Orden("remove", n).clase # "add" /\ Orden("remove", n) \notin ToSet(buzonServ)
    BY <1>3 DEF EnBuzon, Orden
  <1>6. UnaVez(buzonServ') /\ AltasAntes(buzonServ')
    BY <1>1, <1>4, <1>5, CuentaAlFinal DEF Avisos
  <1>7. ToSet(buzonServ') = ToSet(buzonServ) \cup {Orden("remove", n)}
    BY <1>1, <1>4, AlFinal
  <1>8. \A j \in Trabajos : /\ EnBuzon("add", j)' <=> EnBuzon("add", j)
                            /\ EnBuzon("remove", j)' <=> EnBuzon("remove", j) \/ j = n
    <2>1. \A j : Orden("add", j) # Orden("remove", n)
      BY OrdenUnica
    <2>2. \A j : Orden("remove", j) = Orden("remove", n) <=> j = n
      BY OrdenUnica
    <2>3. QED
      BY <1>7, <2>1, <2>2 DEF EnBuzon
  <1>9. ASSUME NEW j \in Trabajos PROVE Cuenta(j)'
    <2>1. Cuenta(j) /\ (j \in mapa' <=> j \in mapa)
      BY <1>1 DEF Avisos
    <2>2. CASE j = n
      BY <1>1, <1>3, <1>8, <2>1, <2>2 DEF Cuenta, Conocido, Activo
    <2>3. CASE j # n
      BY <1>1, <1>2, <1>8, <2>1, <2>3 DEF Cuenta, Conocido, Activo
    <2>4. QED
      BY <2>2, <2>3
  <1>10. ~ Hecho
    BY <1>3 DEF Hecho, Conocido
  <1>11. ~ EntreRondas /\ ~ Avisado
    BY <1>10 DEF Avisos
  <1>12. Creando' /\ ~ EntreRondas' /\ ~ Avisado' /\ UnAviso(buzonSched')
    BY <1>1, <1>2, <1>11 DEF Creando, EntreRondas, Avisado, Avisos
  <1>13. QED
    BY <1>1, <1>6, <1>9, <1>12 DEF Avisos

\* The server takes a message, and says when the last job is removed.
LEMMA AvisosServir ==
    ASSUME TInv, Avisos, Servir
    PROVE  Avisos'
  <1>1. PICK m : m = Head(buzonServ)
    OBVIOUS
  <1>2. /\ EsSeq(buzonServ) /\ buzonServ # <<>> /\ ToSet(buzonServ) \subseteq Mensajes
        /\ buzonServ' = Tail(buzonServ) /\ UNCHANGED <<sched, trab>>
    BY DeUnConjunto DEF Servir, TInv, Formas
  <1>3. /\ m \in ToSet(buzonServ) /\ ToSet(buzonServ') \subseteq ToSet(buzonServ)
        /\ ToSet(buzonServ) \subseteq ToSet(buzonServ') \cup {m}
    BY <1>1, <1>2, SinElPrimero
  <1>4. /\ UnaVez(buzonServ') /\ AltasAntes(buzonServ')
        /\ EsCuenta(m) => m \notin ToSet(buzonServ')
        /\ m.clase = "remove" => \A x \in ToSet(buzonServ) : x.clase # "add"
    BY <1>1, <1>2, CuentaSinPrimero DEF Avisos
  <1>5. \A k \in Trabajos : /\ EnBuzon("add", k)' <=> EnBuzon("add", k) /\ m # Orden("add", k)
                            /\ EnBuzon("remove", k)' <=>
                                   EnBuzon("remove", k) /\ m # Orden("remove", k)
    BY <1>3, <1>4, OrdenUnica DEF EnBuzon, EsCuenta
  <1>6. \A k \in Trabajos : Cuenta(k)
    BY DEF Avisos
  <1>7. Nuevo' = Nuevo
    BY <1>2 DEF Nuevo, Creados
  <1>8. CASE m.clase \in {"JOB_GRANTED", "JOB_DENIED"}
    <2>1. UNCHANGED <<mapa, buzonSched>>
      BY <1>1, <1>8 DEF Servir
    <2>2. \A k : m # Orden("add", k) /\ m # Orden("remove", k)
      BY <1>8, OrdenUnica
    <2>3. \A k \in Trabajos : sched \in {"crea", "agrega"} => trab[k] # "quita"
      BY DEF Avisos, Creando
    <2>4. Calla
      BY <1>2, <1>4, <1>5, <2>1, <2>2, <2>3 DEF Calla, EntreRondas, Avisado, Avisos
    <2>5. QED
      BY <2>4, AvisosIgual
  <1>9. CASE m.clase = "add"
    <2>1. PICK j \in Trabajos : j = m.job /\ m = Orden("add", j)
      BY <1>2, <1>3, <1>9, CuentaTipo DEF EsCuenta
    <2>2. mapa' = mapa \cup {j} /\ UNCHANGED buzonSched
      BY <1>1, <1>9, <2>1 DEF Servir
    <2>3. EnBuzon("add", j)
      BY <1>3, <2>1 DEF EnBuzon
    <2>4. \A k \in Trabajos : /\ EnBuzon("add", k)' <=> EnBuzon("add", k) /\ k # j
                              /\ EnBuzon("remove", k)' <=> EnBuzon("remove", k)
                              /\ k \in mapa' <=> k \in mapa \/ k = j
      BY <1>5, <2>1, <2>2, OrdenUnica
    <2>5. \A k \in Trabajos : Conocido(k)' <=> Conocido(k)
      BY <2>3, <2>4 DEF Conocido
    <2>6. ASSUME NEW k \in Trabajos PROVE Cuenta(k)'
      BY <1>2, <1>6, <1>7, <2>4, <2>5 DEF Cuenta, Activo
    <2>7. ~ EntreRondas /\ ~ Avisado
      BY <2>3 DEF Hecho, Avisos
    <2>8. Creando'
      <3>1. sched = "agrega" => Nuevo - 1 \in Trabajos
        BY ElUltimo
      <3>2. QED
        BY <1>2, <1>7, <2>4, <2>5, <3>1 DEF Creando, Avisos
    <2>9. QED
      BY <1>2, <1>4, <2>2, <2>6, <2>7, <2>8 DEF Avisos, EntreRondas, Avisado
  <1>10. CASE m.clase = "remove"
    <2>1. PICK j \in Trabajos : j = m.job /\ m = Orden("remove", j)
      BY <1>2, <1>3, <1>10, CuentaTipo DEF EsCuenta
    <2>2. /\ mapa' = mapa \ {j}
          /\ \/ mapa' # {} /\ UNCHANGED buzonSched
             \/ mapa' = {} /\ buzonSched' = Append(buzonSched, AllJobsDone)
      BY <1>1, <1>10, <2>1 DEF Servir, QuedaVacio
    <2>3. EnBuzon("remove", j) /\ trab[j] = "fin"
      BY <1>3, <1>6, <2>1 DEF EnBuzon, Cuenta
    <2>4. \A k \in Trabajos : ~ EnBuzon("add", k)
      BY <1>4, <1>10, OrdenUnica DEF EnBuzon
    <2>5. \A k \in Trabajos : /\ ~ EnBuzon("add", k)'
                              /\ EnBuzon("remove", k)' <=> EnBuzon("remove", k) /\ k # j
                              /\ k \in mapa' <=> k \in mapa /\ k # j
      BY <1>5, <2>1, <2>2, <2>4, OrdenUnica
    <2>6. \A k \in Trabajos : /\ Conocido(k) <=> k \in mapa
                              /\ Conocido(k)' <=> k \in mapa'
      BY <2>4, <2>5 DEF Conocido
    <2>7. sched \notin {"crea", "agrega"} /\ ~ EntreRondas /\ ~ Avisado
      BY <2>3 DEF Hecho, Creando, Avisos
    <2>8. sched = "espera"
      BY <2>7 DEF EntreRondas, Avisos, TInv, TypeOK
    <2>9. ASSUME NEW k \in Trabajos PROVE Cuenta(k)'
      <3>1. CASE k = j
        BY <1>2, <2>3, <2>5, <2>6, <3>1 DEF Cuenta, Activo
      <3>2. CASE k # j
        BY <1>2, <1>6, <2>5, <2>6, <2>8, <3>2 DEF Cuenta, Activo
      <3>3. QED
        BY <3>1, <3>2
    <2>10. Creando' /\ ~ EntreRondas'
      BY <1>2, <2>8 DEF Creando, EntreRondas
    <2>11. mapa' = {} => Hecho'
      BY <1>6, <2>5, <2>6 DEF Cuenta, Hecho
    <2>12. EsSeq(buzonSched)
      BY DeUnConjunto DEF TInv, TypeOK
    <2>13. UnAviso(buzonSched') /\ (Avisado' => mapa' = {})
      BY <2>2, <2>7, <2>12, AvisoAlFinal DEF Avisado, Avisos
    <2>14. QED
      BY <1>2, <1>4, <2>8, <2>9, <2>10, <2>11, <2>13 DEF Avisos
  <1>11. QED
    BY <1>1, <1>8, <1>9, <1>10 DEF Servir

\* At the start the server has nothing to do.
LEMMA AvisosInit == Init => Avisos /\ SinNadie
  <1> SUFFICES ASSUME Init PROVE Avisos /\ SinNadie
    OBVIOUS
  <1>1. buzonServ = <<>> /\ buzonSched = <<>> /\ mapa = {} /\ sched = "pide"
    BY DEF Init
  <1>2. \A j \in Trabajos : trab[j] = "sin_crear"
    BY DEF Init
  <1>3. ToSet(buzonServ) = {} /\ ToSet(buzonSched) = {}
    BY <1>1 DEF ToSet
  <1>4. UnaVez(buzonServ) /\ AltasAntes(buzonServ) /\ UnAviso(buzonSched)
    BY <1>1 DEF UnaVez, AltasAntes, UnAviso
  <1>5. QED
    BY <1>1, <1>2, <1>3, <1>4
       DEF Avisos, Cuenta, Conocido, EnBuzon, Activo, Creando, Hecho, Avisado, SinNadie

\* The log process does not come back.
LEMMA RegistroPaso ==
    ASSUME Next
    PROVE  /\ registro' = "vivo" => registro = "vivo"
           /\ Vivo' => Vivo
  BY DEF Next, Planificador, Scheduler, PedirNodos, RecibirNodos, Crear, Agregar, EsperarFin,
     OtraRonda, Servir, Silencio, Caer, Trabajo, Solicitar, Concedido, Denegado, Vencer,
     Reintentar, Terminar, Quitar, Abandonar, AgenteLee, Agente, AgenteConcede,
     AgenteDeniega, Vivo

\* As long as the log process lives.
LEMMA AvisosPaso ==
    ASSUME TInv, registro = "vivo" => Avisos, sched = "crea" => Nuevo \in Trabajos,
           [Next]_vars, registro' = "vivo"
    PROVE  Avisos'
  <1>1. CASE UNCHANGED vars
    <2>1. Avisos
      BY <1>1 DEF vars
    <2>2. Calla
      BY <1>1, <2>1 DEF vars, planif, servidor, trabajo, Calla, EntreRondas, EnBuzon, Avisado,
           Avisos, Creando
    <2>3. QED
      BY <2>1, <2>2, AvisosIgual
  <1>2. ASSUME Next PROVE Avisos'
    <2>1. registro = "vivo" /\ Avisos /\ Vivo
      BY <1>2, RegistroPaso DEF Vivo
    <2>2. CASE PedirNodos \/ RecibirNodos \/ OtraRonda
      BY <2>1, <2>2, AvisosEntre
    <2>3. CASE Crear
      <3>1. PICK n \in Trabajos : n = Nuevo
        BY <2>3 DEF Crear
      <3>2. QED
        BY <2>1, <2>3, <3>1, AvisosCrear
    <2>4. CASE Agregar
      BY <2>1, <2>4, AvisosAgregar
    <2>5. CASE EsperarFin
      BY <2>1, <2>5, AvisosEsperarFin
    <2>6. CASE Servir
      BY <2>1, <2>6, AvisosServir
    <2>7. CASE AgenteLee \/ Agente
      BY <2>1, <2>7, AvisosAgente DEF Agente
    <2>8. ASSUME NEW j \in Trabajos, Trabajo(j) PROVE Avisos'
      <3>1. CASE Quitar(j)
        BY <2>1, <3>1, AvisosQuitar
      <3>2. CASE ~ Quitar(j)
        BY <2>1, <2>8, <3>2, AvisosTrabajo
      <3>3. QED
        BY <3>1, <3>2
    <2>9. ~ Silencio /\ ~ Caer
      BY DEF Silencio, Caer
    <2>10. QED
      BY <1>2, <2>2, <2>3, <2>4, <2>5, <2>6, <2>7, <2>8, <2>9 DEF Next, Planificador, Scheduler
  <1>3. QED
    BY <1>1, <1>2

\* A job that has no process does not get one.
LEMMA NingunoMas ==
    ASSUME TInv, [Next]_vars, NEW j \in Trabajos, ~ Activo(j), ~ Crear
    PROVE  ~ Activo(j)'
  <1>1. CASE trab' = trab
    BY <1>1 DEF Activo
  <1>2. ASSUME NEW k \in Trabajos, Trabajo(k) PROVE ~ Activo(j)'
    <2>1. Activo(k)
      BY <1>2 DEF Trabajo, Activo, Solicitar, Concedido, Denegado, Vencer, Reintentar, Terminar,
           Quitar, Abandonar
    <2>2. PICK e : Ir(k, e)
      BY <1>2 DEF Trabajo, Acabar, Solicitar, Concedido, Denegado, Vencer, Reintentar, Terminar,
           Quitar, Abandonar
    <2>3. trab'[j] = trab[j]
      BY <2>1, <2>2 DEF Ir, TInv, TypeOK
    <2>4. QED
      BY <2>3 DEF Activo
  <1>3. trab' = trab \/ \E k \in Trabajos : Trabajo(k)
    BY DEF Next, Planificador, Scheduler, PedirNodos, RecibirNodos, Agregar, EsperarFin,
       OtraRonda, Servir, Silencio, Caer, AgenteLee, Agente, AgenteConcede, AgenteDeniega,
       vars, trabajo
  <1>4. QED
    BY <1>1, <1>2, <1>3

\* A round starts when the former one is over.
LEMMA SinNadiePaso ==
    ASSUME TInv, registro = "vivo" => Avisos, Vivo => SinNadie, [Next]_vars, Vivo'
    PROVE  SinNadie'
  <1>1. SUFFICES ASSUME sched' \in {"pide", "espera_nodos"}, NEW j \in Trabajos
                 PROVE  ~ Activo(j)'
    BY DEF SinNadie
  <1>2. Vivo
    <2>1. CASE UNCHANGED vars
      BY <2>1 DEF vars, Vivo
    <2>2. QED
      BY <2>1, RegistroPaso
  <1>3. ~ Crear
    BY <1>1 DEF Crear
  <1>4. sched \in {"pide", "espera_nodos"} \/ OtraRonda
    BY <1>1, <1>2 DEF Next, Planificador, Scheduler, PedirNodos, RecibirNodos, Crear, Agregar,
       EsperarFin, OtraRonda, Servir, Silencio, Caer, Trabajo, Solicitar, Concedido, Denegado,
       Vencer, Reintentar, Terminar, Quitar, Abandonar, AgenteLee, Agente, AgenteConcede,
       AgenteDeniega, planif, vars, Vivo
  <1>5. ~ Activo(j)
    <2>1. CASE sched \in {"pide", "espera_nodos"}
      BY <1>2, <2>1 DEF SinNadie
    <2>2. CASE OtraRonda
      <3>1. registro = "vivo" /\ sched = "duerme"
        BY <1>2, <2>2 DEF OtraRonda, PasaElTiempo, Vivo, TInv, TypeOK
      <3>2. Hecho /\ Cuenta(j)
        BY <3>1 DEF Avisos, EntreRondas
      <3>3. QED
        BY <3>1, <3>2 DEF Hecho, Cuenta, Conocido
    <2>3. QED
      BY <1>4, <2>1, <2>2
  <1>6. QED
    BY <1>3, <1>5, NingunoMas

-----------------------------------------------------------------------------
(* The invariant: what the jobs of a round ask for, and what is held *)

\* Job j holds what it asked for, once the first k lines are read.
Retiene(j, k) ==
    \/ agente[j] # SinPedido /\ \A i \in 1..k : canal[i].job # j
    \/ \E i \in 1..k : /\ canal[i].job = j /\ canal[i].clase = "JOB_REQUEST"
                       /\ \A h \in (i + 1)..k : canal[h].job # j
Retienen(k) == {j \in Trabajos : Retiene(j, k)}

\* The jobs of the round: those with a process, and those to create, which are
\* numbered from Base + 1.
Base == IF sched = "crea" THEN Nuevo - 1 ELSE Nuevo - 2
Planeado(j) == sched \in {"crea", "agrega"} /\ j - Base \in 1..Len(porCrear)
EnRonda == {j \in Trabajos : Activo(j) \/ Planeado(j)}

\* L gives the line of each job.
Caben(L, S) ==
    \A n \in Nodos : \A t \in Tipos :
        Suma(S, [j \in S |-> Cantidad(L[j], n, t)]) <= Mitad(n)[t]
PlanDe(L) ==
    sched \in {"crea", "agrega"} =>
        /\ porCrear \in Seq(Lineas) /\ porCrear # <<>>
        /\ \A i \in 1..Len(porCrear) : Base + i \in Trabajos /\ L[Base + i] = porCrear[i]
PidenDe(L) ==
    /\ \A m \in ToSet(canal) : m.clase = "JOB_REQUEST" => m.pide = L[m.job]
    /\ \A j \in Trabajos : agente[j] # SinPedido => agente[j].pide = L[j]
    /\ linea = [j \in Trabajos |-> linea[j]]
    /\ \A j \in Trabajos : trab[j] \in {"pide", "espera", "descansa"} => linea[j] = L[j]
Asignado(L) ==
    /\ L \in [Trabajos -> Lineas]
    /\ \A k \in 0..Len(canal) : Caben(L, Retienen(k))
    /\ Vivo => Caben(L, EnRonda)
    /\ PlanDe(L) /\ PidenDe(L)

MInv == RondaInv /\ \E L : Asignado(L)

-----------------------------------------------------------------------------
(* What is held *)

\* Fewer jobs ask for no more.
LEMMA CabenMenos ==
    ASSUME NEW L \in [Trabajos -> Lineas], NEW S \in SUBSET Trabajos, NEW T \in SUBSET Trabajos,
           T \subseteq S, Caben(L, S)
    PROVE  Caben(L, T)
  <1>1. SUFFICES ASSUME NEW n \in Nodos, NEW t \in Tipos
                 PROVE  Suma(T, [j \in T |-> Cantidad(L[j], n, t)]) <= Mitad(n)[t]
    BY DEF Caben
  <1>2. PICK f : f = [j \in T |-> Cantidad(L[j], n, t)]
    OBVIOUS
  <1>3. PICK g : g = [j \in S |-> Cantidad(L[j], n, t)]
    OBVIOUS
  <1>4. IsFiniteSet(S) /\ IsFiniteSet(T)
    <2>1. IsFiniteSet(Trabajos)
      BY CotasAssumption, FS_Interval DEF Trabajos
    <2>2. QED
      BY <2>1, FS_Subset
  <1>5. /\ \A j \in S : g[j] = Cantidad(L[j], n, t) /\ g[j] \in Nat
        /\ \A j \in T : f[j] = g[j] /\ f[j] \in Nat
    BY <1>2, <1>3, LineaMonto
  <1>6. Suma(T, f) <= Suma(S, g) /\ Suma(T, f) \in Nat /\ Suma(S, g) \in Nat
    BY <1>4, <1>5, SumaDentro, SumaNat
  <1>7. Suma(S, g) <= Mitad(n)[t] /\ Mitad(n)[t] \in Nat
    BY <1>3, MitadTipo DEF Caben, Montos
  <1>8. QED
    BY <1>2, <1>6, <1>7

\* What only the lines, and what the agent has, decide.
LEMMA RetieneIgual ==
    ASSUME NEW k \in Nat, \A i \in 1..k : canal'[i] = canal[i],
           \A j \in Trabajos : agente'[j] = SinPedido <=> agente[j] = SinPedido
    PROVE  Retienen(k)' = Retienen(k)
  <1>1. ASSUME NEW j \in Trabajos PROVE Retiene(j, k)' <=> Retiene(j, k)
    <2>1. \A i \in 1..k : \A h \in (i + 1)..k : canal'[h] = canal[h]
      OBVIOUS
    <2>2. QED
      BY <2>1 DEF Retiene
  <1>2. QED
    BY <1>1 DEF Retienen

\* One more line: a request adds its job, and a release takes it away.
LEMMA RetieneMas ==
    ASSUME EsSeq(canal), NEW x, canal' = Append(canal, x), UNCHANGED agente,
           NEW k \in Nat, k = Len(canal)
    PROVE  /\ \A i \in 0..k : Retienen(i)' = Retienen(i)
           /\ Retienen(k + 1)' \subseteq Retienen(k) \cup {j \in Trabajos : j = x.job}
           /\ x.clase # "JOB_REQUEST" => Retienen(k + 1)' \subseteq Retienen(k)
           /\ Len(canal') = k + 1
  <1>1. /\ DOMAIN canal' = 1..(k + 1) /\ canal'[k + 1] = x
        /\ \A i \in 1..k : canal'[i] = canal[i]
    BY AlFinal
  <1>2. Len(canal') = k + 1
    BY <1>1, AlFinal, LenProperties DEF EsSeq
  <1>3. ASSUME NEW i \in 0..k PROVE Retienen(i)' = Retienen(i)
    <2>1. i \in Nat /\ \A h \in 1..i : canal'[h] = canal[h]
      BY <1>1
    <2>2. QED
      BY <2>1, RetieneIgual
  <1>4. ASSUME NEW j \in Trabajos, Retiene(j, k + 1)',
               j # x.job \/ x.clase # "JOB_REQUEST"
        PROVE  Retiene(j, k)
    <2>1. CASE agente[j] # SinPedido /\ \A i \in 1..(k + 1) : canal'[i].job # j
      <3>1. \A i \in 1..k : i \in 1..(k + 1) /\ canal[i].job # j
        BY <1>1, <2>1
      <3>2. QED
        BY <2>1, <3>1 DEF Retiene
    <2>2. CASE \E i \in 1..(k + 1) :
                  /\ canal'[i].job = j /\ canal'[i].clase = "JOB_REQUEST"
                  /\ \A h \in (i + 1)..(k + 1) : canal'[h].job # j
      <3>1. PICK i \in 1..(k + 1) :
                  /\ canal'[i].job = j /\ canal'[i].clase = "JOB_REQUEST"
                  /\ \A h \in (i + 1)..(k + 1) : canal'[h].job # j
        BY <2>2
      <3>2. i # k + 1
        BY <1>1, <1>4, <3>1
      <3>3. i \in 1..k /\ \A h \in (i + 1)..k : h \in 1..k /\ h \in (i + 1)..(k + 1)
        BY <3>2
      <3>4. QED
        BY <1>1, <3>1, <3>3 DEF Retiene
    <2>3. QED
      BY <1>4, <2>1, <2>2 DEF Retiene
  <1>5. QED
    BY <1>2, <1>3, <1>4 DEF Retienen

\* The agent reads a line: what it then has is what it would have.
LEMMA RetieneLee ==
    ASSUME EsSeq(canal), canal # <<>>, canal' = Tail(canal), NEW x, x = Head(canal),
           NEW k \in Nat, k = Len(canal),
           \A j \in Trabajos : agente'[j] = SinPedido <=>
               IF x.job = j THEN x.clase # "JOB_REQUEST" ELSE agente[j] = SinPedido
    PROVE  Len(canal') = k - 1 /\ \A i \in 0..(k - 1) : Retienen(i)' = Retienen(i + 1)
  <1>1. /\ k # 0 /\ DOMAIN canal = 1..k /\ DOMAIN canal' = 1..(k - 1)
        /\ EsSeq(canal') /\ x = canal[1]
        /\ \A i \in 1..(k - 1) : canal'[i] = canal[i + 1]
    BY SinElPrimero
  <1>2. Len(canal') = k - 1
    BY <1>1, LenProperties DEF EsSeq
  <1>3. ASSUME NEW i \in 0..(k - 1), NEW j \in Trabajos, Retiene(j, i)'
        PROVE  Retiene(j, i + 1)
    <2>1. CASE agente'[j] # SinPedido /\ \A h \in 1..i : canal'[h].job # j
      <3>1. \A h \in 2..(i + 1) : canal[h].job # j
        <4>1. SUFFICES ASSUME NEW h \in 2..(i + 1) PROVE canal[h].job # j
          OBVIOUS
        <4>2. h - 1 \in 1..i /\ h - 1 \in 1..(k - 1) /\ (h - 1) + 1 = h
          OBVIOUS
        <4>3. QED
          BY <1>1, <2>1, <4>2
      <3>2. CASE x.job = j
        <4>1. x.clase = "JOB_REQUEST" /\ 1 \in 1..(i + 1)
          BY <2>1, <3>2
        <4>2. \A h \in (1 + 1)..(i + 1) : canal[h].job # j
          BY <3>1
        <4>3. QED
          BY <1>1, <3>2, <4>1, <4>2 DEF Retiene
      <3>3. CASE x.job # j
        <4>1. agente[j] # SinPedido
          BY <2>1, <3>3
        <4>2. \A h \in 1..(i + 1) : h = 1 \/ h \in 2..(i + 1)
          OBVIOUS
        <4>3. \A h \in 1..(i + 1) : canal[h].job # j
          BY <1>1, <3>1, <3>3, <4>2
        <4>4. QED
          BY <4>1, <4>3 DEF Retiene
      <3>4. QED
        BY <3>2, <3>3
    <2>2. CASE \E h \in 1..i : /\ canal'[h].job = j /\ canal'[h].clase = "JOB_REQUEST"
                               /\ \A g \in (h + 1)..i : canal'[g].job # j
      <3>1. PICK h \in 1..i : /\ canal'[h].job = j /\ canal'[h].clase = "JOB_REQUEST"
                              /\ \A g \in (h + 1)..i : canal'[g].job # j
        BY <2>2
      <3>2. h + 1 \in 1..(i + 1) /\ canal'[h] = canal[h + 1]
        BY <1>1
      <3>3. ASSUME NEW g \in ((h + 1) + 1)..(i + 1) PROVE canal[g].job # j
        <4>1. g - 1 \in (h + 1)..i /\ g - 1 \in 1..(k - 1) /\ (g - 1) + 1 = g
          OBVIOUS
        <4>2. QED
          BY <1>1, <3>1, <4>1
      <3>4. QED
        BY <3>1, <3>2, <3>3 DEF Retiene
    <2>3. QED
      BY <1>3, <2>1, <2>2 DEF Retiene
  <1>4. ASSUME NEW i \in 0..(k - 1), NEW j \in Trabajos, Retiene(j, i + 1)
        PROVE  Retiene(j, i)'
    <2>1. \A h \in 1..i : /\ h \in 1..(k - 1) /\ h + 1 \in 1..(i + 1) /\ h + 1 # 1
                          /\ canal'[h] = canal[h + 1]
      BY <1>1
    <2>2. CASE agente[j] # SinPedido /\ \A h \in 1..(i + 1) : canal[h].job # j
      <3>1. 1 \in 1..(i + 1)
        OBVIOUS
      <3>2. x.job # j /\ agente'[j] # SinPedido
        BY <1>1, <2>2, <3>1
      <3>3. \A h \in 1..i : canal'[h].job # j
        BY <2>1, <2>2
      <3>4. QED
        BY <3>2, <3>3 DEF Retiene
    <2>3. CASE \E h \in 1..(i + 1) :
                  /\ canal[h].job = j /\ canal[h].clase = "JOB_REQUEST"
                  /\ \A g \in (h + 1)..(i + 1) : canal[g].job # j
      <3>1. PICK h \in 1..(i + 1) :
                  /\ canal[h].job = j /\ canal[h].clase = "JOB_REQUEST"
                  /\ \A g \in (h + 1)..(i + 1) : canal[g].job # j
        BY <2>3
      <3>2. CASE h = 1
        <4>1. agente'[j] # SinPedido
          BY <1>1, <3>1, <3>2
        <4>2. \A g \in 1..i : g + 1 \in (h + 1)..(i + 1)
          BY <3>2
        <4>3. \A g \in 1..i : canal'[g].job # j
          BY <2>1, <3>1, <4>2
        <4>4. QED
          BY <4>1, <4>3 DEF Retiene
      <3>3. CASE h # 1
        <4>1. PICK p \in 1..i : p + 1 = h
          <5>1. h - 1 \in 1..i /\ (h - 1) + 1 = h
            BY <3>3
          <5>2. QED
            BY <5>1
        <4>2. canal'[p] = canal[h]
          BY <2>1, <4>1
        <4>3. \A g \in (p + 1)..i : g \in 1..i /\ g + 1 \in (h + 1)..(i + 1)
          BY <4>1
        <4>4. \A g \in (p + 1)..i : canal'[g].job # j
          BY <2>1, <3>1, <4>3
        <4>5. QED
          BY <3>1, <4>2, <4>4 DEF Retiene
      <3>4. QED
        BY <3>2, <3>3
    <2>4. QED
      BY <1>4, <2>2, <2>3 DEF Retiene
  <1>5. QED
    BY <1>2, <1>3, <1>4 DEF Retienen

\* Those that hold something, all lines read, have a process.
LEMMA RetienenEnRonda ==
    ASSUME OInv, Vivo, NEW k \in Nat, k = Len(canal)
    PROVE  Retienen(k) \subseteq EnRonda
  <1>1. DOMAIN canal = 1..k
    BY LenProperties DEF OInv, TInv, Formas, EsSeq
  <1>2. ASSUME NEW j \in Trabajos, Retiene(j, k), Suelta(j) PROVE FALSE
    <2>1. CASE SinLineas(j) /\ agente[j] = SinPedido
      BY <1>1, <1>2, <2>1 DEF SinLineas, Retiene
    <2>2. CASE \E h \in DOMAIN canal : Ultima(j, h) /\ canal[h].clase = "JOB_RELEASE"
      <3>1. PICK h \in 1..k : /\ canal[h].job = j /\ canal[h].clase = "JOB_RELEASE"
                              /\ \A i \in 1..k : i > h => canal[i].job # j
        BY <1>1, <2>2 DEF Ultima
      <3>2. PICK i \in 1..k : /\ canal[i].job = j /\ canal[i].clase = "JOB_REQUEST"
                              /\ \A g \in (i + 1)..k : canal[g].job # j
        BY <1>2, <3>1 DEF Retiene
      <3>3. i # h /\ ~ (i > h)
        BY <3>1, <3>2
      <3>4. h \in (i + 1)..k
        BY <3>3
      <3>5. QED
        BY <3>1, <3>2, <3>4
    <2>3. QED
      BY <1>2, <2>1, <2>2 DEF Suelta
  <1>3. ASSUME NEW j \in Trabajos, Retiene(j, k), ~ Activo(j) PROVE FALSE
    <2>1. EnOrden(j)
      BY DEF OInv
    <2>2. trab[j] = "sin_crear" => Suelta(j)
      BY <2>1 DEF EnOrden, Suelta
    <2>3. trab[j] = "fin" => Suelta(j)
      BY <2>1 DEF EnOrden
    <2>4. QED
      BY <1>2, <1>3, <2>2, <2>3 DEF Activo
  <1>4. QED
    BY <1>3 DEF Retienen, EnRonda

\* Who writes lines, and who changes what the agent has.
LEMMA LineasPaso ==
    ASSUME TInv, [Next]_vars
    PROVE  \/ UNCHANGED <<canal, agente>>
           \/ /\ UNCHANGED agente
              /\ \E x : canal' = Append(canal, x) /\ x.clase \in {"GET_NODES", "JOB_RELEASE"}
           \/ /\ UNCHANGED agente
              /\ \E j \in Trabajos : /\ Vivo /\ trab[j] = "pide"
                                     /\ canal' = Append(canal, Pedido(j, intentos[j] + 1, linea[j]))
           \/ AgenteLee
           \/ Caer
           \/ \E j \in Trabajos : AgenteConcede(j) \/ AgenteDeniega(j)
  <1> DEFINE Quieto == UNCHANGED <<canal, agente>>
             Otra == /\ UNCHANGED agente
                     /\ \E x : /\ canal' = Append(canal, x)
                               /\ x.clase \in {"GET_NODES", "JOB_RELEASE"}
             Pide1 == /\ UNCHANGED agente
                      /\ \E j \in Trabajos :
                            /\ Vivo /\ trab[j] = "pide"
                            /\ canal' = Append(canal, Pedido(j, intentos[j] + 1, linea[j]))
  <1>1. ASSUME NEW c \in {"GET_NODES", "JOB_RELEASE"}, NEW j, Enviar(Orden(c, j)), UNCHANGED agente
        PROVE  Otra
    BY <1>1, OrdenUnica DEF Enviar
  <1>2. ASSUME NEW j \in Trabajos, Trabajo(j) PROVE Quieto \/ Otra \/ Pide1
    <2>1. CASE Solicitar(j)
      BY <2>1 DEF Solicitar, Enviar
    <2>2. CASE Denegado(j) \/ Vencer(j) \/ Terminar(j)
      BY <1>1, <2>2 DEF Denegado, Vencer, Terminar
    <2>3. CASE Concedido(j) \/ Reintentar(j) \/ Quitar(j) \/ Abandonar(j)
      BY <2>3 DEF Concedido, Reintentar, Quitar, Abandonar
    <2>4. QED
      BY <1>2, <2>1, <2>2, <2>3 DEF Trabajo
  <1>3. CASE Scheduler \/ Servir \/ Silencio
    <2>1. CASE PedirNodos \/ RecibirNodos
      BY <1>1, <2>1 DEF PedirNodos, RecibirNodos
    <2>2. CASE Crear \/ Agregar \/ EsperarFin \/ OtraRonda \/ Servir \/ Silencio
      BY <2>2 DEF Crear, Agregar, EsperarFin, OtraRonda, Servir, Silencio
    <2>3. QED
      BY <1>3, <2>1, <2>2 DEF Scheduler
  <1>4. CASE UNCHANGED vars
    BY <1>4 DEF vars
  <1>5. CASE \E j \in Trabajos : Trabajo(j)
    BY <1>2, <1>5
  <1>6. QED
    BY <1>3, <1>4, <1>5 DEF Next, Planificador, Agente

\* What the agent has of each job once it has read a line.
LEMMA AgenteTiene ==
    ASSUME TInv, AgenteLee, NEW x, x = Head(canal), NEW j \in Trabajos
    PROVE  /\ x \in ToSet(canal)
           /\ agente'[j] = SinPedido <=>
                IF x.job = j THEN x.clase # "JOB_REQUEST" ELSE agente[j] = SinPedido
           /\ agente'[j] # SinPedido =>
                agente'[j].pide = IF x.job = j THEN x.pide ELSE agente[j].pide
  <1>1. x \in ToSet(canal) /\ EsLinea(x)
    BY SinElPrimero DEF AgenteLee, TInv, Formas
  <1>2. agente = [i \in Trabajos |-> agente[i]]
    BY DEF TInv, Formas
  <1>3. CASE x.clase = "GET_NODES"
    <2>1. UNCHANGED agente /\ x.job # j
      BY <1>1, <1>3, Numeros DEF AgenteLee, EsLinea
    <2>2. QED
      BY <1>1, <2>1
  <1>4. CASE x.clase = "JOB_REQUEST"
    <2>1. PICK f : f = [est |-> "pedido", vez |-> x.vez, pide |-> x.pide]
      OBVIOUS
    <2>2. agente' = [agente EXCEPT ![x.job] = f]
      BY <1>4, <2>1 DEF AgenteLee
    <2>3. f # SinPedido /\ f.pide = x.pide
      <3>1. f.est = "pedido" /\ SinPedido.est = "nada"
        BY <2>1 DEF SinPedido
      <3>2. QED
        BY <2>1, <3>1
    <2>4. agente'[j] = IF x.job = j THEN f ELSE agente[j]
      BY <1>2, <2>2
    <2>5. QED
      BY <1>1, <1>4, <2>3, <2>4
  <1>5. CASE x.clase = "JOB_RELEASE"
    <2>1. agente' = [agente EXCEPT ![x.job] = SinPedido]
      BY <1>5 DEF AgenteLee
    <2>2. agente'[j] = IF x.job = j THEN SinPedido ELSE agente[j]
      BY <1>2, <2>1
    <2>3. QED
      BY <1>1, <1>5, <2>2
  <1>6. QED
    BY <1>1, <1>3, <1>4, <1>5 DEF EsLinea

\* It grants or denies what it was asked for.
LEMMA AgenteAnota ==
    ASSUME TInv, NEW i \in Trabajos, AgenteConcede(i) \/ AgenteDeniega(i), NEW j \in Trabajos
    PROVE  /\ agente'[j] = SinPedido <=> agente[j] = SinPedido
           /\ agente[j] # SinPedido => agente'[j].pide = agente[j].pide
  <1>1. PICK e \in {"concedido", "negado"} : agente' = [agente EXCEPT ![i].est = e]
    BY DEF AgenteConcede, AgenteDeniega, Anotar
  <1>2. agente[i].est = "pedido" /\ EsFicha(agente[i])
        /\ agente = [h \in Trabajos |-> agente[h]]
    BY DEF AgenteConcede, AgenteDeniega, TInv, Formas
  <1>3. agente[i] = [est |-> agente[i].est, vez |-> agente[i].vez, pide |-> agente[i].pide]
        /\ agente[i] # SinPedido
    BY <1>2 DEF EsFicha, SinPedido
  <1>4. PICK f : f = [est |-> e, vez |-> agente[i].vez, pide |-> agente[i].pide]
    OBVIOUS
  <1>5. [agente[i] EXCEPT !.est = e] = f
    BY <1>3, <1>4
  <1>6. agente'[j] = IF j = i THEN f ELSE agente[j]
    BY <1>1, <1>2, <1>5
  <1>7. f # SinPedido /\ f.pide = agente[i].pide
    <2>1. f.est = e /\ SinPedido.est = "nada"
      BY <1>4 DEF SinPedido
    <2>2. QED
      BY <1>1, <1>4, <2>1
  <1>8. QED
    BY <1>3, <1>6, <1>7

\* Whatever is read of the lines, those that hold something fit in half of each node.
LEMMA RetenidosPaso ==
    ASSUME OInv, NEW L, Asignado(L), [Next]_vars, NEW k \in 0..Len(canal')
    PROVE  Caben(L, Retienen(k)')
  <1>1. PICK c \in Nat : c = Len(canal)
    BY LenProperties DEF OInv, TInv, Formas, EsSeq
  <1>2. \A i \in 0..c : Caben(L, Retienen(i))
    BY <1>1 DEF Asignado
  <1>3. EsSeq(canal) /\ TInv
    BY DEF OInv, TInv, Formas
  <1>4. /\ L \in [Trabajos -> Lineas]
        /\ \A i : Retienen(i) \in SUBSET Trabajos /\ Retienen(i)' \in SUBSET Trabajos
    BY DEF Asignado, Retienen
  <1>5. CASE UNCHANGED canal /\ \A j \in Trabajos : agente'[j] = SinPedido <=> agente[j] = SinPedido
    <2>1. k \in 0..c /\ k \in Nat
      BY <1>1, <1>5
    <2>2. Retienen(k)' = Retienen(k)
      BY <1>5, <2>1, RetieneIgual
    <2>3. QED
      BY <1>2, <2>1, <2>2
  <1>6. ASSUME NEW x, canal' = Append(canal, x), UNCHANGED agente,
               x.clase = "JOB_REQUEST" => Vivo /\ x.job \in EnRonda
        PROVE  Caben(L, Retienen(k)')
    <2>1. /\ \A i \in 0..c : Retienen(i)' = Retienen(i)
          /\ Retienen(c + 1)' \subseteq Retienen(c) \cup {j \in Trabajos : j = x.job}
          /\ x.clase # "JOB_REQUEST" => Retienen(c + 1)' \subseteq Retienen(c)
          /\ k \in 0..(c + 1)
      BY <1>1, <1>3, <1>6, RetieneMas
    <2>2. CASE k \in 0..c
      BY <1>2, <2>1, <2>2
    <2>3. CASE k = c + 1 /\ x.clase # "JOB_REQUEST"
      <3>1. Retienen(k)' \subseteq Retienen(c) /\ Caben(L, Retienen(c))
        BY <1>2, <2>1, <2>3
      <3>2. QED
        BY <1>4, <3>1, CabenMenos
    <2>4. CASE k = c + 1 /\ x.clase = "JOB_REQUEST"
      <3>1. Retienen(k)' \subseteq EnRonda
        BY <1>1, <1>6, <2>1, <2>4, RetienenEnRonda
      <3>2. Caben(L, EnRonda) /\ EnRonda \in SUBSET Trabajos
        BY <1>6, <2>4 DEF Asignado, EnRonda
      <3>3. QED
        BY <1>4, <3>1, <3>2, CabenMenos
    <2>5. QED
      BY <2>1, <2>2, <2>3, <2>4
  <1>7. CASE AgenteLee
    <2>1. PICK x : x = Head(canal)
      OBVIOUS
    <2>2. canal # <<>> /\ canal' = Tail(canal)
      BY <1>7 DEF AgenteLee
    <2>3. Len(canal') = c - 1 /\ \A i \in 0..(c - 1) : Retienen(i)' = Retienen(i + 1)
      BY <1>1, <1>3, <1>7, <2>1, <2>2, AgenteTiene, RetieneLee
    <2>4. k \in 0..(c - 1) /\ k + 1 \in 0..c
      BY <2>3
    <2>5. QED
      BY <1>2, <2>3, <2>4
  <1>8. CASE Caer
    <2>1. PICK i \in 0..c : canal' = SubSeq(canal, 1, i) /\ UNCHANGED agente
      BY <1>1, <1>8 DEF Caer
    <2>2. /\ Len(canal') = i /\ \A h \in 1..i : canal'[h] = canal[h]
      <3>1. \A h \in 1..i : canal[h] \in ToSet(canal)
        BY <1>1, <1>3, ElementOfSeq DEF EsSeq
      <3>2. QED
        BY <1>1, <1>3, <2>1, <3>1, SubSeqProperties DEF EsSeq
    <2>3. k \in 0..c /\ k \in Nat /\ \A h \in 1..k : canal'[h] = canal[h]
      BY <2>2
    <2>4. Retienen(k)' = Retienen(k)
      BY <2>1, <2>3, RetieneIgual
    <2>5. QED
      BY <1>2, <2>3, <2>4
  <1>9. CASE \E j \in Trabajos : Vivo /\ trab[j] = "pide" /\ UNCHANGED agente
                /\ canal' = Append(canal, Pedido(j, intentos[j] + 1, linea[j]))
    <2>1. PICK j \in Trabajos : Vivo /\ trab[j] = "pide" /\ UNCHANGED agente
                /\ canal' = Append(canal, Pedido(j, intentos[j] + 1, linea[j]))
      BY <1>9
    <2>2. PICK x : x = Pedido(j, intentos[j] + 1, linea[j])
      OBVIOUS
    <2>3. x.job = j /\ j \in EnRonda
      BY <2>1, <2>2 DEF Pedido, EnRonda, Activo
    <2>4. QED
      BY <1>6, <2>1, <2>2, <2>3
  <1>10. CASE \E j \in Trabajos : AgenteConcede(j) \/ AgenteDeniega(j)
    <2>1. UNCHANGED canal
      BY <1>10 DEF AgenteConcede, AgenteDeniega
    <2>2. QED
      BY <1>3, <1>5, <1>10, <2>1, AgenteAnota
  <1>11. QED
    BY <1>3, <1>5, <1>6, <1>7, <1>8, <1>9, <1>10, LineasPaso

\* Jobs are created by the scheduler only.
LEMMA NuevoIgual ==
    ASSUME TInv, [Next]_vars, ~ Crear
    PROVE  Nuevo' = Nuevo
  <1>1. ASSUME NEW j \in Trabajos PROVE trab'[j] = "sin_crear" <=> trab[j] = "sin_crear"
    <2>1. CASE UNCHANGED trab
      BY <2>1
    <2>2. ASSUME NEW k \in Trabajos, Trabajo(k)
          PROVE  trab'[j] = "sin_crear" <=> trab[j] = "sin_crear"
      <3>1. trab[k] # "sin_crear"
        BY <2>2 DEF Trabajo, Solicitar, Concedido, Denegado, Vencer, Reintentar, Terminar,
             Quitar, Abandonar
      <3>2. PICK e : Ir(k, e) /\ e # "sin_crear"
        BY <2>2 DEF Trabajo, Acabar, Solicitar, Concedido, Denegado, Vencer, Reintentar,
             Terminar, Quitar, Abandonar
      <3>3. QED
        BY <3>1, <3>2 DEF Ir, TInv, TypeOK
    <2>3. UNCHANGED trab \/ \E k \in Trabajos : Trabajo(k)
      BY DEF Next, Planificador, Scheduler, PedirNodos, RecibirNodos, Agregar, EsperarFin,
         OtraRonda, Servir, Silencio, Caer, AgenteLee, Agente, AgenteConcede, AgenteDeniega,
         vars, trabajo
    <2>4. QED
      BY <2>1, <2>2, <2>3
  <1>2. Creados' = Creados
    BY <1>1 DEF Creados
  <1>3. QED
    BY <1>2 DEF Nuevo

-----------------------------------------------------------------------------
(* The jobs of a round *)

\* The next job to create is one of those planned.
LEMMA ElPlaneado ==
    ASSUME TInv, NEW L, PlanDe(L), sched = "crea"
    PROVE  Nuevo \in Trabajos /\ Planeado(Nuevo) /\ L[Nuevo] = Head(porCrear)
  <1>1. PICK n \in Nat : n = Nuevo
    BY ElNuevo DEF TInv
  <1>2. Base = n - 1
    BY <1>1 DEF Base
  <1>3. porCrear \in Seq(Lineas) /\ Len(porCrear) \in Nat \ {0} /\ Head(porCrear) = porCrear[1]
    <2>1. porCrear \in Seq(Lineas) /\ porCrear # <<>>
      BY DEF PlanDe
    <2>2. QED
      BY <2>1, LenProperties, EmptySeq
  <1>4. 1 \in 1..Len(porCrear) /\ (n - 1) + 1 = n /\ n - (n - 1) = 1
    BY <1>3
  <1>5. n \in Trabajos /\ L[n] = porCrear[1]
    BY <1>2, <1>4 DEF PlanDe
  <1>6. Planeado(n)
    BY <1>2, <1>4 DEF Planeado
  <1>7. QED
    BY <1>1, <1>3, <1>5, <1>6

\* Who has a part in the plan of a round.
LEMMA PlanQuieto ==
    ASSUME TInv, [Next]_vars, ~ Crear, ~ Agregar, ~ (sched = "espera_nodos" /\ sched' = "crea"),
           sched' \in {"crea", "agrega"}
    PROVE  UNCHANGED <<sched, porCrear>>
  <1>1. ASSUME NEW j \in Trabajos, Trabajo(j) PROVE UNCHANGED <<sched, porCrear>>
    BY <1>1 DEF Trabajo, Solicitar, Concedido, Denegado, Vencer, Reintentar, Terminar, Quitar,
         Abandonar, planif
  <1>2. QED
    BY <1>1 DEF Next, Planificador, Scheduler, PedirNodos, RecibirNodos, EsperarFin, OtraRonda,
       Servir, Silencio, Caer, AgenteLee, Agente, AgenteConcede, AgenteDeniega, vars, planif

\* A round goes on with the jobs it began with.
LEMMA RondaPaso ==
    ASSUME OInv, NEW L, Asignado(L), [Next]_vars, ~ (sched = "espera_nodos" /\ sched' = "crea")
    PROVE  PlanDe(L)' /\ EnRonda' \subseteq EnRonda
  <1>1. TInv /\ PlanDe(L)
    BY DEF OInv, Asignado
  <1>2. PICK n \in Nat : n = Nuevo
    BY <1>1, ElNuevo DEF TInv
  <1>3. PICK c \in Nat : c = Len(porCrear) \/ ~ (sched \in {"crea", "agrega"})
    BY <1>1, LenProperties DEF PlanDe
  <1>4. CASE Crear
    <2>1. /\ sched = "crea" /\ sched' = "agrega" /\ UNCHANGED porCrear
      BY <1>4 DEF Crear
    <2>2. n \in Trabajos /\ Planeado(n)
      BY <1>1, <1>2, <2>1, ElPlaneado
    <2>3. /\ Nuevo' = n + 1
          /\ \A k \in Trabajos : trab'[k] = IF k = n THEN "pide" ELSE trab[k]
      BY <1>1, <1>2, <1>4, <2>2, UnoMas
    <2>4. Base = n - 1 /\ Base' = n - 1
      BY <1>2, <2>1, <2>3 DEF Base
    <2>5. PlanDe(L)'
      BY <1>1, <2>1, <2>4 DEF PlanDe
    <2>6. ASSUME NEW j \in Trabajos, Activo(j)' \/ Planeado(j)' PROVE Activo(j) \/ Planeado(j)
      <3>1. CASE Planeado(j)'
        BY <2>1, <2>4, <3>1 DEF Planeado
      <3>2. CASE Activo(j)'
        BY <2>2, <2>3, <3>2 DEF Activo
      <3>3. QED
        BY <2>6, <3>1, <3>2
    <2>7. QED
      BY <2>5, <2>6 DEF EnRonda
  <1>5. CASE Agregar
    <2>1. /\ sched = "agrega" /\ porCrear' = Tail(porCrear)
          /\ sched' = IF c = 1 THEN "espera" ELSE "crea"
      BY <1>3, <1>5 DEF Agregar
    <2>2. /\ porCrear \in Seq(Lineas) /\ c = Len(porCrear) /\ c # 0
          /\ \A i \in 1..c : Base + i \in Trabajos /\ L[Base + i] = porCrear[i]
      BY <1>1, <1>3, <2>1, EmptySeq DEF PlanDe
    <2>3. ~ Crear
      BY <2>1 DEF Crear
    <2>4. Nuevo' = n
      BY <1>1, <1>2, <2>3, NuevoIgual
    <2>5. Base = n - 2 /\ (sched' = "crea" => Base' = n - 1)
      BY <1>2, <2>1, <2>4 DEF Base
    <2>6. /\ porCrear' \in Seq(Lineas) /\ Len(porCrear') = c - 1
          /\ \A i \in 1..(c - 1) : porCrear'[i] = porCrear[i + 1]
      BY <2>1, <2>2, EmptySeq, HeadTailProperties
    <2>7. PlanDe(L)'
      <3>1. SUFFICES ASSUME sched' = "crea"
                     PROVE  /\ porCrear' # <<>>
                            /\ \A i \in 1..(c - 1) : /\ (n - 1) + i \in Trabajos
                                                     /\ L[(n - 1) + i] = porCrear'[i]
        BY <2>1, <2>5, <2>6 DEF PlanDe
      <3>2. c # 1
        BY <2>1, <3>1
      <3>3. porCrear' # <<>>
        BY <2>2, <2>6, <3>2, EmptySeq
      <3>4. ASSUME NEW i \in 1..(c - 1)
            PROVE  (n - 1) + i \in Trabajos /\ L[(n - 1) + i] = porCrear'[i]
        <4>1. i + 1 \in 1..c /\ (n - 2) + (i + 1) = (n - 1) + i
          OBVIOUS
        <4>2. (n - 2) + (i + 1) \in Trabajos /\ L[(n - 2) + (i + 1)] = porCrear[i + 1]
          BY <2>2, <2>5, <4>1
        <4>3. QED
          BY <2>6, <4>1, <4>2
      <3>5. QED
        BY <3>3, <3>4
    <2>8. ASSUME NEW j \in Trabajos, Activo(j)' \/ Planeado(j)' PROVE Activo(j) \/ Planeado(j)
      <3>1. CASE Planeado(j)'
        <4>1. j - (n - 1) \in 1..(c - 1)
          BY <2>1, <2>5, <2>6, <3>1 DEF Planeado
        <4>2. j - (n - 2) \in 1..c
          BY <4>1, Numeros
        <4>3. QED
          BY <2>1, <2>2, <2>5, <4>2 DEF Planeado
      <3>2. CASE Activo(j)'
        BY <1>1, <2>3, <3>2, NingunoMas
      <3>3. QED
        BY <2>8, <3>1, <3>2
    <2>9. QED
      BY <2>7, <2>8 DEF EnRonda
  <1>6. CASE ~ Crear /\ ~ Agregar
    <2>1. sched' \in {"crea", "agrega"} => UNCHANGED <<sched, porCrear>>
      BY <1>1, <1>6, PlanQuieto
    <2>2. Nuevo' = Nuevo
      BY <1>1, <1>6, NuevoIgual
    <2>3. sched' \in {"crea", "agrega"} => Base' = Base
      BY <2>1, <2>2 DEF Base
    <2>4. PlanDe(L)'
      BY <1>1, <2>1, <2>3 DEF PlanDe
    <2>5. ASSUME NEW j \in Trabajos, Activo(j)' \/ Planeado(j)' PROVE Activo(j) \/ Planeado(j)
      <3>1. CASE Planeado(j)'
        BY <2>1, <2>3, <3>1 DEF Planeado
      <3>2. CASE Activo(j)'
        BY <1>1, <1>6, <3>2, NingunoMas
      <3>3. QED
        BY <2>5, <3>1, <3>2
    <2>6. QED
      BY <2>4, <2>5 DEF EnRonda
  <1>7. QED
    BY <1>4, <1>5, <1>6

\* The lines, the agent and the jobs keep to what each job is to ask for.
LEMMA PidenPaso ==
    ASSUME TInv, NEW L, PlanDe(L), PidenDe(L), [Next]_vars
    PROVE  PidenDe(L)'
  <1>1. EsSeq(canal)
    BY DEF TInv, Formas
  <1>2. ASSUME NEW m \in ToSet(canal'), m.clase = "JOB_REQUEST" PROVE m.pide = L[m.job]
    <2>1. CASE m \in ToSet(canal)
      BY <1>2, <2>1 DEF PidenDe
    <2>2. ASSUME NEW x, canal' = Append(canal, x),
                 x.clase = "JOB_REQUEST" => x.pide = L[x.job]
          PROVE  m.pide = L[m.job]
      <3>1. m \in ToSet(canal) \/ m = x
        BY <1>1, <2>2, AlFinal
      <3>2. QED
        BY <1>2, <2>1, <2>2, <3>1
    <2>3. CASE \E j \in Trabajos : Vivo /\ trab[j] = "pide" /\ UNCHANGED agente
                  /\ canal' = Append(canal, Pedido(j, intentos[j] + 1, linea[j]))
      <3>1. PICK j \in Trabajos : trab[j] = "pide"
                  /\ canal' = Append(canal, Pedido(j, intentos[j] + 1, linea[j]))
        BY <2>3
      <3>2. PICK x : x = Pedido(j, intentos[j] + 1, linea[j])
        OBVIOUS
      <3>3. x.job = j /\ x.pide = linea[j]
        BY <3>2 DEF Pedido
      <3>4. linea[j] = L[j]
        BY <3>1 DEF PidenDe
      <3>5. QED
        BY <2>2, <3>1, <3>2, <3>3, <3>4
    <2>4. CASE AgenteLee
      <3>1. canal # <<>> /\ canal' = Tail(canal)
        BY <2>4 DEF AgenteLee
      <3>2. m \in ToSet(canal)
        BY <1>1, <3>1, SinElPrimero
      <3>3. QED
        BY <2>1, <3>2
    <2>5. CASE Caer
      <3>1. m \in ToSet(canal)
        BY <1>1, <2>5, Escritas DEF Caer
      <3>2. QED
        BY <2>1, <3>1
    <2>6. CASE \E j \in Trabajos : AgenteConcede(j) \/ AgenteDeniega(j)
      BY <2>1, <2>6 DEF AgenteConcede, AgenteDeniega
    <2>7. QED
      BY <2>1, <2>2, <2>3, <2>4, <2>5, <2>6, LineasPaso
  <1>3. ASSUME NEW j \in Trabajos, agente'[j] # SinPedido PROVE agente'[j].pide = L[j]
    <2>1. agente[j] # SinPedido => agente[j].pide = L[j]
      BY DEF PidenDe
    <2>2. CASE UNCHANGED agente
      BY <1>3, <2>1, <2>2
    <2>3. CASE AgenteLee
      <3>1. PICK x : x = Head(canal)
        OBVIOUS
      <3>2. /\ x \in ToSet(canal)
            /\ agente'[j] = SinPedido <=>
                 IF x.job = j THEN x.clase # "JOB_REQUEST" ELSE agente[j] = SinPedido
            /\ agente'[j].pide = IF x.job = j THEN x.pide ELSE agente[j].pide
        BY <1>3, <2>3, <3>1, AgenteTiene
      <3>3. x.clase = "JOB_REQUEST" => x.pide = L[x.job]
        BY <3>2 DEF PidenDe
      <3>4. QED
        BY <1>3, <2>1, <3>2, <3>3
    <2>4. CASE \E i \in Trabajos : AgenteConcede(i) \/ AgenteDeniega(i)
      BY <1>3, <2>1, <2>4, AgenteAnota
    <2>5. CASE Caer
      BY <2>2, <2>5 DEF Caer
    <2>6. QED
      BY <2>2, <2>3, <2>4, <2>5, LineasPaso
  <1>4. /\ linea' = [j \in Trabajos |-> linea'[j]]
        /\ \A j \in Trabajos : trab'[j] \in {"pide", "espera", "descansa"} => linea'[j] = L[j]
    <2>1. /\ linea = [j \in Trabajos |-> linea[j]]
          /\ \A j \in Trabajos : trab[j] \in {"pide", "espera", "descansa"} => linea[j] = L[j]
          /\ trab \in [Trabajos -> Etapas]
      BY DEF PidenDe, TInv, TypeOK
    <2>2. CASE UNCHANGED <<trab, linea>>
      BY <2>1, <2>2
    <2>3. CASE Crear
      <3>1. PICK n \in Trabajos : n = Nuevo /\ L[n] = Head(porCrear)
        BY <2>3, ElPlaneado DEF Crear
      <3>2. linea' = [linea EXCEPT ![n] = L[n]] /\ Ir(n, "pide")
        BY <2>3, <3>1 DEF Crear
      <3>3. QED
        BY <2>1, <3>2 DEF Ir
    <2>4. ASSUME NEW k \in Trabajos, NEW e, Ir(k, e), linea' = [linea EXCEPT ![k] = {}],
                 e \notin {"pide", "espera", "descansa"}
          PROVE  /\ linea' = [j \in Trabajos |-> linea'[j]]
                 /\ \A j \in Trabajos :
                        trab'[j] \in {"pide", "espera", "descansa"} => linea'[j] = L[j]
      BY <2>1, <2>4 DEF Ir
    <2>5. ASSUME NEW k \in Trabajos, NEW e, Ir(k, e), UNCHANGED linea,
                 e \in {"pide", "espera", "descansa"} =>
                    trab[k] \in {"pide", "espera", "descansa"}
          PROVE  /\ linea' = [j \in Trabajos |-> linea'[j]]
                 /\ \A j \in Trabajos :
                        trab'[j] \in {"pide", "espera", "descansa"} => linea'[j] = L[j]
      BY <2>1, <2>5 DEF Ir
    <2>6. ASSUME NEW k \in Trabajos, Trabajo(k)
          PROVE  /\ linea' = [j \in Trabajos |-> linea'[j]]
                 /\ \A j \in Trabajos :
                        trab'[j] \in {"pide", "espera", "descansa"} => linea'[j] = L[j]
      <3>1. CASE \E e \in {"quita", "fin"} : Acabar(k, e)
        BY <2>4, <3>1 DEF Acabar
      <3>2. CASE Solicitar(k) \/ Concedido(k) \/ Reintentar(k) \/ Quitar(k)
        BY <2>5, <3>2 DEF Solicitar, Concedido, Reintentar, Quitar
      <3>3. CASE Vencer(k) /\ ~ Acabar(k, "quita")
        BY <2>5, <3>3 DEF Vencer
      <3>4. QED
        BY <2>6, <3>1, <3>2, <3>3 DEF Trabajo, Denegado, Vencer, Terminar, Abandonar
    <2>7. QED
      BY <2>2, <2>3, <2>6 DEF Next, Planificador, Scheduler, PedirNodos, RecibirNodos, Agregar,
         EsperarFin, OtraRonda, Servir, Silencio, Caer, AgenteLee, Agente, AgenteConcede,
         AgenteDeniega, vars, trabajo
  <1>5. QED
    BY <1>2, <1>3, <1>4 DEF PidenDe

\* A job that is not created yet holds nothing.
LEMMA NoRetiene ==
    ASSUME OInv, Vivo, NEW j \in Trabajos, trab[j] = "sin_crear"
    PROVE  /\ agente[j] = SinPedido
           /\ \A m \in ToSet(canal) : m.job # j
           /\ \A k \in 0..Len(canal) : j \notin Retienen(k)
  <1>1. agente[j] = SinPedido /\ SinLineas(j)
    BY DEF OInv, EnOrden
  <1>2. Len(canal) \in Nat /\ DOMAIN canal = 1..Len(canal)
    BY LenProperties DEF OInv, TInv, Formas, EsSeq
  <1>3. \A m \in ToSet(canal) : m.job # j
    BY <1>1 DEF SinLineas, ToSet
  <1>4. ASSUME NEW k \in 0..Len(canal), j \in Retienen(k) PROVE FALSE
    <2>1. PICK i \in 1..k : canal[i].job = j
      BY <1>1, <1>4 DEF Retienen, Retiene
    <2>2. i \in DOMAIN canal
      BY <1>2
    <2>3. QED
      BY <1>1, <2>1, <2>2 DEF SinLineas
  <1>5. QED
    BY <1>1, <1>3, <1>4

\* Lines that are the same for the jobs of S.
LEMMA CabenIgual ==
    ASSUME NEW L, NEW M, NEW S, \A j \in S : M[j] = L[j], Caben(L, S)
    PROVE  Caben(M, S)
  <1>1. \A n, t : [j \in S |-> Cantidad(M[j], n, t)] = [j \in S |-> Cantidad(L[j], n, t)]
    OBVIOUS
  <1>2. QED
    BY <1>1 DEF Caben

\* The jobs made of a listing, numbered from b + 1, fit in half of each node.
LEMMA CabenLosNuevos ==
    ASSUME NEW S \in SUBSET Nodos, NEW s \in TrabajosDe[S], NEW b \in Nat,
           s \in Seq(Lineas), NEW c \in Nat, c = Len(s),
           NEW M, \A i \in 1..c : M[b + i] = s[i]
    PROVE  Caben(M, (b + 1)..(b + c))
  <1> DEFINE T == (b + 1)..(b + c)
  <1>1. SUFFICES ASSUME NEW n \in Nodos, NEW t \in Tipos
                 PROVE  Suma(T, [j \in T |-> Cantidad(M[j], n, t)]) <= Mitad(n)[t]
    BY DEF Caben
  <1>2. PICK f : f = [i \in 1..c |-> Cantidad(s[i], n, t)]
    OBVIOUS
  <1>3. PICK g : g = [j \in T |-> Cantidad(M[j], n, t)]
    OBVIOUS
  <1>4. PICK phi : phi = [i \in 1..c |-> b + i]
    OBVIOUS
  <1>5. phi \in Bijection(1..c, T)
    <2>1. \A i \in 1..c : phi[i] \in T /\ phi[i] = b + i
      BY <1>4
    <2>2. \A j \in T : j - b \in 1..c /\ phi[j - b] = j
      BY <1>4
    <2>3. \A i \in 1..c : \A k \in 1..c : phi[i] = phi[k] => i = k
      BY <2>1
    <2>4. phi \in [1..c -> T]
      BY <1>4, <2>1
    <2>5. QED
      BY <2>2, <2>3, <2>4 DEF Bijection, Injection, Surjection, IsInjective
  <1>6. ASSUME NEW i \in 1..c PROVE f[i] \in Nat /\ g[phi[i]] = f[i]
    <2>1. s[i] \in Lineas /\ f[i] = Cantidad(s[i], n, t)
      BY <1>2, ElementOfSeq
    <2>2. b + i \in T /\ phi[i] = b + i
      BY <1>4
    <2>3. g[b + i] = Cantidad(M[b + i], n, t)
      BY <1>3, <2>2
    <2>4. QED
      BY <2>1, <2>2, <2>3, LineaMonto
  <1>7. Suma(T, g) = Suma(1..c, f)
    <2> HIDE DEF T
    <2>1. IsFiniteSet(1..c)
      BY FS_Interval
    <2>2. QED
      BY <1>5, <1>6, <2>1, SumaBiyeccion
  <1>8. DOMAIN s = 1..c
    BY LenProperties
  <1>9. Suma(1..c, f) = Pide(s, n, t)
    BY <1>2, <1>8 DEF Pide
  <1>10. Pide(s, n, t) = IF n \in S THEN Mitad(n)[t] ELSE 0
    BY TrabajosSuman
  <1>11. Mitad(n)[t] \in Nat
    BY MitadTipo DEF Montos
  <1>12. QED
    BY <1>3, <1>7, <1>9, <1>10, <1>11

\* A round begins: no job of the former one is left.
LEMMA RondaNueva ==
    ASSUME OInv, Vivo, SinNadie, NEW L, Asignado(L), RecibirNodos, sched' = "crea"
    PROVE  \E M : Asignado(M)'
  <1>1. TInv /\ sched = "espera_nodos"
    BY DEF OInv, RecibirNodos
  <1>2. PICK m : m = Head(buzonSched)
    OBVIOUS
  <1>3. PICK s : s = porCrear'
    OBVIOUS
  <1>4. /\ m.clase = "NODES" /\ m.nodos # {} /\ s \in TrabajosDe[m.nodos] /\ s # <<>>
        /\ Cardinality(Creados) + Len(s) <= MaxTrabajos
        /\ UNCHANGED <<trab, linea, canal, agente, registro>>
    BY <1>1, <1>2, <1>3 DEF RecibirNodos, trabajo
  <1>5. PICK S \in SUBSET Nodos : S = m.nodos
    <2>1. m \in {Lista(X) : X \in Listados} \cup {AllJobsDone}
      BY <1>1, <1>2, HeadTailProperties DEF TInv, TypeOK, RecibirNodos
    <2>2. PICK X \in Listados : m = Lista(X)
      BY <1>4, <2>1 DEF AllJobsDone
    <2>3. QED
      BY <2>2, CotasAssumption DEF Lista
  <1>6. s \in Seq(Lineas)
    <2>1. PICK n \in S : n \in Nodos
      BY <1>4, <1>5
    <2>2. "cpu" \in Tipos
      BY DEF Tipos
    <2>3. QED
      BY <1>4, <1>5, <2>1, <2>2, TrabajosSuman
  <1>7. PICK b \in Nat : /\ Nuevo = b + 1 /\ Creados = 1..b /\ Cardinality(Creados) = b
                         /\ b <= MaxTrabajos
    <2>1. PICK b \in 0..MaxTrabajos : Creados = 1..b
      BY <1>1 DEF TInv, Numerados
    <2>2. b \in Nat /\ Cardinality(1..b) = b /\ b <= MaxTrabajos
      BY Numeros, FS_Interval
    <2>3. QED
      BY <2>1, <2>2 DEF Nuevo
  <1>8. PICK c \in Nat \ {0} : c = Len(s)
    BY <1>4, <1>6, LenProperties, EmptySeq
  <1>9. b + c <= MaxTrabajos
    BY <1>4, <1>7, <1>8
  <1>10. PICK M : M = [j \in Trabajos |-> IF j > b /\ j <= b + c THEN s[j - b] ELSE L[j]]
    OBVIOUS
  <1>11. ASSUME NEW i \in 1..c
         PROVE  b + i \in Trabajos /\ s[i] \in Lineas /\ M[b + i] = s[i]
    <2>1. s[i] \in Lineas
      BY <1>6, <1>8, ElementOfSeq
    <2>2. b + i \in Trabajos /\ b + i > b /\ b + i <= b + c /\ (b + i) - b = i
      BY <1>9, Numeros DEF Trabajos
    <2>3. QED
      BY <1>10, <2>1, <2>2
  <1>12. L \in [Trabajos -> Lineas] /\ PidenDe(L)
    BY DEF Asignado
  <1>13. M \in [Trabajos -> Lineas]
    <2>1. SUFFICES ASSUME NEW j \in Trabajos PROVE M[j] \in Lineas
      BY <1>10
    <2>2. CASE j > b /\ j <= b + c
      <3>1. j - b \in 1..c /\ b + (j - b) = j
        BY <2>2, Numeros
      <3>2. QED
        BY <1>11, <3>1
    <2>3. CASE ~ (j > b /\ j <= b + c)
      BY <1>10, <1>12, <2>3
    <2>4. QED
      BY <2>2, <2>3
  <1>14. \A j \in Trabajos : trab[j] # "sin_crear" => M[j] = L[j]
    <2>1. \A j \in Trabajos : trab[j] # "sin_crear" => j <= b
      BY <1>7 DEF Creados
    <2>2. QED
      BY <1>7, <1>10, <2>1, Numeros
  <1>15. ASSUME NEW k \in 0..Len(canal') PROVE Caben(M, Retienen(k)')
    <2>1. k \in 0..Len(canal) /\ Retienen(k)' = Retienen(k)
      BY <1>4 DEF Retienen, Retiene
    <2>2. \A j \in Retienen(k) : j \in Trabajos /\ trab[j] # "sin_crear"
      BY <2>1, NoRetiene DEF Retienen
    <2>3. Caben(L, Retienen(k)) /\ \A j \in Retienen(k) : M[j] = L[j]
      BY <1>14, <2>1, <2>2 DEF Asignado
    <2>4. QED
      BY <2>1, <2>3, CabenIgual
  <1>16. Base' = b
    <2>1. Nuevo' = Nuevo
      BY <1>4 DEF Nuevo, Creados
    <2>2. QED
      BY <1>7, <2>1 DEF Base
  <1>17. Caben(M, EnRonda')
    <2>1. Caben(M, (b + 1)..(b + c))
      BY <1>4, <1>5, <1>6, <1>8, <1>11, CabenLosNuevos
    <2>2. ASSUME NEW j \in EnRonda' PROVE j \in (b + 1)..(b + c)
      <3>1. j \in Trabajos /\ (Activo(j)' \/ Planeado(j)')
        BY DEF EnRonda
      <3>2. ~ Activo(j)'
        BY <1>1, <1>4, <3>1 DEF SinNadie, Activo
      <3>3. j - b \in 1..c
        BY <1>3, <1>8, <1>16, <3>1, <3>2 DEF Planeado
      <3>4. QED
        BY <3>1, <3>3, Numeros
    <2>3. (b + 1)..(b + c) \in SUBSET Trabajos
      BY <1>9, Numeros DEF Trabajos
    <2>4. EnRonda' \in SUBSET Trabajos
      BY DEF EnRonda
    <2>5. QED
      BY <1>13, <2>1, <2>2, <2>3, <2>4, CabenMenos
  <1>18. PlanDe(M)'
    BY <1>3, <1>4, <1>6, <1>8, <1>11, <1>16 DEF PlanDe
  <1>19. PidenDe(M)'
    <2>1. ASSUME NEW x \in ToSet(canal), x.clase = "JOB_REQUEST" PROVE x.pide = M[x.job]
      <3>1. x.job \in Trabajos /\ x.pide = L[x.job]
        BY <1>1, <1>12, <2>1 DEF PidenDe, TInv, Formas, EsLinea
      <3>2. trab[x.job] # "sin_crear"
        BY <3>1, NoRetiene
      <3>3. QED
        BY <1>14, <3>1, <3>2
    <2>2. \A j \in Trabajos : agente[j] # SinPedido => agente[j].pide = M[j]
      BY <1>12, <1>14, NoRetiene DEF PidenDe
    <2>3. \A j \in Trabajos : trab[j] \in {"pide", "espera", "descansa"} => linea[j] = M[j]
      BY <1>12, <1>14 DEF PidenDe
    <2>4. QED
      BY <1>4, <1>12, <2>1, <2>2, <2>3 DEF PidenDe
  <1>20. Asignado(M)'
    BY <1>13, <1>15, <1>17, <1>18, <1>19 DEF Asignado
  <1>21. QED
    BY <1>20

-----------------------------------------------------------------------------
(* What is held of a node *)

\* At the start nothing is.
LEMMA AsignadoInit == Init => \E L : Asignado(L)
  <1>1. SUFFICES ASSUME Init PROVE \E L : Asignado(L)
    OBVIOUS
  <1>2. PICK x : x \in Lineas
    <2>1. PICK T : T = [n \in {} |-> [t \in Tipos |-> 0]]
      OBVIOUS
    <2>2. T \in [{} -> Montos] /\ {} \in SUBSET Nodos
      BY <2>1
    <2>3. T \in UNION {[Q -> Montos] : Q \in SUBSET Nodos}
      BY <2>2
    <2>4. Juntar(T) \in Lineas
      BY <2>3 DEF Lineas
    <2>5. QED
      BY <2>4
  <1>3. PICK L : L = [j \in Trabajos |-> x]
    OBVIOUS
  <1>4. /\ sched = "pide" /\ canal = <<>> /\ Len(canal) = 0 /\ ToSet(canal) = {}
        /\ linea = [j \in Trabajos |-> {}]
        /\ \A j \in Trabajos : agente[j] = SinPedido /\ trab[j] = "sin_crear"
    BY <1>1 DEF Init, ToSet
  <1>5. EnRonda = {}
    BY <1>4 DEF EnRonda, Activo, Planeado
  <1>6. \A k \in 0..0 : Retienen(k) = {}
    BY <1>4 DEF Retienen, Retiene
  <1>7. Caben(L, {})
    <2>1. SUFFICES ASSUME NEW n \in Nodos, NEW t \in Tipos
                   PROVE  Suma({}, [j \in {} |-> Cantidad(L[j], n, t)]) <= Mitad(n)[t]
      BY DEF Caben
    <2>2. Suma({}, [j \in {} |-> Cantidad(L[j], n, t)]) = 0
      BY SumaCero
    <2>3. Mitad(n)[t] \in Nat
      BY MitadTipo DEF Montos
    <2>4. QED
      BY <2>2, <2>3
  <1>8. PlanDe(L) /\ PidenDe(L)
    BY <1>4 DEF PlanDe, PidenDe
  <1>9. Asignado(L)
    BY <1>2, <1>3, <1>4, <1>5, <1>6, <1>7, <1>8 DEF Asignado
  <1>10. QED
    BY <1>9

\* A step either starts a round or goes on with one.
LEMMA AsignadoPaso ==
    ASSUME OInv, Vivo => SinNadie, NEW L, Asignado(L), [Next]_vars
    PROVE  \E M : Asignado(M)'
  <1>1. TInv /\ L \in [Trabajos -> Lineas] /\ PlanDe(L) /\ PidenDe(L)
    BY DEF OInv, Asignado
  <1>2. CASE sched = "espera_nodos" /\ sched' = "crea"
    <2>1. RecibirNodos /\ Vivo
      BY <1>2 DEF Next, Planificador, Scheduler, PedirNodos, RecibirNodos, Crear, Agregar,
         EsperarFin, OtraRonda, Servir, Silencio, Caer, Trabajo, Solicitar, Concedido, Denegado,
         Vencer, Reintentar, Terminar, Quitar, Abandonar, AgenteLee, Agente, AgenteConcede,
         AgenteDeniega, planif, vars
    <2>2. QED
      BY <1>2, <2>1, RondaNueva
  <1>3. CASE ~ (sched = "espera_nodos" /\ sched' = "crea")
    <2>1. PlanDe(L)' /\ EnRonda' \subseteq EnRonda
      BY <1>3, RondaPaso
    <2>2. PidenDe(L)'
      BY <1>1, PidenPaso
    <2>3. \A k \in 0..Len(canal') : Caben(L, Retienen(k)')
      BY RetenidosPaso
    <2>4. Vivo' => Vivo
      BY RegistroPaso DEF vars, Vivo
    <2>5. Vivo' => Caben(L, EnRonda')
      <3>1. EnRonda \in SUBSET Trabajos /\ EnRonda' \in SUBSET Trabajos
        BY DEF EnRonda
      <3>2. QED
        BY <1>1, <2>1, <2>4, <3>1, CabenMenos DEF Asignado
    <2>6. Asignado(L)'
      BY <1>1, <2>1, <2>2, <2>3, <2>5 DEF Asignado
    <2>7. QED
      BY <2>6
  <1>4. QED
    BY <1>2, <1>3

\* The invariant holds at the start.
LEMMA MInvInit == Init => MInv
  BY OInvInit, AvisosInit, AsignadoInit DEF MInv, RondaInv

\* It is inductive.
LEMMA MInvPaso == MInv /\ [Next]_vars => MInv'
  <1>1. SUFFICES ASSUME MInv, [Next]_vars PROVE MInv'
    OBVIOUS
  <1>2. OInv /\ TInv /\ (registro = "vivo" => Avisos) /\ (Vivo => SinNadie)
    BY <1>1 DEF MInv, RondaInv, OInv
  <1>3. PICK L : Asignado(L)
    BY <1>1 DEF MInv
  <1>4. sched = "crea" => Nuevo \in Trabajos
    BY <1>2, <1>3, ElPlaneado DEF Asignado
  <1>5. OInv'
    BY <1>1, <1>2, OInvPaso
  <1>6. registro' = "vivo" => Avisos'
    BY <1>1, <1>2, <1>4, AvisosPaso
  <1>7. Vivo' => SinNadie'
    BY <1>1, <1>2, SinNadiePaso
  <1>8. \E M : Asignado(M)'
    BY <1>1, <1>2, <1>3, AsignadoPaso
  <1>9. QED
    BY <1>5, <1>6, <1>7, <1>8 DEF MInv, RondaInv

\* With no line read, what is held is what the agent has.
LEMMA MInvBasta == MInv => MitadDeCadaNodo
  <1>1. SUFFICES ASSUME MInv, NEW n \in Nodos, NEW t \in Tipos
                 PROVE  Pide([j \in Trabajos |-> agente[j].pide], n, t) <= Mitad(n)[t]
    BY DEF MitadDeCadaNodo
  <1>2. PICK L : Asignado(L)
    BY <1>1 DEF MInv
  <1>3. 0 \in 0..Len(canal)
    BY <1>1, LenProperties DEF MInv, RondaInv, OInv, TInv, Formas, EsSeq
  <1>4. PICK R : R = Retienen(0)
    OBVIOUS
  <1>5. R \subseteq Trabajos /\ \A j \in Trabajos : j \in R <=> agente[j] # SinPedido
    BY <1>4 DEF Retienen, Retiene
  <1>6. PICK f : f = [j \in R |-> Cantidad(L[j], n, t)]
    OBVIOUS
  <1>7. PICK g : g = [j \in Trabajos |-> Cantidad(agente[j].pide, n, t)]
    OBVIOUS
  <1>8. Suma(R, f) <= Mitad(n)[t]
    BY <1>2, <1>3, <1>4, <1>6 DEF Asignado, Caben
  <1>9. \A j \in R : f[j] = g[j]
    BY <1>2, <1>5, <1>6, <1>7 DEF Asignado, PidenDe
  <1>10. Cantidad({}, n, t) = 0
    BY SumaCero DEF Cantidad
  <1>11. \A j \in Trabajos \ R : g[j] = 0
    <2>1. SinPedido.pide = {}
      BY DEF SinPedido
    <2>2. \A j \in Trabajos \ R : agente[j].pide = {}
      BY <1>5, <2>1
    <2>3. QED
      BY <1>7, <1>10, <2>2
  <1>12. Suma(R, f) = Suma(Trabajos, g)
    BY <1>5, <1>9, <1>11, SumaSinCeros
  <1>13. PICK a : a = [j \in Trabajos |-> agente[j].pide]
    OBVIOUS
  <1>14. DOMAIN a = Trabajos /\ g = [j \in Trabajos |-> Cantidad(a[j], n, t)]
    BY <1>7, <1>13
  <1>15. Pide(a, n, t) = Suma(Trabajos, g)
    BY <1>14 DEF Pide
  <1>16. QED
    BY <1>8, <1>12, <1>13, <1>15

\* In every execution, whatever the agent answers and however late, and also
\* once the planner has fallen, what the agent was asked for and not told to
\* release, over the jobs of all rounds, is never more than half of any node
\* (scheduler, job_server): a round starts only when the server says that
\* the former one is over, and by then its last job has released what it had.
THEOREM MitadSiempre == Spec => []MitadDeCadaNodo
  BY MInvInit, MInvPaso, MInvBasta, PTL DEF Spec
=============================================================================
