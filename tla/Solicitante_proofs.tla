-------------------------- MODULE Solicitante_proofs --------------------------
(***************************************************************************)
(* Theorems about Solicitante, for any number of threads, jobs, resources  *)
(* and attempts.                                                           *)
(***************************************************************************)
EXTENDS Solicitante, FiniteSetTheorems, SequenceTheorems, WellFoundedInduction, TLAPS

-----------------------------------------------------------------------------
(* The invariant *)

\* A thread that handles a line of the planner is the only one that does, and
\* has contexts to go through.
EnLinea == {"pedir", "armar", "cortar"}
UnaLinea ==
    \A t \in Hilos : pc[t] \in EnLinea =>
        /\ ~ erlang /\ \A h \in Hilos \ {t} : pc[h] \notin EnLinea
        /\ lista[t] # <<>>

\* A thread that handles a connection has its context, which exists.
EnConexion == {"salida", "leer", "marcar", "mirar", "avisar", "negar", "purgar",
               "cerrar", "rearmar"}
ConEnUso ==
    \A t \in Hilos :
        /\ pc[t] \in EnConexion => con[t] # Nulo
        /\ con[t] # Nulo => tipo[con[t]] # "sin_crear"

\* The planner has the job, or its JOB_RELEASE is after the first n lines.
Suyo(j, n) ==
    \/ estado[j] # "libre"
    \/ \E k \in DOMAIN lineas : /\ k > n
                                /\ lineas[k].orden = "JOB_RELEASE"
                                /\ lineas[k].job = j

\* Contexts are created in the order of the attempts, and entries belong to
\* the last one.
Creacion ==
    /\ \A j \in Trabajos : intento[j] <= Intentos[j]
    /\ \A c \in Contextos :
        /\ c[2] > intento[Trabajo(c)] => tipo[c] = "sin_crear"
        /\ tipo[c] = "sin_crear" => entrada[c] = "no"
        /\ entrada[c] # "no" => c[2] = intento[Trabajo(c)] /\ Suyo(Trabajo(c), 0)

\* A JOB_REQUEST that was not read is the only one of its job, and nothing of
\* what it asks for exists.
Nuevo(j) ==
    /\ intento[j] >= 1
    /\ \A t \in Hilos : trab[t] = j => pc[t] \notin {"pedir", "armar"}
    /\ \A c \in Contextos :
          Trabajo(c) = j /\ c[2] = intento[j] => tipo[c] = "sin_crear"
PedidosNuevos ==
    \A i \in DOMAIN lineas : lineas[i].orden = "JOB_REQUEST" =>
        /\ lineas[i].intento = intento[lineas[i].job]
        /\ \A k \in DOMAIN lineas :
              lineas[k].orden = "JOB_REQUEST" /\ lineas[k].job = lineas[i].job => k = i
        /\ Nuevo(lineas[i].job)
        /\ Suyo(lineas[i].job, i)

\* Nobody has, or will be handed, a context that is being created.
SinManos(c) ==
    /\ tipo[c] # "libre"
    /\ \A f \in Descriptores : epoll[f].con # c
    /\ \A h \in Hilos : con[h] # c
EnCreacion ==
    \A t \in Hilos : pc[t] \in {"pedir", "armar"} =>
        /\ trab[t] \in Trabajos
        /\ Suyo(trab[t], 0)
        /\ pc[t] = "pedir" => tipo[Head(lista[t])] = "sin_crear"
        /\ \A c \in ToSet(lista[t]) :
              /\ Trabajo(c) = trab[t] /\ c[2] = intento[trab[t]]
              /\ SinManos(c)

\* A number leads to a context that has that number, and epoll hands out a
\* context only while no thread has it.
Numeros ==
    \A f \in Descriptores :
        /\ enchufe[f] # Nulo => fd[enchufe[f]] = f /\ tipo[enchufe[f]] # "sin_crear"
        /\ epoll[f].con # Nulo => fd[epoll[f].con] = f /\ tipo[epoll[f].con] # "sin_crear"
        /\ epoll[f].ev # "no" =>
              /\ epoll[f].con # Nulo
              /\ tipo[epoll[f].con] # "libre"
              /\ \A t \in Hilos : con[t] # epoll[f].con

\* A context has no number before it exists.
SinNumero == \A c \in Contextos : tipo[c] = "sin_crear" => fd[c] = 0

IInv ==
    /\ TypeOK /\ UnaLinea /\ ConEnUso /\ Creacion /\ PedidosNuevos /\ EnCreacion
    /\ Numeros /\ SinNumero /\ UnHiloPorConexion

-----------------------------------------------------------------------------
(* Contexts and numbers *)

\* The parts of a context.
LEMMA PartesDeContexto ==
    ASSUME NEW c \in Contextos
    PROVE  /\ Trabajo(c) \in Trabajos /\ c[2] \in 1..Intentos[Trabajo(c)]
           /\ c[2] \in Nat /\ Destino(c) \in ToSet(Pide[Trabajo(c)])
           /\ c = <<Trabajo(c), c[2], Destino(c)>>
  <1>1. PICK j \in Trabajos : c \in {j} \X (1..Intentos[j]) \X ToSet(Pide[j])
    BY DEF Contextos
  <1>2. Intentos[j] \in Nat
    BY PideAssumption
  <1>3. QED
    BY <1>1, <1>2 DEF Trabajo, Destino

\* The parts make a context.
LEMMA ContextoDePartes ==
    ASSUME NEW j \in Trabajos, NEW k \in 1..Intentos[j], NEW d \in ToSet(Pide[j])
    PROVE  <<j, k, d>> \in Contextos
  BY DEF Contextos

\* There are as many numbers as contexts.
LEMMA CuantosNumeros ==
    /\ Cardinality(Contextos) \in Nat
    /\ Descriptores \subseteq Nat
    /\ IsFiniteSet(Descriptores)
    /\ Cardinality(Descriptores) = Cardinality(Contextos)
  <1>1. Cardinality(Contextos) \in Nat
    BY FinitudAssumption, FS_CardinalityType
  <1>2. IsFiniteSet(Descriptores) /\ Cardinality(Descriptores) = Cardinality(Contextos)
    BY <1>1, FS_Interval DEF Descriptores
  <1>3. QED
    BY <1>1, <1>2 DEF Descriptores

\* A set of numbers that is not empty has a least one.
LEMMA MenorNumero ==
    ASSUME NEW T, T \subseteq Nat, T # {}
    PROVE  \E x \in T : \A y \in T : x <= y
  <1>1. PICK x \in T : \A y \in T : ~ (<<y, x>> \in OpToRel(<, Nat))
    BY NatLessThanWellFounded, WFMin
  <1>2. \A y \in T : ~ (y < x)
    BY <1>1 DEF OpToRel
  <1>3. QED
    BY <1>2

\* socket(2) finds a free number for a context that has none: the others
\* cannot have them all.
LEMMA HayNumero ==
    ASSUME TypeOK, Numeros, NEW c \in Contextos, tipo[c] = "sin_crear"
    PROVE  DescriptorNuevo \in Descriptores /\ enchufe[DescriptorNuevo] = Nulo
  <1> DEFINE Libres == {f \in Descriptores : enchufe[f] = Nulo}
             Otros == Contextos \ {c}
  <1>1. Libres # {}
    <2> SUFFICES ASSUME Libres = {} PROVE FALSE
      OBVIOUS
    <2>1. \A f \in Descriptores : enchufe[f] \in Otros
      BY DEF TypeOK, Numeros
    <2>2. \A f, g \in Descriptores : enchufe[f] = enchufe[g] => f = g
      BY DEF Numeros
    <2>3. enchufe \in Injection(Descriptores, Otros)
      BY <2>1, <2>2 DEF TypeOK, Injection, IsInjective
    <2>4. IsFiniteSet(Otros) /\ Cardinality(Otros) = Cardinality(Contextos) - 1
      BY FinitudAssumption, FS_RemoveElement
    <2>5. Cardinality(Descriptores) <= Cardinality(Otros)
      BY <2>3, <2>4, FS_Injection
    <2>6. QED
      BY <2>4, <2>5, CuantosNumeros
  <1>2. PICK f \in Libres : \A g \in Libres : f <= g
    BY <1>1, CuantosNumeros, MenorNumero
  <1>3. ASSUME NEW g \in 1..(f - 1) PROVE enchufe[g] # Nulo
    <2>1. g \in Descriptores /\ g < f
      BY <1>2, CuantosNumeros DEF Descriptores
    <2>2. QED
      BY <1>2, <2>1, CuantosNumeros
  <1>4. QED
    BY <1>2, <1>3 DEF DescriptorNuevo

\* A context that is created gets a free number and its socket, or neither.
LEMMA SocketCreado ==
    ASSUME TypeOK, Numeros, NEW c \in Contextos, tipo[c] = "sin_crear", CrearSocket(c)
    PROVE  \/ UNCHANGED <<fd, enchufe, tcp>>
           \/ \E n \in Descriptores :
                 /\ enchufe[n] = Nulo
                 /\ fd' = [fd EXCEPT ![c] = n]
                 /\ enchufe' = [enchufe EXCEPT ![n] = c]
                 /\ \E r \in {"conectado", "roto"} : tcp' = [tcp EXCEPT ![c] = r]
  BY HayNumero DEF CrearSocket, ResultadosConnect

\* The context that is chosen for a number is one of the list that has it.
LEMMA ElPrimero ==
    ASSUME NEW s \in Seq(Contextos), NEW f, PrimeroCon(s, f) # {}
    PROVE  LET c == CHOOSE x \in PrimeroCon(s, f) : TRUE
           IN  c \in ToSet(s) /\ c \in Contextos /\ fd[c] = f
  <1>1. \A x \in PrimeroCon(s, f) : x \in ToSet(s) /\ x \in Contextos /\ fd[x] = f
    BY DEF PrimeroCon, ToSet
  <1>2. QED
    BY <1>1

\* What is left of the planner's lines once the first is read.
LEMMA RestoDeLineas ==
    ASSUME NEW C, NEW s \in Seq(C), s # <<>>
    PROVE  /\ Head(s) = s[1] /\ 1 \in DOMAIN s /\ Head(s) \in C
           /\ Tail(s) \in Seq(C)
           /\ \A i \in DOMAIN Tail(s) : i + 1 \in DOMAIN s /\ Tail(s)[i] = s[i + 1]
           /\ \A i \in DOMAIN s : i # 1 => i - 1 \in DOMAIN Tail(s)
  OBVIOUS

\* Moving the first element to the end brings in nothing.
LEMMA RestoPuesto ==
    ASSUME NEW C, NEW s \in Seq(C), s # <<>>
    PROVE  ToSet(Append(Tail(s), Head(s))) \subseteq ToSet(s)
  <1> DEFINE r == Append(Tail(s), Head(s))
  <1>1. /\ Tail(s) \in Seq(C) /\ Head(s) = s[1] /\ 1 \in DOMAIN s /\ Head(s) \in C
        /\ \A i \in DOMAIN Tail(s) : i + 1 \in DOMAIN s /\ Tail(s)[i] = s[i + 1]
    BY RestoDeLineas
  <1>2. /\ DOMAIN r = DOMAIN Tail(s) \cup {Len(Tail(s)) + 1}
        /\ \A i \in DOMAIN Tail(s) : r[i] = Tail(s)[i]
        /\ r[Len(Tail(s)) + 1] = Head(s)
    BY <1>1
  <1>3. \A i \in DOMAIN r : \E k \in DOMAIN s : r[i] = s[k]
    BY <1>1, <1>2
  <1>4. QED
    BY <1>3 DEF ToSet

\* The elements of a set in some order are a sequence.
LEMMA EnOrden ==
    ASSUME NEW C, NEW S, S \subseteq C, IsFiniteSet(S)
    PROVE  /\ SetToSeq(S) \in Seq(C) /\ (S # {} => SetToSeq(S) # <<>>)
           /\ ToSet(SetToSeq(S)) = S
  <1>1. Cardinality(S) \in Nat /\ ExistsBijection(1..Cardinality(S), S)
    BY FS_CardinalityType
  <1>2. \E f \in [1..Cardinality(S) -> S] : IsInjective(f)
    BY <1>1 DEF ExistsBijection, Bijection, Injection
  <1>3. SetToSeq(S) \in [1..Cardinality(S) -> S]
    BY <1>2 DEF SetToSeq
  <1> DEFINE s == SetToSeq(S)
             n == Cardinality(S)
  <1>4. S # {} => n # 0
    BY FS_EmptySet
  <1> HIDE DEF s, n
  <1>5. s \in Seq(C)
    BY <1>1, <1>3, SeqDef DEF s, n
  <1>6. S # {} => 1 \in DOMAIN s
    BY <1>1, <1>3, <1>4 DEF s, n
  <1>7. ToSet(s) = S
    <2>1. s \in [1..n -> S] /\ IsInjective(s)
      BY <1>2, <1>3 DEF SetToSeq, s, n
    <2>2. s \in Injection(1..n, S)
      BY <2>1 DEF Injection
    <2>3. Cardinality(1..n) = n
      BY <1>1, FS_Interval DEF n
    <2>4. s \in Surjection(1..n, S)
      BY <2>2, <2>3, FS_Injection DEF n
    <2>5. QED
      BY <2>1, <2>4 DEF Surjection, ToSet
  <1>8. QED
    BY <1>5, <1>6, <1>7 DEF s

\* The contexts of a JOB_REQUEST.
LEMMA ContextosDePedido ==
    ASSUME NEW l, l.job \in Trabajos, l.intento \in 1..Intentos[l.job]
    PROVE  /\ Dependencias(l) \in Seq(Contextos) /\ Dependencias(l) # <<>>
           /\ \A c \in ToSet(Dependencias(l)) :
                c \in Contextos /\ Trabajo(c) = l.job /\ c[2] = l.intento
  <1> DEFINE p == Pide[l.job]
  <1>1. p \in Seq(Destinos) /\ p # <<>>
    BY PideAssumption
  <1>2. \A i \in DOMAIN p : p[i] \in ToSet(p)
    BY DEF ToSet
  <1>3. \A i \in DOMAIN p : <<l.job, l.intento, p[i]>> \in Contextos
    BY <1>2, ContextoDePartes
  <1>4. Len(p) \in Nat \ {0} /\ DOMAIN p = 1..Len(p)
    BY <1>1
  <1>5. Dependencias(l) = [i \in 1..Len(p) |-> <<l.job, l.intento, p[i]>>]
    BY <1>4 DEF Dependencias
  <1>6. Dependencias(l) \in Seq(Contextos) /\ Dependencias(l) # <<>>
    <2> DEFINE n == Len(p)
               D == Dependencias(l)
    <2>1. D \in [1..n -> Contextos]
      BY <1>3, <1>4, <1>5
    <2>2. n \in Nat /\ n # 0
      BY <1>4
    <2> HIDE DEF p, n, D
    <2>3. D \in Seq(Contextos)
      BY <2>1, <2>2, SeqDef
    <2>4. DOMAIN D = 1..n
      BY <2>1
    <2>5. 1 \in DOMAIN D
      BY <2>2, <2>4
    <2>6. D # <<>>
      BY <2>3, <2>5
    <2>7. QED
      BY <2>3, <2>6 DEF D
  <1>7. \A c \in ToSet(Dependencias(l)) : \E i \in DOMAIN p : c = <<l.job, l.intento, p[i]>>
    BY <1>4, <1>5 DEF ToSet
  <1>8. QED
    BY <1>3, <1>6, <1>7 DEF Trabajo

-----------------------------------------------------------------------------
(* Types *)

\* Closing a number keeps the types of what it touches.
LEMMA TiposCerrar ==
    ASSUME TypeOK, NEW f, CerrarFd(f)
    PROVE  /\ enchufe' \in [Descriptores -> Contextos \cup {Nulo}]
           /\ tcp' \in [Contextos -> {"sin_crear", "conectado", "roto", "cerrado"}]
           /\ epoll' \in [Descriptores -> [con : Contextos \cup {Nulo}, ev : {"no", "IN", "OUT"}]]
           /\ buzon' \in [Contextos -> Seq([clase : {"GRANTED", "DENIED"}, job : Trabajos])]
  <1>1. CASE f \in Descriptores /\ enchufe[f] # Nulo
    <2>1. <<>> \in Seq([clase : {"GRANTED", "DENIED"}, job : Trabajos])
      BY EmptySeq
    <2>2. /\ enchufe' = [enchufe EXCEPT ![f] = Nulo]
          /\ tcp' = [tcp EXCEPT ![enchufe[f]] = "cerrado"]
          /\ buzon' = [buzon EXCEPT ![enchufe[f]] = <<>>]
          /\ epoll' = [epoll EXCEPT ![f] = NoArmado]
      BY <1>1 DEF CerrarFd
    <2>3. NoArmado \in [con : Contextos \cup {Nulo}, ev : {"no", "IN", "OUT"}]
      BY DEF NoArmado
    <2>4. epoll' \in [Descriptores -> [con : Contextos \cup {Nulo}, ev : {"no", "IN", "OUT"}]]
      BY <2>2, <2>3 DEF TypeOK
    <2>5. buzon' \in [Contextos -> Seq([clase : {"GRANTED", "DENIED"}, job : Trabajos])]
      BY <2>1, <2>2 DEF TypeOK
    <2>6. QED
      BY <2>2, <2>4, <2>5 DEF TypeOK
  <1>2. CASE ~ (f \in Descriptores /\ enchufe[f] # Nulo)
    BY <1>2 DEF TypeOK, CerrarFd, nucleo
  <1>3. QED
    BY <1>1, <1>2

\* What the planner writes.
LEMMA TiposPlanificador ==
    ASSUME TypeOK, NEW j \in Trabajos, Pedir(j) \/ Soltar(j)
    PROVE  TypeOK'
  <1> DEFINE L == [orden : {"JOB_REQUEST", "JOB_RELEASE"}, job : Trabajos, intento : Nat]
  <1>1. ASSUME NEW l \in L PROVE Append(lineas, l) \in Seq(L)
    BY AppendProperties DEF TypeOK
  <1>2. CASE Pedir(j)
    <2>1. intento' \in [Trabajos -> Nat]
      BY <1>2 DEF Pedir, TypeOK
    <2>2. lineas' \in Seq(L)
      <3>1. Linea("JOB_REQUEST", j, intento'[j]) \in L
        BY <2>1 DEF Linea
      <3>2. QED
        BY <1>1, <1>2, <3>1 DEF Pedir
    <2>3. QED
      BY <1>2, <2>1, <2>2 DEF Pedir, TypeOK, contexto, nucleo, proveedor, hilo
  <1>3. CASE Soltar(j)
    <2>1. lineas' \in Seq(L)
      <3>1. Linea("JOB_RELEASE", j, intento[j]) \in L
        BY DEF Linea, TypeOK
      <3>2. QED
        BY <1>1, <1>3, <3>1 DEF Soltar
    <2>2. QED
      BY <1>3, <2>1 DEF Soltar, TypeOK, contexto, nucleo, proveedor, hilo
  <1>4. QED
    BY <1>2, <1>3

\* What the network and the providers write.
LEMMA TiposProveedor ==
    ASSUME TypeOK,
           \/ \E c \in Contextos : ProvCierra(c)
           \/ \E c \in Contextos, j \in Trabajos : ProvConcede(c, j) \/ ProvDeniega(c, j)
           \/ \E n \in Caidas : ProvCae(n)
    PROVE  TypeOK'
  <1> DEFINE B == [clase : {"GRANTED", "DENIED"}, job : Trabajos]
  <1>1. ASSUME NEW c \in Contextos, NEW j \in Trabajos, NEW k \in {"GRANTED", "DENIED"},
               Responder(c, j, k)
        PROVE  buzon' \in [Contextos -> Seq(B)]
    <2>1. Append(buzon[c], Msg(k, j)) \in Seq(B)
      BY AppendProperties DEF TypeOK, Msg
    <2>2. QED
      BY <1>1, <2>1 DEF Responder, TypeOK
  <1>2. ASSUME NEW c \in Contextos, ProvCierra(c) PROVE TypeOK'
    BY <1>2 DEF ProvCierra, SinHost, TypeOK, planif, contexto, nucleo, hilo
  <1>3. ASSUME NEW c \in Contextos, NEW j \in Trabajos, ProvConcede(c, j) PROVE TypeOK'
    BY <1>1, <1>3 DEF ProvConcede, TypeOK, planif, contexto, nucleo, hilo
  <1>4. ASSUME NEW c \in Contextos, NEW j \in Trabajos, ProvDeniega(c, j) PROVE TypeOK'
    BY <1>1, <1>4 DEF ProvDeniega, TypeOK, planif, contexto, nucleo, hilo
  <1>5. ASSUME NEW n \in Caidas, ProvCae(n) PROVE TypeOK'
    BY <1>5 DEF ProvCae, SinHost, TypeOK, planif, contexto, nucleo, hilo
  <1>6. QED
    BY <1>2, <1>3, <1>4, <1>5

\* The line a thread reads is the first.
LEMMA LineaLeida ==
    ASSUME TypeOK, NEW t, NEW o, LeerLinea(t, o)
    PROVE  /\ 1 \in DOMAIN lineas /\ Head(lineas) = lineas[1]
           /\ lineas[1].orden = o /\ lineas[1].job \in Trabajos
           /\ \A i \in DOMAIN lineas' : i + 1 \in DOMAIN lineas /\ lineas'[i] = lineas[i + 1]
           /\ \A i \in DOMAIN lineas : i \in Nat \ {0} /\ (i # 1 => i - 1 \in DOMAIN lineas')
           /\ DOMAIN lineas' \subseteq Nat \ {0}
  <1> DEFINE L == [orden : {"JOB_REQUEST", "JOB_RELEASE"}, job : Trabajos, intento : Nat]
  <1>1. lineas \in Seq(L) /\ lineas # <<>> /\ lineas' = Tail(lineas) /\ Head(lineas).orden = o
    BY DEF LeerLinea, TypeOK
  <1>2. /\ Head(lineas) = lineas[1] /\ 1 \in DOMAIN lineas /\ Head(lineas) \in L
        /\ Tail(lineas) \in Seq(L)
        /\ \A i \in DOMAIN Tail(lineas) :
              i + 1 \in DOMAIN lineas /\ Tail(lineas)[i] = lineas[i + 1]
        /\ \A i \in DOMAIN lineas : i # 1 => i - 1 \in DOMAIN Tail(lineas)
    BY <1>1, RestoDeLineas
  <1>3. DOMAIN lineas \subseteq Nat \ {0} /\ DOMAIN Tail(lineas) \subseteq Nat \ {0}
    BY <1>1, <1>2, LenProperties
  <1>4. QED
    BY <1>1, <1>2, <1>3

\* A JOB_REQUEST that is read asks for the job's last attempt.
LEMMA PedidoLeido ==
    ASSUME IInv, NEW t, LeerLinea(t, "JOB_REQUEST")
    PROVE  LET l == Head(lineas)
           IN  /\ l = lineas[1] /\ l.job \in Trabajos
               /\ l.intento = intento[l.job] /\ l.intento \in 1..Intentos[l.job]
               /\ Nuevo(l.job) /\ Suyo(l.job, 1)
  <1> DEFINE l == Head(lineas)
  <1>1. TypeOK /\ Creacion /\ PedidosNuevos
    BY DEF IInv
  <1>2. l = lineas[1] /\ 1 \in DOMAIN lineas /\ l.orden = "JOB_REQUEST" /\ l.job \in Trabajos
    BY <1>1, LineaLeida
  <1>3. l.intento = intento[l.job] /\ Nuevo(l.job) /\ Suyo(l.job, 1)
    BY <1>1, <1>2 DEF PedidosNuevos
  <1>4. /\ intento[l.job] \in Nat /\ Intentos[l.job] \in Nat /\ intento[l.job] >= 1
        /\ intento[l.job] <= Intentos[l.job]
    BY <1>1, <1>2, <1>3, PideAssumption DEF TypeOK, Creacion, Nuevo
  <1>5. QED
    BY <1>2, <1>3, <1>4

\* What a thread writes while it handles a line of the planner.
LEMMA TiposLinea ==
    ASSUME IInv, NEW t \in Hilos,
           AtenderPlanificador(t) \/ Registrar(t) \/ Armar(t) \/ Cortar(t)
    PROVE  TypeOK'
  <1> DEFINE L == [orden : {"JOB_REQUEST", "JOB_RELEASE"}, job : Trabajos, intento : Nat]
  <1> USE DEF Ir, Volver, FinLinea, Etapas
  <1>0. TypeOK /\ UnaLinea /\ Numeros
    BY DEF IInv
  <1>1. ASSUME NEW o, LeerLinea(t, o)
        PROVE  /\ lineas' \in Seq(L) /\ Head(lineas) \in L /\ Head(lineas) = lineas[1]
               /\ 1 \in DOMAIN lineas
    BY <1>0, <1>1, RestoDeLineas DEF LeerLinea, TypeOK
  <1>2. CASE TomarPedido(t)
    <2> DEFINE l == Head(lineas)
    <2>1. LeerLinea(t, "JOB_REQUEST")
      BY <1>2 DEF TomarPedido
    <2>2. lineas' \in Seq(L)
      BY <1>1, <2>1
    <2>3. l.job \in Trabajos /\ l.intento \in 1..Intentos[l.job]
      BY <2>1, PedidoLeido
    <2>4. Dependencias(l) \in Seq(Contextos)
      BY <2>3, ContextosDePedido
    <2>5. QED
      BY <1>0, <1>2, <2>2, <2>3, <2>4
      DEF TomarPedido, TypeOK, contexto, nucleo, proveedor
  <1>3. CASE TomarLiberacion(t)
    <2> DEFINE j == Head(lineas).job
    <2>1. lineas' \in Seq(L) /\ j \in Trabajos
      BY <1>1, <1>3 DEF TomarLiberacion
    <2>2. EntradasDe(j) \subseteq Contextos /\ IsFiniteSet(EntradasDe(j))
      BY FinitudAssumption, FS_Subset DEF EntradasDe
    <2>3. SetToSeq(EntradasDe(j)) \in Seq(Contextos)
      BY <2>2, EnOrden
    <2>4. /\ lista' = [lista EXCEPT ![t] = SetToSeq(EntradasDe(j))]
          /\ entrada' = [c \in Contextos |-> IF c \in EntradasDe(j) THEN "no" ELSE entrada[c]]
          /\ trab' = [trab EXCEPT ![t] = j]
          /\ erlang' = FALSE
      BY <1>3 DEF TomarLiberacion
    <2>5. entrada' \in [Contextos -> {"no", "pedida", "concedida"}]
      BY <1>0, <2>4 DEF TypeOK
    <2>6. lista' \in [Hilos -> Seq(Contextos)] /\ trab' \in [Hilos -> Trabajos \cup {Nulo}]
      BY <1>0, <2>1, <2>3, <2>4 DEF TypeOK
    <2>7. QED
      BY <1>0, <1>3, <2>1, <2>4, <2>5, <2>6
      DEF TomarLiberacion, TypeOK, contexto, nucleo, proveedor
  <1>4. CASE LiberacionVacia(t)
    BY <1>0, <1>1, <1>4
    DEF LiberacionVacia, TypeOK, contexto, nucleo, proveedor, hilo
  <1>5. ASSUME pc[t] \in EnLinea
        PROVE  /\ lista[t] \in Seq(Contextos) /\ lista[t] # <<>>
               /\ Head(lista[t]) \in Contextos /\ Tail(lista[t]) \in Seq(Contextos)
    BY <1>0, <1>5, HeadTailProperties DEF UnaLinea, TypeOK
  <1>6. CASE Registrar(t)
    <2> DEFINE c == Head(lista[t])
    <2>1. c \in Contextos /\ Tail(lista[t]) \in Seq(Contextos)
      BY <1>5, <1>6 DEF Registrar, EnLinea
    <2>2. tipo[c] = "sin_crear" /\ Numeros
      BY <1>6 DEF IInv, EnCreacion, Registrar
    <2>3. CrearSocket(c)
      BY <1>6 DEF Registrar
    <2>4. /\ tipo' = [tipo EXCEPT ![c] = "saliente"]
          /\ entrada' = [entrada EXCEPT ![c] = "pedida"]
          /\ lista' = [lista EXCEPT ![t] = Append(Tail(lista[t]), c)]
      BY <1>0, <1>6 DEF Registrar, TypeOK
    <2>5. Append(Tail(lista[t]), c) \in Seq(Contextos)
      BY <2>1, AppendProperties
    <2> HIDE DEF c
    <2>6. /\ fd' \in [Contextos -> Descriptores \cup {0}]
          /\ enchufe' \in [Descriptores -> Contextos \cup {Nulo}]
          /\ tcp' \in [Contextos -> {"sin_crear", "conectado", "roto", "cerrado"}]
      <3>1. CASE UNCHANGED <<fd, enchufe, tcp>>
        BY <1>0, <3>1 DEF TypeOK
      <3>2. ASSUME NEW n \in Descriptores,
                   fd' = [fd EXCEPT ![c] = n], enchufe' = [enchufe EXCEPT ![n] = c],
                   \E r \in {"conectado", "roto"} : tcp' = [tcp EXCEPT ![c] = r]
            PROVE  /\ fd' \in [Contextos -> Descriptores \cup {0}]
                   /\ enchufe' \in [Descriptores -> Contextos \cup {Nulo}]
                   /\ tcp' \in [Contextos -> {"sin_crear", "conectado", "roto", "cerrado"}]
        BY <1>0, <2>1, <3>2 DEF TypeOK
      <3>3. QED
        BY <1>0, <2>1, <2>2, <2>3, <3>1, <3>2, SocketCreado
    <2>7. lista' \in [Hilos -> Seq(Contextos)]
      BY <1>0, <2>4, <2>5 DEF TypeOK
    <2>8. pc' \in [Hilos -> Etapas]
      BY <1>0, <1>6 DEF Registrar, TypeOK
    <2>9. QED
      <3>1. /\ tipo' \in [Contextos -> {"sin_crear", "saliente", "agente", "libre"}]
            /\ entrada' \in [Contextos -> {"no", "pedida", "concedida"}]
        BY <1>0, <2>4 DEF TypeOK
      <3>2. UNCHANGED <<estado, intento, lineas, erlang, epoll, espera, tomada, buzon, con, trab>>
        BY <1>6 DEF Registrar, planif, proveedor
      <3>3. QED
        BY <1>0, <2>6, <2>7, <2>8, <3>1, <3>2 DEF TypeOK
  <1>7. CASE Armar(t)
    <2>1. <<>> \in Seq(Contextos)
      BY EmptySeq
    <2>2. lista' \in [Hilos -> Seq(Contextos)]
      BY <1>0, <1>7, <2>1 DEF Armar, TypeOK
    <2>3. epoll' \in [Descriptores -> [con : Contextos \cup {Nulo}, ev : {"no", "IN", "OUT"}]]
      <3>1. lista[t] \in Seq(Contextos)
        BY <1>0 DEF TypeOK
      <3>2. ASSUME NEW f \in Descriptores
            PROVE  \/ epoll'[f] = epoll[f]
                   \/ \E c \in Contextos : epoll'[f] = [con |-> c, ev |-> "OUT"]
        BY <1>7, <3>1, ElPrimero DEF Armar
      <3>3. /\ epoll' = [f \in Descriptores |-> epoll'[f]]
            /\ \A f \in Descriptores :
                  epoll'[f] \in [con : Contextos \cup {Nulo}, ev : {"no", "IN", "OUT"}]
        BY <1>0, <1>7, <3>2 DEF Armar, TypeOK
      <3>4. QED
        BY <3>3
    <2>4. QED
      BY <1>0, <1>7, <2>2, <2>3 DEF Armar, TypeOK, planif, contexto, proveedor
  <1>8. CASE Cortar(t)
    <2>1. PICK f \in Descriptores \cup {0, fd[Head(lista[t])]} : CerrarFd(f)
      BY <1>8 DEF Cortar
    <2>2. lista' \in [Hilos -> Seq(Contextos)]
      BY <1>0, <1>5, <1>8 DEF Cortar, TypeOK, EnLinea
    <2>3. /\ pc' \in [Hilos -> Etapas] /\ con' \in [Hilos -> Contextos \cup {Nulo}]
          /\ trab' \in [Hilos -> Trabajos \cup {Nulo}] /\ erlang' \in BOOLEAN
      BY ZenonT(40), <1>0, <1>8 DEF Cortar, TypeOK
    <2>4. QED
      BY <1>0, <1>8, <2>1, <2>2, <2>3, TiposCerrar
      DEF Cortar, TypeOK, planif, contexto, proveedor
  <1>9. QED
    BY <1>2, <1>3, <1>4, <1>6, <1>7, <1>8 DEF AtenderPlanificador

\* What a thread writes while it handles a connection.
LEMMA TiposConexion ==
    ASSUME IInv, NEW t \in Hilos,
           \/ Salida(t) \/ Leer(t) \/ Marcar(t) \/ Mirar(t) \/ Avisar(t)
           \/ Rearmar(t) \/ Purgar(t) \/ Cerrar(t)
           \/ \E f \in Descriptores : Evento(t, f)
           \/ \E n \in Vecinos : FinDeVecino(t, n)
    PROVE  TypeOK'
  <1> USE DEF Ir, Volver, Etapas
  <1>0. TypeOK
    BY DEF IInv
  <1>1. pc[t] \in EnConexion => con[t] \in Contextos
    BY DEF IInv, ConEnUso, TypeOK
  <1>2. CASE Salida(t)
    <2>1. con[t] \in Contextos /\ Trabajo(con[t]) \in Trabajos
      BY <1>1, <1>2, PartesDeContexto DEF Salida, EnConexion
    <2>2. tomada' = tomada
      BY <1>2 DEF Salida
    <2>3. CASE Sano(EnchufeDe(con[t]))
      <3>1. /\ espera' = espera \cup {<<EnchufeDe(con[t]), Trabajo(con[t])>>}
            /\ tipo' = [tipo EXCEPT ![con[t]] = "agente"]
            /\ pc' = [pc EXCEPT ![t] = "rearmar"]
        BY <1>2, <2>3 DEF Salida
      <3>2. EnchufeDe(con[t]) \in Contextos
        BY <2>3 DEF Sano
      <3>3. espera' \cup tomada' \subseteq Contextos \X Trabajos
        BY <1>0, <2>1, <2>2, <3>1, <3>2 DEF TypeOK
      <3>4. /\ tipo' \in [Contextos -> {"sin_crear", "saliente", "agente", "libre"}]
            /\ pc' \in [Hilos -> Etapas]
        BY <1>0, <3>1 DEF TypeOK
      <3>5. QED
        BY <1>0, <1>2, <3>3, <3>4 DEF Salida, TypeOK, planif, nucleo
    <2>4. CASE ~ Sano(EnchufeDe(con[t]))
      <3>1. UNCHANGED <<espera, tipo>> /\ pc' = [pc EXCEPT ![t] = "cerrar"]
        BY <1>2, <2>4 DEF Salida
      <3>2. QED
        BY <1>0, <1>2, <3>1 DEF Salida, TypeOK, planif, nucleo
    <2>5. QED
      BY <2>3, <2>4
  <1>3. CASE Leer(t)
    <2> DEFINE s == EnchufeDe(con[t])
               B == [clase : {"GRANTED", "DENIED"}, job : Trabajos]
    <2>1. CASE HayLinea(s)
      <3>1. s \in Contextos /\ buzon[s] \in Seq(B) /\ buzon[s] # <<>>
        BY <1>0, <2>1 DEF HayLinea, TypeOK
      <3>2. Head(buzon[s]) \in B /\ Tail(buzon[s]) \in Seq(B)
        BY <3>1, HeadTailProperties
      <3>3. /\ trab' = [trab EXCEPT ![t] = Head(buzon[s]).job]
            /\ buzon' = [buzon EXCEPT ![s] = Tail(@)]
            /\ pc' = [pc EXCEPT ![t] = IF Head(buzon[s]).clase = "GRANTED"
                                       THEN "marcar" ELSE "negar"]
        BY <1>3, <2>1 DEF Leer
      <3>4. /\ trab' \in [Hilos -> Trabajos \cup {Nulo}] /\ buzon' \in [Contextos -> Seq(B)]
            /\ pc' \in [Hilos -> Etapas]
        BY <1>0, <3>2, <3>3 DEF TypeOK
      <3>5. QED
        BY <1>0, <1>3, <3>4 DEF Leer, TypeOK, planif, contexto, nucleo, proveedor
    <2>2. CASE ~ HayLinea(s)
      BY <1>0, <1>3, <2>2 DEF Leer, TypeOK, planif, contexto, nucleo, proveedor
    <2>3. QED
      BY <2>1, <2>2
  <1>4. CASE Marcar(t)
    <2>1. entrada' \in [Contextos -> {"no", "pedida", "concedida"}]
      BY <1>0, <1>4 DEF Marcar, EntradaDe, EntradasDe, TypeOK
    <2>2. /\ pc' = [pc EXCEPT ![t] = "mirar"]
          /\ UNCHANGED <<planif, erlang, contexto, nucleo, proveedor, buzon, con, trab, lista>>
      BY <1>4 DEF Marcar
    <2>3. pc' \in [Hilos -> Etapas]
      BY <1>0, <2>2 DEF TypeOK
    <2>4. QED
      BY <1>0, <2>1, <2>2, <2>3 DEF TypeOK, planif, contexto, nucleo, proveedor
  <1>5. CASE Mirar(t)
    BY <1>0, <1>5 DEF Mirar, TypeOK, planif, contexto, nucleo, proveedor
  <1>6. CASE Avisar(t)
    BY <1>0, <1>6 DEF Avisar, TypeOK, contexto, nucleo, proveedor
  <1>7. CASE Rearmar(t)
    BY <1>0, <1>7 DEF Rearmar, TypeOK, planif, contexto, proveedor
  <1>8. CASE Purgar(t)
    <2>1. entrada' \in [Contextos -> {"no", "pedida", "concedida"}]
      BY <1>0, <1>8 DEF Purgar, BorrarPorNodo, TypeOK
    <2>2. /\ pc' = [pc EXCEPT ![t] = "cerrar"]
          /\ UNCHANGED <<planif, erlang, contexto, nucleo, proveedor, buzon, con, trab, lista>>
      BY <1>8 DEF Purgar
    <2>3. pc' \in [Hilos -> Etapas]
      BY <1>0, <2>2 DEF TypeOK
    <2>4. QED
      BY <1>0, <2>1, <2>2, <2>3 DEF TypeOK, planif, contexto, nucleo, proveedor
  <1>9. CASE Cerrar(t)
    <2>1. tipo' \in [Contextos -> {"sin_crear", "saliente", "agente", "libre"}]
      BY <1>0, <1>9 DEF Cerrar, TypeOK
    <2>2. QED
      BY <1>0, <1>9, <2>1, TiposCerrar DEF Cerrar, TypeOK, planif, proveedor
  <1>10. ASSUME NEW f \in Descriptores, Evento(t, f) PROVE TypeOK'
    <2>1. epoll' \in [Descriptores -> [con : Contextos \cup {Nulo}, ev : {"no", "IN", "OUT"}]]
      BY <1>0, <1>10 DEF Evento, Desarmar, TypeOK
    <2>2. QED
      BY <1>0, <1>10, <2>1 DEF Evento, TypeOK, planif, contexto, proveedor
  <1>11. ASSUME NEW n \in Vecinos, FinDeVecino(t, n) PROVE TypeOK'
    <2>1. entrada' \in [Contextos -> {"no", "pedida", "concedida"}]
      BY <1>0, <1>11 DEF FinDeVecino, BorrarPorNodo, TypeOK
    <2>2. UNCHANGED <<planif, erlang, contexto, nucleo, proveedor, buzon, hilo>>
      BY <1>11 DEF FinDeVecino
    <2>3. QED
      BY <1>0, <2>1, <2>2 DEF TypeOK, planif, contexto, nucleo, proveedor, hilo
  <1>12. QED
    BY <1>2, <1>3, <1>4, <1>5, <1>6, <1>7, <1>8, <1>9, <1>10, <1>11

-----------------------------------------------------------------------------
(* Steps by who takes them *)

PasoExterno ==
    \/ \E j \in Trabajos : Pedir(j) \/ Soltar(j)
    \/ \E c \in Contextos : ProvCierra(c)
    \/ \E c \in Contextos, j \in Trabajos : ProvConcede(c, j) \/ ProvDeniega(c, j)
    \/ \E n \in Caidas : ProvCae(n)

PasoLinea(t) == AtenderPlanificador(t) \/ Registrar(t) \/ Armar(t) \/ Cortar(t)

PasoConexion(t) ==
    \/ Salida(t) \/ Leer(t) \/ Marcar(t) \/ Mirar(t) \/ Avisar(t)
    \/ Rearmar(t) \/ Purgar(t) \/ Cerrar(t)
    \/ \E f \in Descriptores : Evento(t, f)
    \/ \E n \in Vecinos : FinDeVecino(t, n)

\* A step is the planner's or a provider's, or a thread's with a line or a connection.
LEMMA Casos ==
    Next <=> PasoExterno \/ \E t \in Hilos : PasoLinea(t) \/ PasoConexion(t)
  BY DEF Next, PasoExterno, PasoLinea, PasoConexion, AtenderPlanificador, Avanzar

\* Every step keeps the types.
LEMMA Tipos ==
    ASSUME IInv, [Next]_vars
    PROVE  TypeOK'
  <1>1. CASE PasoExterno
    <2>1. ASSUME NEW j \in Trabajos, Pedir(j) \/ Soltar(j) PROVE TypeOK'
      BY <2>1, TiposPlanificador DEF IInv
    <2>2. QED
      BY <1>1, <2>1, TiposProveedor DEF IInv, PasoExterno
  <1>2. ASSUME NEW t \in Hilos, PasoLinea(t) PROVE TypeOK'
    BY <1>2, TiposLinea DEF PasoLinea
  <1>3. ASSUME NEW t \in Hilos, PasoConexion(t) PROVE TypeOK'
    BY <1>3, TiposConexion DEF PasoConexion
  <1>4. CASE UNCHANGED vars
    BY <1>4
    DEF IInv, TypeOK, vars, planif, contexto, nucleo, proveedor, hilo
  <1>5. QED
    BY <1>1, <1>2, <1>3, <1>4, Casos

\* The planner and the providers touch nothing the threads keep.
LEMMA MarcoExterno ==
    ASSUME PasoExterno
    PROVE  UNCHANGED <<erlang, entrada, fd, tipo, enchufe, epoll, pc, con, trab, lista>>
  BY DEF PasoExterno, Pedir, Soltar, ProvCierra, ProvConcede, ProvDeniega, ProvCae,
         contexto, nucleo, hilo

\* A thread that handles a connection keeps to itself and to it.
LEMMA MarcoHilo ==
    ASSUME IInv, NEW t \in Hilos, PasoConexion(t)
    PROVE  /\ UNCHANGED <<intento, lineas, erlang, fd, lista>>
           /\ pc[t] \notin EnLinea /\ pc'[t] \notin EnLinea
           /\ \A h \in Hilos \ {t} : pc'[h] = pc[h] /\ con'[h] = con[h] /\ trab'[h] = trab[h]
           /\ \/ con'[t] \in {con[t], Nulo}
              \/ \E f \in Descriptores : con'[t] = epoll[f].con /\ epoll[f].ev # "no"
           /\ pc'[t] \in EnConexion => con'[t] # Nulo
  <1> USE DEF Ir, Volver, EnLinea, EnConexion
  <1>0. TypeOK /\ Numeros /\ (pc[t] \in EnConexion => con[t] # Nulo)
    BY DEF IInv, ConEnUso
  <1>1. CASE Salida(t)
    <2>1. \E m \in {"rearmar", "cerrar"} : pc' = [pc EXCEPT ![t] = m]
      BY <1>1 DEF Salida
    <2>2. QED
      BY <1>0, <1>1, <2>1 DEF Salida, TypeOK, planif
  <1>2. CASE Leer(t)
    <2>1. \E m \in {"marcar", "negar", "rearmar", "purgar"} : pc' = [pc EXCEPT ![t] = m]
      BY <1>2 DEF Leer
    <2>2. \A h \in Hilos \ {t} : trab'[h] = trab[h]
      BY <1>0, <1>2 DEF Leer, TypeOK
    <2>3. QED
      BY <1>0, <1>2, <2>1, <2>2 DEF Leer, TypeOK, planif, contexto
  <1>3. CASE Marcar(t)
    BY <1>0, <1>3 DEF Marcar, TypeOK, planif, contexto
  <1>4. CASE Mirar(t)
    BY <1>0, <1>4 DEF Mirar, TypeOK, planif, contexto
  <1>5. CASE Avisar(t)
    BY <1>0, <1>5 DEF Avisar, TypeOK, contexto
  <1>6. CASE Purgar(t)
    BY <1>0, <1>6 DEF Purgar, TypeOK, planif, contexto
  <1>7. CASE Rearmar(t)
    BY <1>0, <1>7 DEF Rearmar, TypeOK, planif, contexto
  <1>8. CASE Cerrar(t)
    BY <1>0, <1>8 DEF Cerrar, TypeOK, planif
  <1>9. CASE \E f \in Descriptores : Evento(t, f)
    <2>1. PICK f \in Descriptores : Evento(t, f)
      BY <1>9
    <2>2. epoll[f].ev # "no" /\ epoll[f].con # Nulo
      BY <1>0, <2>1 DEF Evento, Listo, Numeros
    <2>3. UNCHANGED <<intento, lineas, erlang, fd, trab, lista>>
      BY <2>1 DEF Evento, planif, contexto
    <2>4. pc[t] = "libre" /\ \E m \in {"salida", "leer"} : pc' = [pc EXCEPT ![t] = m]
      BY <2>1 DEF Evento
    <2>5. con' = [con EXCEPT ![t] = epoll[f].con]
      BY <2>1 DEF Evento
    <2>6. QED
      BY <1>0, <2>2, <2>3, <2>4, <2>5 DEF TypeOK
  <1>10. CASE \E n \in Vecinos : FinDeVecino(t, n)
    BY <1>0, <1>10 DEF FinDeVecino, TypeOK, planif, contexto, hilo
  <1>11. QED
    BY <1>1, <1>2, <1>3, <1>4, <1>5, <1>6, <1>7, <1>8, <1>9, <1>10 DEF PasoConexion

\* Closing a number frees it and its registration, and touches no other.
LEMMA EfectoCerrar ==
    ASSUME TypeOK, NEW n, CerrarFd(n), NEW f \in Descriptores
    PROVE  \/ f = n /\ enchufe'[f] = Nulo /\ (epoll'[f] = NoArmado \/ epoll'[f] = epoll[f])
           \/ enchufe'[f] = enchufe[f] /\ epoll'[f] = epoll[f]
  <1>1. CASE n \in Descriptores /\ enchufe[n] # Nulo
    BY <1>1 DEF CerrarFd, TypeOK
  <1>2. CASE ~ (n \in Descriptores /\ enchufe[n] # Nulo)
    BY <1>2 DEF CerrarFd, nucleo
  <1>3. QED
    BY <1>1, <1>2

\* What it does to the contexts, the entries and the numbers.
LEMMA MarcoDatos ==
    ASSUME IInv, NEW t \in Hilos, PasoConexion(t)
    PROVE  /\ \A j \in Trabajos : estado[j] # "libre" => estado'[j] # "libre"
           /\ \A c \in Contextos :
                 /\ entrada'[c] # "no" => entrada[c] # "no"
                 /\ tipo'[c] = "sin_crear" <=> tipo[c] = "sin_crear"
                 /\ tipo'[c] = "libre" => tipo[c] = "libre" \/ c = con[t]
           /\ \A f \in Descriptores :
                 /\ enchufe'[f] \in {enchufe[f], Nulo}
                 /\ epoll'[f].con \in {epoll[f].con, con[t], Nulo}
  <1>0. /\ TypeOK
        /\ pc[t] \in EnConexion => con[t] \in Contextos /\ tipo[con[t]] # "sin_crear"
    BY DEF IInv, ConEnUso, TypeOK
  <1>1. CASE Salida(t)
    <2>1. tipo' = [tipo EXCEPT ![con[t]] = "agente"] \/ tipo' = tipo
      BY <1>1 DEF Salida
    <2>2. UNCHANGED <<estado, entrada, enchufe, epoll>> /\ pc[t] \in EnConexion
      BY <1>1 DEF Salida, planif, nucleo, EnConexion
    <2>3. QED
      BY <1>0, <2>1, <2>2 DEF TypeOK
  <1>2. CASE Leer(t) \/ Mirar(t)
    BY <1>2 DEF Leer, Mirar, planif, contexto, nucleo
  <1>3. CASE Marcar(t)
    <2>1. \A c \in Contextos : entrada'[c] # "no" => entrada[c] # "no"
      BY <1>0, <1>3 DEF Marcar, EntradaDe, EntradasDe, TypeOK
    <2>2. QED
      BY <1>3, <2>1 DEF Marcar, planif, contexto, nucleo
  <1>4. CASE Avisar(t)
    <2>1. \A j \in Trabajos : estado[j] # "libre" => estado'[j] # "libre"
      BY <1>0, <1>4 DEF Avisar, TypeOK
    <2>2. QED
      BY <1>4, <2>1 DEF Avisar, contexto, nucleo
  <1>5. CASE Purgar(t)
    BY <1>5 DEF Purgar, BorrarPorNodo, planif, contexto, nucleo
  <1>6. CASE Rearmar(t)
    BY <1>0, <1>6 DEF Rearmar, TypeOK, planif, contexto
  <1>7. CASE Cerrar(t)
    <2>1. tipo' = [tipo EXCEPT ![con[t]] = "libre"] /\ CerrarFd(fd[con[t]])
          /\ UNCHANGED <<estado, entrada>> /\ pc[t] \in EnConexion
      BY <1>7 DEF Cerrar, planif, EnConexion
    <2>2. \A f \in Descriptores :
             enchufe'[f] \in {enchufe[f], Nulo} /\ epoll'[f].con \in {epoll[f].con, Nulo}
      BY <1>0, <2>1, EfectoCerrar DEF NoArmado
    <2>3. QED
      BY <1>0, <2>1, <2>2 DEF TypeOK
  <1>8. CASE \E f \in Descriptores : Evento(t, f)
    <2>1. PICK f \in Descriptores : Evento(t, f)
      BY <1>8
    <2>2. epoll' = [epoll EXCEPT ![f].ev = "no"] /\ UNCHANGED <<estado, entrada, tipo, enchufe>>
      BY <2>1 DEF Evento, Desarmar, planif, contexto
    <2>3. QED
      BY <1>0, <2>2 DEF TypeOK
  <1>9. CASE \E n \in Vecinos : FinDeVecino(t, n)
    BY <1>9 DEF FinDeVecino, BorrarPorNodo, planif, contexto, nucleo
  <1>10. QED
    BY <1>1, <1>2, <1>3, <1>4, <1>5, <1>6, <1>7, <1>8, <1>9 DEF PasoConexion

-----------------------------------------------------------------------------
(* One line at a time *)

\* Every step leaves at most one thread with a line.
LEMMA LineasSiguen ==
    ASSUME IInv, [Next]_vars
    PROVE  UnaLinea'
  <1> USE DEF Ir, Volver, FinLinea, EnLinea
  <1>0. TypeOK /\ UnaLinea
    BY DEF IInv
  <1>1. CASE PasoExterno
    BY <1>0, <1>1, MarcoExterno DEF UnaLinea
  <1>2. ASSUME NEW t \in Hilos, PasoConexion(t) PROVE UnaLinea'
    BY <1>0, <1>2, MarcoHilo DEF UnaLinea
  <1>3. ASSUME NEW t \in Hilos, NEW o, LeerLinea(t, o)
        PROVE  \A h \in Hilos : pc[h] \notin EnLinea
    BY <1>0, <1>3 DEF UnaLinea, LeerLinea
  <1>4. ASSUME NEW t \in Hilos, TomarPedido(t) PROVE UnaLinea'
    <2>1. LeerLinea(t, "JOB_REQUEST")
      BY <1>4 DEF TomarPedido
    <2>2. Dependencias(Head(lineas)) # <<>>
      BY <2>1, PedidoLeido, ContextosDePedido
    <2>3. \A h \in Hilos : pc[h] \notin EnLinea
      BY <1>3, <2>1
    <2>4. /\ pc' = [pc EXCEPT ![t] = "pedir"] /\ erlang' = FALSE
          /\ lista' = [lista EXCEPT ![t] = Dependencias(Head(lineas))]
      BY <1>4 DEF TomarPedido
    <2>5. QED
      BY <1>0, <2>2, <2>3, <2>4 DEF UnaLinea, TypeOK
  <1>5. ASSUME NEW t \in Hilos, TomarLiberacion(t) PROVE UnaLinea'
    <2> DEFINE suyas == EntradasDe(Head(lineas).job)
    <2>1. LeerLinea(t, "JOB_RELEASE") /\ suyas # {}
      BY <1>5 DEF TomarLiberacion
    <2>2. SetToSeq(suyas) # <<>>
      BY <2>1, EnOrden, FinitudAssumption, FS_Subset DEF EntradasDe
    <2>3. \A h \in Hilos : pc[h] \notin EnLinea
      BY <1>3, <2>1
    <2>4. /\ pc' = [pc EXCEPT ![t] = "cortar"] /\ erlang' = FALSE
          /\ lista' = [lista EXCEPT ![t] = SetToSeq(suyas)]
      BY <1>5 DEF TomarLiberacion
    <2>5. QED
      BY <1>0, <2>2, <2>3, <2>4 DEF UnaLinea, TypeOK
  <1>6. ASSUME NEW t \in Hilos, LiberacionVacia(t) PROVE UnaLinea'
    BY <1>0, <1>6 DEF UnaLinea, LiberacionVacia, hilo
  <1>7. ASSUME NEW t \in Hilos, Registrar(t) PROVE UnaLinea'
    <2>1. /\ pc[t] = "pedir" /\ erlang' = erlang
          /\ \E m \in {"pedir", "armar"} : pc' = [pc EXCEPT ![t] = m]
          /\ lista' = [lista EXCEPT ![t] = Append(Tail(@), Head(lista[t]))]
      BY <1>7 DEF Registrar
    <2>2. Append(Tail(lista[t]), Head(lista[t])) # <<>>
      <3>1. lista[t] \in Seq(Contextos) /\ lista[t] # <<>>
        BY <1>0, <2>1 DEF UnaLinea, TypeOK
      <3>2. Tail(lista[t]) \in Seq(Contextos) /\ Head(lista[t]) \in Contextos
        BY <3>1, HeadTailProperties
      <3>3. QED
        BY <3>2, AppendProperties
    <2>3. QED
      BY <1>0, <2>1, <2>2 DEF UnaLinea, TypeOK
  <1>8. ASSUME NEW t \in Hilos, Armar(t) PROVE UnaLinea'
    <2>1. pc[t] = "armar" /\ pc' = [pc EXCEPT ![t] = "libre"]
      BY <1>8 DEF Armar
    <2>2. \A h \in Hilos : pc'[h] \notin EnLinea
      BY <1>0, <2>1 DEF UnaLinea, TypeOK
    <2>3. QED
      BY <2>2 DEF UnaLinea
  <1>9. ASSUME NEW t \in Hilos, Cortar(t) PROVE UnaLinea'
    <2>1. lista[t] \in Seq(Contextos) /\ lista[t] # <<>> /\ pc[t] = "cortar"
      BY <1>0, <1>9 DEF UnaLinea, TypeOK, Cortar
    <2>2. CASE Len(lista[t]) = 1
      <3>1. pc' = [pc EXCEPT ![t] = "libre"]
        BY <1>9, <2>2 DEF Cortar
      <3>2. \A h \in Hilos : pc'[h] \notin EnLinea
        BY <1>0, <2>1, <3>1 DEF UnaLinea, TypeOK
      <3>3. QED
        BY <3>2 DEF UnaLinea
    <2>3. CASE Len(lista[t]) # 1
      <3>1. UNCHANGED <<pc, erlang>> /\ lista' = [lista EXCEPT ![t] = Tail(@)]
        BY <1>9, <2>3 DEF Cortar
      <3>2. Tail(lista[t]) # <<>>
        <4>1. Len(lista[t]) \in Nat \ {0}
          BY <2>1, EmptySeq
        <4>2. Len(Tail(lista[t])) = Len(lista[t]) - 1
          BY <2>1, HeadTailProperties
        <4>3. Len(Tail(lista[t])) # 0
          BY <2>3, <4>1, <4>2
        <4>4. Len(<<>>) = 0
          BY EmptySeq
        <4>5. QED
          BY <4>3, <4>4
      <3>3. QED
        BY <1>0, <3>1, <3>2 DEF UnaLinea, TypeOK
    <2>4. QED
      BY <2>2, <2>3
  <1>10. CASE UNCHANGED vars
    BY <1>0, <1>10 DEF UnaLinea, vars, hilo
  <1>11. QED
    BY <1>1, <1>2, <1>4, <1>5, <1>6, <1>7, <1>8, <1>9, <1>10, Casos
    DEF PasoLinea, AtenderPlanificador

-----------------------------------------------------------------------------
(* Threads and contexts *)

\* What a thread that handles a line does to the threads.
LEMMA MarcoLinea ==
    ASSUME IInv, NEW t \in Hilos, PasoLinea(t)
    PROVE  /\ UNCHANGED <<estado, intento>>
           /\ pc[t] \notin EnConexion /\ pc'[t] \notin EnConexion
           /\ \A h \in Hilos \ {t} :
                 pc'[h] = pc[h] /\ con'[h] = con[h] /\ trab'[h] = trab[h] /\ lista'[h] = lista[h]
           /\ con'[t] \in {con[t], Nulo}
  <1> USE DEF Ir, Volver, FinLinea, EnConexion, planif, hilo
  <1>0. TypeOK
    BY DEF IInv
  <1>1. CASE TomarPedido(t)
    BY <1>0, <1>1 DEF TomarPedido, LeerLinea, TypeOK
  <1>2. CASE TomarLiberacion(t)
    <2>1. /\ pc[t] = "libre" /\ pc' = [pc EXCEPT ![t] = "cortar"]
          /\ \E x : lista' = [lista EXCEPT ![t] = x]
          /\ \E x : trab' = [trab EXCEPT ![t] = x]
          /\ UNCHANGED <<con, estado, intento>>
      BY <1>2 DEF TomarLiberacion, LeerLinea
    <2>2. QED
      BY <1>0, <2>1 DEF TypeOK
  <1>3. CASE LiberacionVacia(t)
    BY <1>0, <1>3 DEF LiberacionVacia, LeerLinea
  <1>4. CASE Registrar(t)
    <2>1. /\ pc[t] = "pedir" /\ \E m \in {"pedir", "armar"} : pc' = [pc EXCEPT ![t] = m]
          /\ \E x : lista' = [lista EXCEPT ![t] = x]
          /\ UNCHANGED <<con, trab, estado, intento>>
      BY <1>4 DEF Registrar
    <2>2. QED
      BY <1>0, <2>1 DEF TypeOK
  <1>5. CASE Armar(t)
    BY <1>0, <1>5 DEF Armar, TypeOK
  <1>6. CASE Cortar(t)
    BY <1>0, <1>6 DEF Cortar, TypeOK
  <1>7. QED
    BY <1>1, <1>2, <1>3, <1>4, <1>5, <1>6 DEF PasoLinea, AtenderPlanificador

\* Registrar creates the first context of the list; no other line touches one.
LEMMA TipoLinea ==
    ASSUME IInv, NEW t \in Hilos, PasoLinea(t)
    PROVE  \/ ~ Registrar(t) /\ UNCHANGED <<tipo, fd>>
           \/ /\ Registrar(t) /\ Head(lista[t]) \in Contextos
              /\ pc[t] = "pedir" /\ tipo[Head(lista[t])] = "sin_crear"
              /\ tipo' = [tipo EXCEPT ![Head(lista[t])] = "saliente"]
              /\ CrearSocket(Head(lista[t]))
  <1>1. CASE Registrar(t)
    <2>1. pc[t] = "pedir" /\ lista[t] \in Seq(Contextos) /\ lista[t] # <<>>
      BY <1>1 DEF Registrar, IInv, UnaLinea, TypeOK, EnLinea
    <2>2. Head(lista[t]) \in Contextos /\ tipo[Head(lista[t])] = "sin_crear"
      BY <2>1, HeadTailProperties DEF IInv, EnCreacion
    <2>3. QED
      BY <1>1, <2>1, <2>2 DEF Registrar
  <1>2. CASE ~ Registrar(t)
    BY <1>2 DEF PasoLinea, AtenderPlanificador, TomarPedido, TomarLiberacion,
                LiberacionVacia, Armar, Cortar, contexto
  <1>3. QED
    BY <1>1, <1>2

\* Contexts in use exist.
LEMMA UsoSigue ==
    ASSUME IInv, [Next]_vars
    PROVE  ConEnUso'
  <1>0. TypeOK /\ ConEnUso /\ Numeros
    BY DEF IInv
  <1>1. CASE PasoExterno
    BY <1>0, <1>1, MarcoExterno DEF ConEnUso
  <1>2. ASSUME NEW t \in Hilos, PasoLinea(t) PROVE ConEnUso'
    <2>1. ASSUME NEW c \in Contextos, tipo[c] # "sin_crear" PROVE tipo'[c] # "sin_crear"
      BY <1>0, <1>2, <2>1, TipoLinea DEF TypeOK
    <2>2. \A h \in Hilos : con[h] \in Contextos \cup {Nulo}
      BY <1>0 DEF TypeOK
    <2>3. ASSUME NEW h \in Hilos
          PROVE  /\ pc'[h] \in EnConexion => con'[h] # Nulo
                 /\ con'[h] # Nulo => con'[h] \in Contextos /\ tipo[con'[h]] # "sin_crear"
      BY <1>0, <1>2, <2>2, MarcoLinea DEF ConEnUso
    <2>4. QED
      BY <2>1, <2>3 DEF ConEnUso
  <1>3. ASSUME NEW t \in Hilos, PasoConexion(t) PROVE ConEnUso'
    <2>1. \A c \in Contextos : tipo'[c] = "sin_crear" <=> tipo[c] = "sin_crear"
      BY <1>3, MarcoDatos
    <2>2. \A f \in Descriptores : epoll[f].con \in Contextos \cup {Nulo}
      BY <1>0 DEF TypeOK
    <2>3. con'[t] # Nulo => con'[t] \in Contextos /\ tipo[con'[t]] # "sin_crear"
      <3>1. CASE con'[t] \in {con[t], Nulo}
        BY <1>0, <3>1 DEF ConEnUso, TypeOK
      <3>2. CASE \E f \in Descriptores : con'[t] = epoll[f].con /\ epoll[f].ev # "no"
        BY <1>0, <2>2, <3>2 DEF Numeros
      <3>3. QED
        BY <1>3, <3>1, <3>2, MarcoHilo
    <2>4. pc'[t] \in EnConexion => con'[t] # Nulo
      BY <1>3, MarcoHilo
    <2>5. ASSUME NEW h \in Hilos \ {t}
          PROVE  /\ pc'[h] \in EnConexion => con'[h] # Nulo
                 /\ con'[h] # Nulo => con'[h] \in Contextos /\ tipo[con'[h]] # "sin_crear"
      BY <1>0, <1>3, MarcoHilo DEF ConEnUso, TypeOK
    <2>6. QED
      BY <2>1, <2>3, <2>4, <2>5 DEF ConEnUso
  <1>4. CASE UNCHANGED vars
    BY <1>0, <1>4 DEF ConEnUso, vars, hilo, contexto
  <1>5. QED
    BY <1>1, <1>2, <1>3, <1>4, Casos

-----------------------------------------------------------------------------
(* Numbers *)

\* Numeros for one number.
NumeroBien(f) ==
    /\ enchufe[f] # Nulo => fd[enchufe[f]] = f /\ tipo[enchufe[f]] # "sin_crear"
    /\ epoll[f].con # Nulo => fd[epoll[f].con] = f /\ tipo[epoll[f].con] # "sin_crear"
    /\ epoll[f].ev # "no" =>
          /\ epoll[f].con # Nulo
          /\ tipo[epoll[f].con] # "libre"
          /\ \A t \in Hilos : con[t] # epoll[f].con

\* A number that is freed is in order, and one nothing happens to stays so.
LEMMA NumeroIgual ==
    ASSUME TypeOK, NEW f \in Descriptores, NumeroBien(f), UNCHANGED <<fd, tipo>>,
           enchufe'[f] \in {enchufe[f], Nulo}, epoll'[f] \in {epoll[f], NoArmado},
           \A h \in Hilos : con'[h] \in {con[h], Nulo}
    PROVE  NumeroBien(f)'
  BY DEF NumeroBien, NoArmado

\* Handling a line keeps the numbers in order.
LEMMA NumerosLinea ==
    ASSUME IInv, NEW t \in Hilos, PasoLinea(t)
    PROVE  Numeros'
  <1> SUFFICES ASSUME NEW f \in Descriptores PROVE NumeroBien(f)'
    BY DEF Numeros, NumeroBien
  <1>0. TypeOK /\ NumeroBien(f) /\ \A g \in Descriptores : NumeroBien(g)
    BY DEF IInv, Numeros, NumeroBien
  <1>1. \A h \in Hilos : con'[h] \in {con[h], Nulo}
    BY MarcoLinea
  <1>2. CASE AtenderPlanificador(t)
    <2>1. UNCHANGED <<fd, tipo, enchufe, epoll>>
      BY <1>2 DEF AtenderPlanificador, TomarPedido, TomarLiberacion, LiberacionVacia,
                  contexto, nucleo
    <2>2. QED
      BY <1>0, <1>1, <2>1, NumeroIgual
  <1>3. CASE Registrar(t)
    <2> DEFINE c == Head(lista[t])
    <2>1. /\ c \in Contextos /\ pc[t] = "pedir" /\ tipo[c] = "sin_crear"
          /\ tipo' = [tipo EXCEPT ![c] = "saliente"] /\ CrearSocket(c)
      BY <1>3, TipoLinea
    <2>2. epoll' = epoll
      BY <1>3 DEF Registrar
    <2> HIDE DEF c
    <2>3. epoll[f].con # c /\ enchufe[f] # c /\ epoll[f].con \in Contextos \cup {Nulo}
          /\ enchufe[f] \in Contextos \cup {Nulo} /\ c # Nulo
      BY <1>0, <2>1, NuloAssumption DEF NumeroBien, TypeOK
    <2>4. tipo'[c] = "saliente" /\ \A x \in Contextos : x # c => tipo'[x] = tipo[x]
      BY <1>0, <2>1 DEF TypeOK
    <2>5. CASE UNCHANGED <<fd, enchufe, tcp>>
      BY <1>0, <1>1, <2>2, <2>3, <2>4, <2>5 DEF NumeroBien
    <2>6. ASSUME NEW n \in Descriptores,
                 fd' = [fd EXCEPT ![c] = n], enchufe' = [enchufe EXCEPT ![n] = c]
          PROVE  NumeroBien(f)'
      <3>1. fd'[c] = n /\ \A x \in Contextos : x # c => fd'[x] = fd[x]
        BY <1>0, <2>1, <2>6 DEF TypeOK
      <3>2. IF f = n THEN enchufe'[f] = c ELSE enchufe'[f] = enchufe[f]
        BY <1>0, <2>6 DEF TypeOK
      <3>3. QED
        BY <1>0, <1>1, <2>2, <2>3, <2>4, <3>1, <3>2 DEF NumeroBien
    <2>7. QED
      BY <1>0, <2>1, <2>5, <2>6, SocketCreado DEF IInv
  <1>4. CASE Armar(t)
    <2>1. UNCHANGED <<fd, tipo, enchufe>> /\ pc[t] = "armar"
      BY <1>4 DEF Armar, contexto
    <2>2. CASE epoll'[f] = epoll[f]
      BY <1>0, <1>1, <2>1, <2>2, NumeroIgual
    <2>3. CASE epoll'[f] # epoll[f]
      <3>1. lista[t] \in Seq(Contextos)
        BY <1>0 DEF TypeOK
      <3>2. PICK c \in Contextos :
               c \in ToSet(lista[t]) /\ fd[c] = f /\ epoll'[f] = [con |-> c, ev |-> "OUT"]
        BY <1>4, <2>3, <3>1, ElPrimero DEF Armar
      <3>3. SinManos(c)
        BY <2>1, <3>2 DEF IInv, EnCreacion
      <3>4. c # Nulo /\ tipo[c] # "sin_crear"
        BY <3>2, NuloAssumption, CuantosNumeros DEF IInv, SinNumero, Descriptores
      <3>5. QED
        BY <1>0, <1>1, <2>1, <3>2, <3>3, <3>4 DEF NumeroBien, SinManos
    <2>4. QED
      BY <2>2, <2>3
  <1>5. CASE Cortar(t)
    <2>1. PICK n : CerrarFd(n)
      BY <1>5 DEF Cortar
    <2>2. UNCHANGED <<fd, tipo>>
      BY <1>5 DEF Cortar, contexto
    <2>3. enchufe'[f] \in {enchufe[f], Nulo} /\ epoll'[f] \in {epoll[f], NoArmado}
      BY <1>0, <2>1, EfectoCerrar
    <2>4. QED
      BY <1>0, <1>1, <2>2, <2>3, NumeroIgual
  <1>6. QED
    BY <1>2, <1>3, <1>4, <1>5 DEF PasoLinea

\* Handling a connection keeps the numbers in order: a registration that is
\* used up, renewed or taken over names a context no thread has.
LEMMA NumerosConexion ==
    ASSUME IInv, NEW t \in Hilos, PasoConexion(t)
    PROVE  Numeros'
  <1> USE DEF Ir, Volver
  <1> SUFFICES ASSUME NEW f \in Descriptores PROVE NumeroBien(f)'
    BY DEF Numeros, NumeroBien
  <1>0. /\ TypeOK /\ NumeroBien(f) /\ \A g \in Descriptores : NumeroBien(g)
        /\ UnHiloPorConexion
        /\ pc[t] \in EnConexion =>
              con[t] \in Contextos /\ con[t] # Nulo /\ tipo[con[t]] # "sin_crear"
    <2>1. TypeOK /\ Numeros /\ UnHiloPorConexion /\ ConEnUso
      BY DEF IInv
    <2>2. \A g \in Descriptores : NumeroBien(g)
      BY <2>1 DEF Numeros, NumeroBien
    <2>3. con[t] \in Contextos \cup {Nulo}
      BY <2>1 DEF TypeOK
    <2>4. QED
      BY <2>1, <2>2, <2>3 DEF ConEnUso
  <1>1. CASE Salida(t)
    <2>1. tipo' = [tipo EXCEPT ![con[t]] = "agente"] \/ tipo' = tipo
      BY <1>1 DEF Salida
    <2>2. UNCHANGED <<con, fd, enchufe, epoll>> /\ con[t] \in Contextos
      BY <1>0, <1>1 DEF Salida, planif, nucleo, EnConexion
    <2>3. QED
      BY <1>0, <2>1, <2>2 DEF TypeOK, NumeroBien
  <1>2. CASE Leer(t) \/ Mirar(t) \/ Marcar(t) \/ Avisar(t) \/ Purgar(t)
    <2>1. UNCHANGED <<con, fd, tipo, enchufe, epoll>>
      BY <1>2 DEF Leer, Mirar, Marcar, Avisar, Purgar, contexto, nucleo
    <2>2. QED
      BY <1>0, <2>1, NumeroIgual
  <1>3. CASE Rearmar(t)
    <2> DEFINE c == con[t]
    <2>1. /\ UNCHANGED <<fd, tipo, enchufe>> /\ con' = [con EXCEPT ![t] = Nulo]
          /\ c \in Contextos /\ c # Nulo /\ tipo[c] \notin {"sin_crear", "libre"}
          /\ \A h \in Hilos \ {t} : con[h] # c
      BY <1>0, <1>3 DEF Rearmar, contexto, EnConexion, UnHiloPorConexion
    <2>2. \A h \in Hilos : con'[h] \in {con[h], Nulo} /\ con'[h] # c
      BY <1>0, <2>1 DEF TypeOK
    <2>3. CASE EnchufeDe(c) # Nulo /\ epoll[fd[c]] # NoArmado /\ f = fd[c]
      <3>1. epoll'[f] = [con |-> c, ev |-> "IN"]
        BY <1>0, <1>3, <2>3 DEF Rearmar, TypeOK
      <3>2. QED
        BY <1>0, <2>1, <2>2, <2>3, <3>1 DEF NumeroBien
    <2>4. CASE ~ (EnchufeDe(c) # Nulo /\ epoll[fd[c]] # NoArmado /\ f = fd[c])
      <3>1. epoll'[f] = epoll[f]
        BY <1>0, <1>3, <2>4 DEF Rearmar, TypeOK
      <3>2. QED
        BY <1>0, <2>1, <2>2, <3>1, NumeroIgual
    <2>5. QED
      BY <2>3, <2>4
  <1>4. CASE Cerrar(t)
    <2>1. /\ tipo' = [tipo EXCEPT ![con[t]] = "libre"] /\ CerrarFd(fd[con[t]])
          /\ UNCHANGED fd /\ con[t] \in Contextos /\ tipo[con[t]] # "sin_crear"
          /\ con' = [con EXCEPT ![t] = Nulo]
      BY <1>0, <1>4 DEF Cerrar, EnConexion
    <2>2. enchufe'[f] \in {enchufe[f], Nulo} /\ epoll'[f] \in {epoll[f], NoArmado}
      BY <1>0, <2>1, EfectoCerrar
    <2>3. \A h \in Hilos : con'[h] \in {con[h], Nulo}
      BY <1>0, <2>1 DEF TypeOK
    <2>4. QED
      BY <1>0, <2>1, <2>2, <2>3 DEF NumeroBien, NoArmado, TypeOK
  <1>5. CASE \E g \in Descriptores : Evento(t, g)
    <2>1. PICK g \in Descriptores : Evento(t, g)
      BY <1>5
    <2>2. /\ epoll[g].ev # "no" /\ epoll' = [epoll EXCEPT ![g].ev = "no"]
          /\ UNCHANGED <<fd, tipo, enchufe>> /\ con' = [con EXCEPT ![t] = epoll[g].con]
      BY <2>1 DEF Evento, Listo, Desarmar, contexto
    <2>3. NumeroBien(g) /\ epoll[g].con # Nulo /\ fd[epoll[g].con] = g
      BY <1>0, <2>2 DEF NumeroBien
    <2>4. CASE f = g
      <3>1. epoll'[f].con = epoll[f].con /\ epoll'[f].ev = "no"
        BY <1>0, <2>2, <2>4 DEF TypeOK
      <3>2. QED
        BY <1>0, <2>2, <3>1 DEF NumeroBien
    <2>5. CASE f # g
      <3>1. epoll'[f] = epoll[f]
        BY <1>0, <2>2, <2>5 DEF TypeOK
      <3>2. epoll[f].ev # "no" => epoll[f].con # epoll[g].con
        BY <1>0, <2>3, <2>5 DEF NumeroBien
      <3>3. \A h \in Hilos : con'[h] \in {con[h], epoll[g].con}
        BY <1>0, <2>2 DEF TypeOK
      <3>4. QED
        BY <1>0, <2>2, <3>1, <3>2, <3>3 DEF NumeroBien
    <2>6. QED
      BY <2>4, <2>5
  <1>6. CASE \E n \in Vecinos : FinDeVecino(t, n)
    <2>1. UNCHANGED <<con, fd, tipo, enchufe, epoll>>
      BY <1>6 DEF FinDeVecino, contexto, nucleo, hilo
    <2>2. QED
      BY <1>0, <2>1, NumeroIgual
  <1>7. QED
    BY <1>1, <1>2, <1>3, <1>4, <1>5, <1>6 DEF PasoConexion

\* Every step keeps the numbers in order.
LEMMA NumerosSiguen ==
    ASSUME IInv, [Next]_vars
    PROVE  Numeros'
  <1>1. CASE PasoExterno
    BY <1>1, MarcoExterno DEF IInv, Numeros
  <1>2. CASE UNCHANGED vars
    BY <1>2 DEF IInv, Numeros, vars, contexto, nucleo, hilo
  <1>3. QED
    BY <1>1, <1>2, NumerosLinea, NumerosConexion, Casos

\* Every step gives numbers only to contexts it creates.
LEMMA SinNumeroSigue ==
    ASSUME IInv, [Next]_vars
    PROVE  SinNumero'
  <1>0. TypeOK /\ Numeros /\ SinNumero
    BY DEF IInv
  <1>1. CASE PasoExterno
    BY <1>0, <1>1, MarcoExterno DEF SinNumero
  <1>2. ASSUME NEW t \in Hilos, PasoLinea(t) PROVE SinNumero'
    <2>1. CASE UNCHANGED <<tipo, fd>>
      BY <1>0, <2>1 DEF SinNumero
    <2>2. CASE Registrar(t)
      <3>1. PICK c \in Contextos :
               /\ tipo[c] = "sin_crear" /\ CrearSocket(c)
               /\ tipo' = [tipo EXCEPT ![c] = "saliente"]
        BY <1>2, <2>2, TipoLinea
      <3>2. tipo'[c] = "saliente" /\ \A x \in Contextos : x # c => tipo'[x] = tipo[x]
        BY <1>0, <3>1 DEF TypeOK
      <3>3. fd' = fd \/ \E n : fd' = [fd EXCEPT ![c] = n]
        BY <3>1 DEF CrearSocket
      <3>4. \A x \in Contextos : x # c => fd'[x] = fd[x]
        BY <1>0, <3>3 DEF TypeOK
      <3>5. QED
        BY <1>0, <3>2, <3>4 DEF SinNumero
    <2>3. QED
      BY <1>2, <2>1, <2>2, TipoLinea
  <1>3. ASSUME NEW t \in Hilos, PasoConexion(t) PROVE SinNumero'
    BY <1>0, <1>3, MarcoHilo, MarcoDatos DEF SinNumero
  <1>4. CASE UNCHANGED vars
    BY <1>0, <1>4 DEF SinNumero, vars, contexto
  <1>5. QED
    BY <1>1, <1>2, <1>3, <1>4, Casos

-----------------------------------------------------------------------------
(* One thread per connection *)

\* Every step keeps threads apart.
LEMMA UnHiloSigue ==
    ASSUME IInv, [Next]_vars
    PROVE  UnHiloPorConexion'
  <1>0. TypeOK /\ UnHiloPorConexion /\ ConEnUso /\ Numeros
    BY DEF IInv
  <1>1. CASE PasoExterno
    BY <1>0, <1>1, MarcoExterno DEF UnHiloPorConexion
  <1>2. ASSUME NEW t \in Hilos, PasoLinea(t) PROVE UnHiloPorConexion'
    <2>1. \A h \in Hilos : con'[h] \in {con[h], Nulo} /\ con[h] \in Contextos \cup {Nulo}
      BY <1>0, <1>2, MarcoLinea DEF TypeOK
    <2>2. \A c \in Contextos : tipo[c] # "libre" => tipo'[c] # "libre"
      BY ZenonT(40), <1>0, <1>2, TipoLinea DEF TypeOK
    <2>3. QED
      BY <1>0, <2>1, <2>2 DEF UnHiloPorConexion
  <1>3. ASSUME NEW t \in Hilos, PasoConexion(t) PROVE UnHiloPorConexion'
    <2>1. CASE con'[t] \in {con[t], Nulo} /\ tipo' = tipo
      <3>1. \A h \in Hilos : con'[h] \in {con[h], Nulo}
        BY <1>3, <2>1, MarcoHilo
      <3>2. QED
        BY <1>0, <2>1, <3>1 DEF UnHiloPorConexion
    <2>2. CASE Salida(t)
      <3>1. con' = con /\ (tipo' = [tipo EXCEPT ![con[t]] = "agente"] \/ tipo' = tipo)
        BY <2>2 DEF Salida
      <3>2. QED
        BY <1>0, <3>1 DEF UnHiloPorConexion, TypeOK
    <2>3. CASE Cerrar(t)
      <3>1. con' = [con EXCEPT ![t] = Nulo] /\ tipo' = [tipo EXCEPT ![con[t]] = "libre"]
        BY <2>3 DEF Cerrar, Volver
      <3>2. con[t] # Nulo
        BY <1>0, <2>3 DEF Cerrar, ConEnUso, EnConexion
      <3>3. QED
        BY <1>0, <3>1, <3>2 DEF UnHiloPorConexion, TypeOK
    <2>4. CASE \E f \in Descriptores : Evento(t, f)
      <3>1. PICK f \in Descriptores : Evento(t, f)
        BY <2>4
      <3>2. /\ epoll[f].ev # "no" /\ tipo' = tipo
            /\ con' = [con EXCEPT ![t] = epoll[f].con]
        BY <3>1 DEF Evento, Listo, contexto
      <3>3. tipo[epoll[f].con] # "libre" /\ \A h \in Hilos : con[h] # epoll[f].con
        BY <1>0, <3>2 DEF Numeros
      <3>4. QED
        BY <1>0, <3>2, <3>3 DEF UnHiloPorConexion, TypeOK
    <2>5. CASE ~ (Salida(t) \/ Cerrar(t) \/ \E f \in Descriptores : Evento(t, f))
      <3>1. tipo' = tipo
        BY <1>3, <2>5 DEF PasoConexion, Leer, Mirar, Marcar, Avisar, Purgar, Rearmar,
                          FinDeVecino, contexto
      <3>2. con' = con \/ con' = [con EXCEPT ![t] = Nulo]
        BY <1>3, <2>5 DEF PasoConexion, Leer, Mirar, Marcar, Avisar, Purgar, Rearmar,
                          FinDeVecino, Volver, hilo
      <3>3. QED
        BY <1>0, <2>1, <3>1, <3>2 DEF TypeOK
    <2>6. QED
      BY <2>2, <2>3, <2>4, <2>5
  <1>4. CASE UNCHANGED vars
    BY <1>0, <1>4 DEF UnHiloPorConexion, vars, contexto, hilo
  <1>5. QED
    BY <1>1, <1>2, <1>3, <1>4, Casos

-----------------------------------------------------------------------------
(* Whose a job is *)

\* A line the planner writes comes after the others.
LEMMA LineaEscrita ==
    ASSUME TypeOK, NEW l, lineas' = Append(lineas, l)
    PROVE  /\ Len(lineas) + 1 \in DOMAIN lineas' /\ lineas'[Len(lineas) + 1] = l
           /\ DOMAIN lineas' = DOMAIN lineas \cup {Len(lineas) + 1}
           /\ \A i \in DOMAIN lineas : /\ i \in Nat \ {0} /\ i < Len(lineas) + 1
                                       /\ lineas'[i] = lineas[i]
           /\ Len(lineas) \in Nat
  BY DEF TypeOK

\* A job stays with the planner when nothing is written or read.
LEMMA SuyoIgual ==
    ASSUME UNCHANGED lineas, NEW j, NEW n, estado[j] # "libre" => estado'[j] # "libre",
           Suyo(j, n)
    PROVE  Suyo(j, n)'
  BY DEF Suyo

\* A job stays with the planner, or its JOB_RELEASE is written last.
LEMMA SuyoAlEscribir ==
    ASSUME TypeOK, NEW k \in Trabajos, Pedir(k) \/ Soltar(k),
           NEW j \in Trabajos, NEW n \in DOMAIN lineas \cup {0}, Suyo(j, n)
    PROVE  Suyo(j, n)'
  <1>1. \E l : lineas' = Append(lineas, l)
    BY DEF Pedir, Soltar
  <1>2. \A i \in DOMAIN lineas : i \in DOMAIN lineas' /\ lineas'[i] = lineas[i]
    BY <1>1, LineaEscrita
  <1>3. CASE \E i \in DOMAIN lineas : /\ i > n /\ lineas[i].orden = "JOB_RELEASE"
                                      /\ lineas[i].job = j
    BY <1>2, <1>3 DEF Suyo
  <1>4. CASE estado[j] # "libre"
    <2>1. CASE Soltar(k) /\ j = k
      <3>1. lineas' = Append(lineas, Linea("JOB_RELEASE", j, intento[j]))
        BY <2>1 DEF Soltar
      <3>2. /\ Len(lineas) + 1 \in DOMAIN lineas'
            /\ lineas'[Len(lineas) + 1] = Linea("JOB_RELEASE", j, intento[j])
            /\ Len(lineas) + 1 > n
        BY <3>1, LineaEscrita
      <3>3. QED
        BY <3>2 DEF Suyo, Linea
    <2>2. CASE ~ (Soltar(k) /\ j = k)
      <3>1. estado'[j] # "libre"
        BY <1>4, <2>2 DEF Pedir, Soltar, TypeOK
      <3>2. QED
        BY <3>1 DEF Suyo
    <2>3. QED
      BY <2>1, <2>2
  <1>5. QED
    BY <1>3, <1>4 DEF Suyo

\* Reading a line moves the JOB_RELEASE one place forward.
LEMMA SuyoAlLeer ==
    ASSUME TypeOK, NEW t, NEW o, LeerLinea(t, o), UNCHANGED estado,
           NEW j, NEW n \in Nat, Suyo(j, n),
           n # 0 \/ o # "JOB_RELEASE" \/ lineas[1].job # j
    PROVE  Suyo(j, IF n = 0 THEN 0 ELSE n - 1)'
  <1> DEFINE m == IF n = 0 THEN 0 ELSE n - 1
  <1>1. CASE estado[j] # "libre"
    BY <1>1 DEF Suyo
  <1>2. CASE \E i \in DOMAIN lineas : /\ i > n /\ lineas[i].orden = "JOB_RELEASE"
                                      /\ lineas[i].job = j
    <2>1. PICK i \in DOMAIN lineas : /\ i > n /\ lineas[i].orden = "JOB_RELEASE"
                                     /\ lineas[i].job = j
      BY <1>2
    <2>2. i \in Nat \ {0} /\ i # 1
      BY <2>1, LineaLeida
    <2>3. i - 1 \in DOMAIN lineas' /\ (i - 1) + 1 = i
      BY <2>2, LineaLeida
    <2>4. lineas'[i - 1] = lineas[i] /\ i - 1 > m
      BY <2>1, <2>2, <2>3, LineaLeida
    <2>5. QED
      BY <2>1, <2>3, <2>4 DEF Suyo
  <1>3. QED
    BY <1>1, <1>2 DEF Suyo

-----------------------------------------------------------------------------
(* Contexts come in the order of the attempts *)

\* Every step keeps entries with the last attempt of a job the planner has.
LEMMA CreacionSigue ==
    ASSUME IInv, [Next]_vars
    PROVE  Creacion'
  <1>0. TypeOK /\ Creacion /\ UnaLinea
    BY DEF IInv
  <1>a. \A c \in Contextos : Trabajo(c) \in Trabajos /\ c[2] \in Nat
    BY PartesDeContexto
  <1>1. ASSUME NEW k \in Trabajos, Pedir(k) \/ Soltar(k) PROVE Creacion'
    <2>1. UNCHANGED <<entrada, tipo>>
      BY <1>1 DEF Pedir, Soltar, contexto
    <2>2. \A j \in Trabajos : intento'[j] = intento[j] \/ (j = k /\ Pedir(k))
      BY <1>0, <1>1 DEF Pedir, Soltar, TypeOK
    <2>3. \A j \in Trabajos : intento[j] <= intento'[j] /\ intento'[j] <= Intentos[j]
                              /\ intento[j] \in Nat /\ intento'[j] \in Nat
      <3>1. \A j \in Trabajos : /\ intento[j] \in Nat /\ Intentos[j] \in Nat
                                /\ intento[j] <= Intentos[j]
        BY <1>0, PideAssumption DEF TypeOK, Creacion
      <3>2. CASE Pedir(k)
        <4>1. intento[k] < Intentos[k] /\ intento' = [intento EXCEPT ![k] = @ + 1]
          BY <3>2 DEF Pedir
        <4>2. QED
          BY <1>0, <3>1, <4>1 DEF TypeOK
      <3>3. CASE Soltar(k)
        <4>1. UNCHANGED intento
          BY <3>3 DEF Soltar
        <4>2. QED
          BY <3>1, <4>1
      <3>4. QED
        BY <1>1, <3>2, <3>3
    <2>4. Pedir(k) => ~ Suyo(k, 0)
      BY DEF Pedir, SinLineasDe, Suyo
    <2>5. ASSUME NEW c \in Contextos, entrada[c] # "no"
          PROVE  c[2] = intento'[Trabajo(c)] /\ Suyo(Trabajo(c), 0)'
      BY <1>0, <1>1, <1>a, <2>2, <2>4, <2>5, SuyoAlEscribir DEF Creacion
    <2>6. ASSUME NEW c \in Contextos, c[2] > intento'[Trabajo(c)]
          PROVE  tipo[c] = "sin_crear"
      <3>1. c[2] > intento[Trabajo(c)]
        BY <1>a, <2>3, <2>6
      <3>2. QED
        BY <1>0, <3>1 DEF Creacion
    <2>7. QED
      BY <1>0, <2>1, <2>3, <2>5, <2>6 DEF Creacion
  <1>2. ASSUME \/ \E c \in Contextos : ProvCierra(c)
               \/ \E c \in Contextos, j \in Trabajos : ProvConcede(c, j) \/ ProvDeniega(c, j)
               \/ \E n \in Caidas : ProvCae(n)
        PROVE  Creacion'
    <2>1. UNCHANGED <<estado, intento, lineas, entrada, tipo>>
      BY <1>2 DEF ProvCierra, ProvConcede, ProvDeniega, ProvCae, planif, contexto
    <2>2. QED
      BY <1>0, <2>1 DEF Creacion, Suyo
  <1>3. ASSUME NEW t \in Hilos, PasoConexion(t) PROVE Creacion'
    <2>1. ASSUME NEW c \in Contextos, Suyo(Trabajo(c), 0) PROVE Suyo(Trabajo(c), 0)'
      BY <1>3, <1>a, <2>1, SuyoIgual, MarcoHilo, MarcoDatos
    <2>2. UNCHANGED intento
      BY <1>3, MarcoHilo
    <2>3. QED
      BY <1>0, <1>3, <2>1, <2>2, MarcoDatos DEF Creacion
  <1>4. ASSUME NEW t \in Hilos, TomarPedido(t) \/ LiberacionVacia(t) PROVE Creacion'
    <2>1. /\ UNCHANGED <<estado, intento, entrada, tipo>>
          /\ LeerLinea(t, "JOB_REQUEST") \/ LeerLinea(t, "JOB_RELEASE")
      BY <1>4 DEF TomarPedido, LiberacionVacia, contexto
    <2>2. ASSUME NEW c \in Contextos, entrada[c] # "no"
          PROVE  Suyo(Trabajo(c), 0)'
      <3>1. Suyo(Trabajo(c), 0)
        BY <1>0, <2>2 DEF Creacion
      <3>2. CASE TomarPedido(t)
        BY <1>0, <2>1, <3>1, <3>2, SuyoAlLeer DEF TomarPedido
      <3>3. CASE LiberacionVacia(t)
        <4>1. LeerLinea(t, "JOB_RELEASE") /\ EntradasDe(Head(lineas).job) = {}
          BY <3>3 DEF LiberacionVacia
        <4>2. lineas[1].job # Trabajo(c)
          BY <1>0, <2>2, <4>1, LineaLeida DEF EntradasDe
        <4>3. QED
          BY <1>0, <2>1, <3>1, <4>1, <4>2, SuyoAlLeer
      <3>4. QED
        BY <1>4, <3>2, <3>3
    <2>3. QED
      BY <1>0, <2>1, <2>2 DEF Creacion
  <1>5. ASSUME NEW t \in Hilos, TomarLiberacion(t) PROVE Creacion'
    <2>1. /\ UNCHANGED <<estado, intento, tipo>> /\ LeerLinea(t, "JOB_RELEASE")
          /\ entrada' = [c \in Contextos |-> IF c \in EntradasDe(Head(lineas).job)
                                             THEN "no" ELSE entrada[c]]
      BY <1>5 DEF TomarLiberacion, contexto
    <2>2. ASSUME NEW c \in Contextos, entrada'[c] # "no"
          PROVE  entrada[c] # "no" /\ Suyo(Trabajo(c), 0)'
      <3>1. entrada[c] # "no" /\ Trabajo(c) # Head(lineas).job
        BY <2>1, <2>2 DEF EntradasDe
      <3>2. lineas[1].job # Trabajo(c) /\ Suyo(Trabajo(c), 0)
        BY <1>0, <2>1, <3>1, LineaLeida DEF Creacion
      <3>3. QED
        BY <1>0, <2>1, <3>1, <3>2, SuyoAlLeer
    <2>3. QED
      BY <1>0, <2>1, <2>2 DEF Creacion
  <1>6. ASSUME NEW t \in Hilos, Registrar(t) PROVE Creacion'
    <2> DEFINE x == Head(lista[t])
    <2>1. /\ x \in Contextos /\ tipo[x] = "sin_crear" /\ pc[t] = "pedir"
          /\ tipo' = [tipo EXCEPT ![x] = "saliente"]
      BY <1>6, TipoLinea DEF PasoLinea
    <2>2. /\ UNCHANGED <<estado, intento, lineas>>
          /\ entrada' = [entrada EXCEPT ![x] = "pedida"]
      BY <1>6 DEF Registrar, planif
    <2>3. x[2] = intento[Trabajo(x)] /\ Suyo(Trabajo(x), 0)
      <3>1. x \in ToSet(lista[t])
        <4>1. lista[t] \in Seq(Contextos) /\ lista[t] # <<>>
          BY <1>0, <2>1 DEF UnaLinea, EnLinea, TypeOK
        <4>2. QED
          BY <4>1, RestoDeLineas DEF ToSet
      <3>2. QED
        BY <2>1, <3>1 DEF IInv, EnCreacion
    <2>4. \A c \in Contextos : Suyo(Trabajo(c), 0) => Suyo(Trabajo(c), 0)'
      BY <2>2 DEF Suyo
    <2>5. ASSUME NEW c \in Contextos
          PROVE  /\ c[2] > intento[Trabajo(c)] => tipo'[c] = "sin_crear"
                 /\ tipo'[c] = "sin_crear" => entrada'[c] = "no"
                 /\ entrada'[c] # "no" => c[2] = intento[Trabajo(c)] /\ Suyo(Trabajo(c), 0)
      <3>1. CASE c = x
        <4>1. x[2] \in Nat /\ ~ (x[2] > intento[Trabajo(x)])
          BY <1>a, <2>1, <2>3
        <4>2. tipo'[x] = "saliente"
          BY <1>0, <2>1 DEF TypeOK
        <4>3. QED
          BY <2>3, <3>1, <4>1, <4>2
      <3>2. CASE c # x
        <4>1. tipo'[c] = tipo[c] /\ entrada'[c] = entrada[c]
          BY <1>0, <2>1, <2>2, <3>2 DEF TypeOK
        <4>2. QED
          BY <1>0, <4>1 DEF Creacion
      <3>3. QED
        BY <3>1, <3>2
    <2>6. QED
      BY <1>0, <2>2, <2>4, <2>5 DEF Creacion
  <1>7. ASSUME NEW t \in Hilos, Armar(t) \/ Cortar(t) PROVE Creacion'
    <2>1. UNCHANGED <<estado, intento, lineas, entrada, tipo>>
      BY <1>7 DEF Armar, Cortar, planif, contexto
    <2>2. QED
      BY <1>0, <2>1 DEF Creacion, Suyo
  <1>8. CASE UNCHANGED vars
    BY <1>0, <1>8 DEF Creacion, Suyo, vars, planif, contexto
  <1>9. QED
    BY <1>1, <1>2, <1>3, <1>4, <1>5, <1>6, <1>7, <1>8, Casos
    DEF PasoExterno, PasoLinea, AtenderPlanificador

-----------------------------------------------------------------------------
(* Requests that were not read *)

\* What a request asks for stays uncreated.
LEMMA NuevoIgual ==
    ASSUME NEW j \in Trabajos, Nuevo(j), intento'[j] = intento[j],
           \A c \in Contextos : Trabajo(c) = j /\ tipo[c] = "sin_crear" => tipo'[c] = "sin_crear",
           \A t \in Hilos : trab'[t] = j /\ pc'[t] \in {"pedir", "armar"} =>
                               trab[t] = j /\ pc[t] \in {"pedir", "armar"}
    PROVE  Nuevo(j)'
  BY DEF Nuevo

\* The line i asks for job j, as PedidosNuevos has it.
PedidoBien(i, j) ==
    /\ lineas[i].intento = intento[j]
    /\ \A k \in DOMAIN lineas : lineas[k].orden = "JOB_REQUEST" /\ lineas[k].job = j => k = i
    /\ Nuevo(j)
    /\ Suyo(j, i)

\* PedidosNuevos, job by job.
LEMMA PedidosUnoAUno ==
    /\ TypeOK =>
          (PedidosNuevos <=>
              \A j \in Trabajos : \A i \in DOMAIN lineas :
                  lineas[i].orden = "JOB_REQUEST" /\ lineas[i].job = j => PedidoBien(i, j))
    /\ TypeOK' =>
          (PedidosNuevos' <=>
              \A j \in Trabajos : \A i \in DOMAIN lineas' :
                  lineas'[i].orden = "JOB_REQUEST" /\ lineas'[i].job = j => PedidoBien(i, j)')
  <1> DEFINE L == [orden : {"JOB_REQUEST", "JOB_RELEASE"}, job : Trabajos, intento : Nat]
  <1>0. ASSUME NEW s \in Seq(L), NEW i \in DOMAIN s PROVE s[i].job \in Trabajos
    <2>1. s[i] \in L
      BY <1>0, ElementOfSeq, LenProperties
    <2>2. QED
      BY <2>1
  <1>1. TypeOK => \A i \in DOMAIN lineas : lineas[i].job \in Trabajos
    BY <1>0 DEF TypeOK
  <1>2. TypeOK' => \A i \in DOMAIN lineas' : lineas'[i].job \in Trabajos
    BY <1>0 DEF TypeOK
  <1>3. TypeOK =>
          (PedidosNuevos <=>
              \A j \in Trabajos : \A i \in DOMAIN lineas :
                  lineas[i].orden = "JOB_REQUEST" /\ lineas[i].job = j => PedidoBien(i, j))
    BY <1>1 DEF PedidosNuevos, PedidoBien
  <1>4. TypeOK' =>
          (PedidosNuevos' <=>
              \A j \in Trabajos : \A i \in DOMAIN lineas' :
                  lineas'[i].orden = "JOB_REQUEST" /\ lineas'[i].job = j => PedidoBien(i, j)')
    BY <1>2 DEF PedidosNuevos, PedidoBien
  <1>5. QED
    BY <1>3, <1>4

\* A step that leaves the lines alone, and what they ask for.
LEMMA PedidosIguales ==
    ASSUME IInv, TypeOK', UNCHANGED <<lineas, intento>>,
           \A j \in Trabajos : Nuevo(j) => Nuevo(j)',
           \A j \in Trabajos : estado[j] # "libre" => estado'[j] # "libre"
    PROVE  PedidosNuevos'
  <1>1. ASSUME NEW j \in Trabajos, NEW i \in DOMAIN lineas, PedidoBien(i, j)
        PROVE  PedidoBien(i, j)'
    <2>1. Suyo(j, i)'
      BY <1>1, SuyoIgual DEF PedidoBien
    <2>2. QED
      BY <1>1, <2>1 DEF PedidoBien
  <1>2. QED
    BY <1>1, PedidosUnoAUno DEF IInv

\* A step that reads the first line and leaves what the others ask for.
LEMMA PedidosQueQuedan ==
    ASSUME IInv, TypeOK', NEW t, NEW o, LeerLinea(t, o), UNCHANGED <<estado, intento>>,
           \A j \in Trabajos : Nuevo(j) /\ (o = "JOB_REQUEST" => j # lineas[1].job) => Nuevo(j)'
    PROVE  PedidosNuevos'
  <1>0. TypeOK /\ PedidosNuevos
    BY DEF IInv
  <1>1. ASSUME NEW j \in Trabajos, NEW i \in DOMAIN lineas',
               lineas'[i].orden = "JOB_REQUEST", lineas'[i].job = j
        PROVE  PedidoBien(i, j)'
    <2>1. /\ i \in Nat \ {0} /\ i + 1 \in DOMAIN lineas /\ lineas'[i] = lineas[i + 1]
          /\ 1 \in DOMAIN lineas /\ lineas[1].orden = o
      BY <1>0, LineaLeida
    <2>2. PedidoBien(i + 1, j)
      BY <1>0, <1>1, <2>1, PedidosUnoAUno
    <2>3. o = "JOB_REQUEST" => j # lineas[1].job
      BY <2>1, <2>2 DEF PedidoBien
    <2>4. Nuevo(j)'
      BY <2>2, <2>3 DEF PedidoBien
    <2>5. Suyo(j, i)'
      <3>1. i + 1 # 0 /\ (i + 1) - 1 = i /\ i + 1 \in Nat
        BY <2>1
      <3>2. Suyo(j, IF i + 1 = 0 THEN 0 ELSE (i + 1) - 1)'
        <4>1. Suyo(j, i + 1)
          BY <2>2 DEF PedidoBien
        <4>2. QED
          BY <1>0, <3>1, <4>1, SuyoAlLeer
      <3>3. QED
        BY <3>1, <3>2
    <2>6. ASSUME NEW k \in DOMAIN lineas', lineas'[k].orden = "JOB_REQUEST", lineas'[k].job = j
          PROVE  k = i
      <3>1. k \in Nat /\ k + 1 \in DOMAIN lineas /\ lineas'[k] = lineas[k + 1]
        BY <1>0, LineaLeida
      <3>2. k + 1 = i + 1
        BY <2>2, <2>6, <3>1 DEF PedidoBien
      <3>3. QED
        BY <2>1, <3>1, <3>2
    <2>7. lineas'[i].intento = intento'[j]
      BY <2>1, <2>2 DEF PedidoBien
    <2>8. QED
      BY <2>4, <2>5, <2>6, <2>7 DEF PedidoBien
  <1>2. QED
    BY <1>1, PedidosUnoAUno

\* A line the planner writes is in order and leaves the others so.
LEMMA PedidosAlEscribir ==
    ASSUME IInv, TypeOK', NEW k \in Trabajos, Pedir(k) \/ Soltar(k)
    PROVE  PedidosNuevos'
  <1>0. TypeOK /\ PedidosNuevos /\ Creacion
    BY DEF IInv
  <1>1. PICK l : /\ lineas' = Append(lineas, l)
                 /\ \/ Pedir(k) /\ l = Linea("JOB_REQUEST", k, intento'[k])
                    \/ Soltar(k) /\ l = Linea("JOB_RELEASE", k, intento[k])
    BY DEF Pedir, Soltar
  <1>2. PICK n : n = Len(lineas) + 1
    OBVIOUS
  <1>3. /\ n \in DOMAIN lineas' /\ lineas'[n] = l /\ DOMAIN lineas' = DOMAIN lineas \cup {n}
        /\ \A i \in DOMAIN lineas : i \in Nat \ {0} /\ i < n /\ lineas'[i] = lineas[i]
    BY <1>0, <1>1, <1>2, LineaEscrita
  <1>4. /\ UNCHANGED <<pc, trab, tipo>>
        /\ \A j \in Trabajos : j # k \/ Soltar(k) => intento'[j] = intento[j]
        /\ Pedir(k) => /\ intento'[k] = intento[k] + 1 /\ estado'[k] = "pedido"
                       /\ SinLineasDe(k)
    BY <1>0, <1>1 DEF Pedir, Soltar, TypeOK, contexto, hilo
  <1>5. \A i \in DOMAIN lineas : Pedir(k) => lineas[i].job # k
    BY <1>4 DEF SinLineasDe
  <1>6. ASSUME NEW j \in Trabajos, NEW i \in DOMAIN lineas,
               lineas[i].orden = "JOB_REQUEST", lineas[i].job = j
        PROVE  PedidoBien(i, j)'
    <2>1. PedidoBien(i, j)
      BY <1>0, <1>6, PedidosUnoAUno
    <2>2. j # k \/ Soltar(k)
      BY <1>5, <1>6
    <2>3. intento'[j] = intento[j]
      BY <1>4, <2>2
    <2>4. Nuevo(j)'
      BY <1>4, <2>1, <2>3, NuevoIgual DEF PedidoBien
    <2>5. Suyo(j, i)'
      BY <1>0, <2>1, SuyoAlEscribir DEF PedidoBien
    <2>6. l.orden = "JOB_REQUEST" => l.job # j
      BY <1>1, <2>2 DEF Linea, Pedir, Soltar
    <2>7. QED
      BY <1>3, <2>1, <2>3, <2>4, <2>5, <2>6 DEF PedidoBien
  <1>7. ASSUME NEW j \in Trabajos, l.orden = "JOB_REQUEST", l.job = j
        PROVE  PedidoBien(n, j)'
    <2>1. Pedir(k) /\ j = k /\ l.intento = intento'[k]
      BY <1>1, <1>7 DEF Linea
    <2>2. intento[k] \in Nat /\ intento'[k] = intento[k] + 1
      BY <1>0, <1>4, <2>1 DEF TypeOK
    <2>3. ASSUME NEW c \in Contextos, Trabajo(c) = k, c[2] = intento'[k]
          PROVE  tipo[c] = "sin_crear"
      BY <1>0, <2>2, <2>3 DEF Creacion
    <2>4. \A t \in Hilos : trab[t] = k => pc[t] \notin {"pedir", "armar"}
      BY <1>4, <2>1 DEF SinLineasDe
    <2>5. Nuevo(k)'
      <3>1. intento'[k] >= 1
        BY <2>2
      <3>2. QED
        BY <1>4, <2>3, <2>4, <3>1 DEF Nuevo
    <2>6. Suyo(k, n)'
      BY <1>4, <2>1 DEF Suyo
    <2>7. QED
      BY <1>3, <1>5, <2>1, <2>5, <2>6 DEF PedidoBien
  <1>8. QED
    BY <1>3, <1>6, <1>7, PedidosUnoAUno

\* Every step keeps the unread requests in order.
LEMMA PedidosSiguen ==
    ASSUME IInv, [Next]_vars
    PROVE  PedidosNuevos'
  <1>0. TypeOK /\ TypeOK'
    BY Tipos DEF IInv
  <1>1. ASSUME \/ \E c \in Contextos : ProvCierra(c)
               \/ \E c \in Contextos, j \in Trabajos : ProvConcede(c, j) \/ ProvDeniega(c, j)
               \/ \E n \in Caidas : ProvCae(n)
        PROVE  PedidosNuevos'
    <2>1. UNCHANGED <<estado, intento, lineas, tipo, pc, trab>>
      BY <1>1 DEF ProvCierra, ProvConcede, ProvDeniega, ProvCae, planif, contexto, hilo
    <2>2. QED
      BY <1>0, <2>1, PedidosIguales DEF Nuevo
  <1>2. ASSUME NEW t \in Hilos, PasoConexion(t) PROVE PedidosNuevos'
    <2>1. UNCHANGED <<lineas, intento>>
      BY <1>2, MarcoHilo
    <2>2. ASSUME NEW j \in Trabajos, Nuevo(j) PROVE Nuevo(j)'
      <3>1. ASSUME NEW h \in Hilos, trab'[h] = j, pc'[h] \in {"pedir", "armar"}
            PROVE  trab[h] = j /\ pc[h] \in {"pedir", "armar"}
        BY <1>2, <3>1, MarcoHilo DEF EnLinea
      <3>2. \A c \in Contextos : tipo[c] = "sin_crear" => tipo'[c] = "sin_crear"
        BY <1>2, MarcoDatos
      <3>3. QED
        BY <2>1, <2>2, <3>1, <3>2, NuevoIgual
    <2>3. \A j \in Trabajos : estado[j] # "libre" => estado'[j] # "libre"
      BY <1>2, MarcoDatos
    <2>4. QED
      BY <1>0, <2>1, <2>2, <2>3, PedidosIguales
  <1>3. ASSUME NEW t \in Hilos, TomarPedido(t) PROVE PedidosNuevos'
    <2>1. /\ LeerLinea(t, "JOB_REQUEST") /\ UNCHANGED <<estado, intento, tipo>>
          /\ trab' = [trab EXCEPT ![t] = lineas[1].job]
          /\ pc' = [pc EXCEPT ![t] = "pedir"]
      BY <1>0, <1>3, LineaLeida DEF TomarPedido, contexto, Ir
    <2>2. ASSUME NEW j \in Trabajos, Nuevo(j), j # lineas[1].job PROVE Nuevo(j)'
      BY <1>0, <2>1, <2>2, NuevoIgual DEF TypeOK
    <2>3. QED
      BY <1>0, <2>1, <2>2, PedidosQueQuedan
  <1>4. ASSUME NEW t \in Hilos, TomarLiberacion(t) \/ LiberacionVacia(t)
        PROVE  PedidosNuevos'
    <2>1. /\ LeerLinea(t, "JOB_RELEASE") /\ UNCHANGED <<estado, intento, tipo>>
          /\ pc' = [pc EXCEPT ![t] = "cortar"] \/ pc' = pc
          /\ trab' = [trab EXCEPT ![t] = Head(lineas).job] \/ trab' = trab
      BY <1>4 DEF TomarLiberacion, LiberacionVacia, contexto, hilo, Ir
    <2>2. pc[t] = "libre"
      BY <2>1 DEF LeerLinea
    <2>3. ASSUME NEW j \in Trabajos, Nuevo(j) PROVE Nuevo(j)'
      BY <1>0, <2>1, <2>2, <2>3, NuevoIgual DEF TypeOK
    <2>4. QED
      BY <1>0, <2>1, <2>3, PedidosQueQuedan
  <1>5. ASSUME NEW t \in Hilos, Registrar(t) PROVE PedidosNuevos'
    <2> DEFINE x == Head(lista[t])
    <2>1. /\ x \in Contextos /\ pc[t] = "pedir"
          /\ tipo' = [tipo EXCEPT ![x] = "saliente"]
      BY <1>5, TipoLinea DEF PasoLinea
    <2>2. /\ UNCHANGED <<estado, intento, lineas, trab>>
          /\ \E m \in {"pedir", "armar"} : pc' = [pc EXCEPT ![t] = m]
      BY <1>5 DEF Registrar, planif, Ir
    <2>3. Trabajo(x) = trab[t]
      <3>1. lista[t] \in Seq(Contextos) /\ lista[t] # <<>>
        BY <2>1 DEF IInv, UnaLinea, EnLinea, TypeOK
      <3>2. x \in ToSet(lista[t])
        BY <3>1, RestoDeLineas DEF ToSet
      <3>3. QED
        BY <2>1, <3>2 DEF IInv, EnCreacion
    <2>4. ASSUME NEW j \in Trabajos, Nuevo(j) PROVE Nuevo(j)'
      <3>1. trab[t] # j
        BY <2>1, <2>4 DEF Nuevo
      <3>2. \A h \in Hilos : h # t => pc'[h] = pc[h]
        BY <1>0, <2>2 DEF TypeOK
      <3>3. \A c \in Contextos : Trabajo(c) = j => tipo'[c] = tipo[c]
        BY <1>0, <2>1, <2>3, <3>1 DEF TypeOK
      <3>4. QED
        BY <2>2, <2>4, <3>1, <3>2, <3>3, NuevoIgual
    <2>5. QED
      BY <1>0, <2>2, <2>4, PedidosIguales
  <1>6. ASSUME NEW t \in Hilos, Armar(t) \/ Cortar(t) PROVE PedidosNuevos'
    <2>1. /\ UNCHANGED <<estado, intento, lineas, tipo>>
          /\ \/ pc' = [pc EXCEPT ![t] = "libre"] /\ trab' = [trab EXCEPT ![t] = Nulo]
             \/ pc' = pc /\ trab' = trab
      BY <1>6 DEF Armar, Cortar, FinLinea, Volver, Ir, planif, contexto
    <2>2. ASSUME NEW j \in Trabajos, Nuevo(j) PROVE Nuevo(j)'
      BY <1>0, <2>1, <2>2, NuevoIgual DEF TypeOK
    <2>3. QED
      BY <1>0, <2>1, <2>2, PedidosIguales
  <1>7. CASE UNCHANGED vars
    <2>1. UNCHANGED <<estado, intento, lineas, tipo, pc, trab>>
      BY <1>7 DEF vars, planif, contexto, hilo
    <2>2. QED
      BY <1>0, <2>1, PedidosIguales DEF Nuevo
  <1>8. QED
    BY <1>0, <1>1, <1>2, <1>3, <1>4, <1>5, <1>6, <1>7, PedidosAlEscribir, Casos
    DEF PasoExterno, PasoLinea, AtenderPlanificador

-----------------------------------------------------------------------------
(* Contexts being created *)

\* EnCreacion for one thread, its job, and the contexts of its list.
CreacionBien(t, j) ==
    /\ Suyo(j, 0)
    /\ pc[t] = "pedir" => tipo[Head(lista[t])] = "sin_crear"
    /\ \A c \in ToSet(lista[t]) :
          Trabajo(c) = j /\ c[2] = intento[j] /\ SinManos(c)

\* EnCreacion, thread by thread.
LEMMA CreacionUnoAUno ==
    /\ EnCreacion <=>
          \A t \in Hilos : pc[t] \in {"pedir", "armar"} =>
              \E j \in Trabajos : trab[t] = j /\ CreacionBien(t, j)
    /\ EnCreacion' <=>
          \A t \in Hilos : pc'[t] \in {"pedir", "armar"} =>
              \E j \in Trabajos : trab'[t] = j /\ CreacionBien(t, j)'
  BY DEF EnCreacion, CreacionBien

\* A step in which no thread has a line.
LEMMA CreacionDeNadie ==
    ASSUME \A t \in Hilos : pc'[t] \notin {"pedir", "armar"}
    PROVE  EnCreacion'
  BY DEF EnCreacion

\* Every step leaves the contexts being created to their thread.
LEMMA CreacionEnSigue ==
    ASSUME IInv, [Next]_vars
    PROVE  EnCreacion'
  <1>0. TypeOK /\ UnaLinea /\ EnCreacion /\ Numeros /\ ConEnUso
    BY DEF IInv
  <1>a. \A t \in Hilos : lista[t] \in Seq(Contextos)
    BY <1>0 DEF TypeOK
  <1>b. \A t \in Hilos : ToSet(lista[t]) \subseteq Contextos
    BY <1>a, LenProperties DEF ToSet
  <1>1. ASSUME NEW k \in Trabajos, Pedir(k) \/ Soltar(k) PROVE EnCreacion'
    <2>1. /\ UNCHANGED <<pc, trab, lista, tipo, epoll, con>>
          /\ Pedir(k) => SinLineasDe(k)
          /\ \A j \in Trabajos : j # k \/ Soltar(k) => intento'[j] = intento[j]
      BY <1>0, <1>1 DEF Pedir, Soltar, TypeOK, contexto, nucleo, hilo
    <2>2. ASSUME NEW t \in Hilos, pc[t] \in {"pedir", "armar"},
                 NEW j \in Trabajos, trab[t] = j, CreacionBien(t, j)
          PROVE  CreacionBien(t, j)'
      <3>1. Suyo(j, 0)'
        BY <1>0, <1>1, <2>2, SuyoAlEscribir DEF CreacionBien
      <3>2. intento'[j] = intento[j]
        BY <1>1, <2>1, <2>2 DEF SinLineasDe
      <3>3. QED
        BY <2>1, <2>2, <3>1, <3>2 DEF CreacionBien, SinManos
    <2>3. QED
      BY <1>0, <2>1, <2>2, CreacionUnoAUno
  <1>2. ASSUME \/ \E c \in Contextos : ProvCierra(c)
               \/ \E c \in Contextos, j \in Trabajos : ProvConcede(c, j) \/ ProvDeniega(c, j)
               \/ \E n \in Caidas : ProvCae(n)
        PROVE  EnCreacion'
    <2>1. UNCHANGED <<estado, intento, lineas, pc, trab, lista, tipo, epoll, con>>
      BY <1>2 DEF ProvCierra, ProvConcede, ProvDeniega, ProvCae, planif, contexto, nucleo, hilo
    <2>2. QED
      BY <1>0, <2>1 DEF EnCreacion, Suyo, SinManos
  <1>3. ASSUME NEW h \in Hilos, PasoConexion(h) PROVE EnCreacion'
    <2>1. /\ UNCHANGED <<intento, lineas, lista>> /\ pc'[h] \notin {"pedir", "armar"}
          /\ \A t \in Hilos \ {h} : pc'[t] = pc[t] /\ con'[t] = con[t] /\ trab'[t] = trab[t]
          /\ \/ con'[h] \in {con[h], Nulo}
             \/ \E f \in Descriptores : con'[h] = epoll[f].con
      BY <1>3, MarcoHilo DEF EnLinea
    <2>2. ASSUME NEW c \in Contextos, SinManos(c) PROVE SinManos(c)'
      <3>1. c # Nulo /\ con[h] # c
        BY <2>2, NuloAssumption DEF SinManos
      <3>2. tipo'[c] # "libre"
        BY <1>3, <2>2, <3>1, MarcoDatos DEF SinManos
      <3>3. \A f \in Descriptores : epoll'[f].con # c
        BY <1>3, <2>2, <3>1, MarcoDatos DEF SinManos
      <3>4. \A t \in Hilos : con'[t] # c
        BY <2>1, <2>2, <3>1 DEF SinManos
      <3>5. QED
        BY <3>2, <3>3, <3>4 DEF SinManos
    <2>3. ASSUME NEW t \in Hilos, pc[t] \in {"pedir", "armar"}, t # h,
                 NEW j \in Trabajos, trab[t] = j, CreacionBien(t, j)
          PROVE  CreacionBien(t, j)'
      <3>1. Suyo(j, 0)'
        BY <1>3, <2>1, <2>3, SuyoIgual, MarcoDatos DEF CreacionBien
      <3>2. pc[t] = "pedir" => tipo'[Head(lista[t])] = "sin_crear"
        <4>1. lista[t] # <<>>
          BY <1>0, <2>3 DEF UnaLinea, EnLinea
        <4>2. Head(lista[t]) \in Contextos
          BY <1>a, <4>1, HeadTailProperties
        <4>3. QED
          BY <1>3, <2>3, <4>2, MarcoDatos DEF CreacionBien
      <3>3. QED
        BY <1>b, <2>1, <2>2, <2>3, <3>1, <3>2 DEF CreacionBien
    <2>4. QED
      BY <1>0, <2>1, <2>3, CreacionUnoAUno
  <1>4. ASSUME NEW t \in Hilos, TomarPedido(t) PROVE EnCreacion'
    <2>1. PICK l : l = Head(lineas)
      OBVIOUS
    <2>2. PICK j : j = l.job
      OBVIOUS
    <2>3. LeerLinea(t, "JOB_REQUEST") /\ UNCHANGED <<estado, intento, tipo, epoll, con>>
      BY <1>4 DEF TomarPedido, contexto, nucleo
    <2>4. /\ l = lineas[1] /\ j \in Trabajos /\ l.intento = intento[j]
          /\ l.intento \in 1..Intentos[j] /\ Nuevo(j) /\ Suyo(j, 1)
      BY <2>1, <2>2, <2>3, PedidoLeido
    <2>5. /\ Dependencias(l) \in Seq(Contextos) /\ Dependencias(l) # <<>>
          /\ \A c \in ToSet(Dependencias(l)) :
                c \in Contextos /\ Trabajo(c) = j /\ c[2] = intento[j]
      BY <2>2, <2>4, ContextosDePedido
    <2>6. /\ pc' = [pc EXCEPT ![t] = "pedir"] /\ trab' = [trab EXCEPT ![t] = j]
          /\ lista' = [lista EXCEPT ![t] = Dependencias(l)]
      BY <1>4, <2>1, <2>2 DEF TomarPedido, Ir
    <2>7. Suyo(j, 0)'
      BY <1>0, <2>3, <2>4, SuyoAlLeer
    <2>8. \A c \in ToSet(Dependencias(l)) : tipo[c] = "sin_crear"
      BY <2>4, <2>5 DEF Nuevo
    <2>9. ASSUME NEW c \in Contextos, tipo[c] = "sin_crear" PROVE SinManos(c)'
      <3>1. c # Nulo
        BY NuloAssumption
      <3>2. SinManos(c)
        BY <1>0, <2>9, <3>1 DEF SinManos, Numeros, ConEnUso
      <3>3. QED
        BY <2>3, <3>2 DEF SinManos
    <2>10. Head(Dependencias(l)) \in ToSet(Dependencias(l))
      BY <2>5, RestoDeLineas DEF ToSet
    <2>11. /\ lista'[t] = Dependencias(l) /\ trab'[t] = j
           /\ \A h \in Hilos : h # t => pc'[h] \notin {"pedir", "armar"}
      BY <1>0, <2>3, <2>6 DEF TypeOK, UnaLinea, LeerLinea, EnLinea
    <2>12. CreacionBien(t, j)'
      BY <2>3, <2>5, <2>7, <2>8, <2>9, <2>10, <2>11 DEF CreacionBien
    <2>13. QED
      BY <2>4, <2>11, <2>12, CreacionUnoAUno
  <1>5. ASSUME NEW t \in Hilos, TomarLiberacion(t) \/ LiberacionVacia(t) PROVE EnCreacion'
    <2>1. /\ erlang
          /\ pc' = [pc EXCEPT ![t] = "cortar"] \/ pc' = pc
      BY <1>5 DEF TomarLiberacion, LiberacionVacia, LeerLinea, hilo, Ir
    <2>2. QED
      BY <1>0, <2>1, CreacionDeNadie DEF UnaLinea, EnLinea, TypeOK
  <1>6. ASSUME NEW t \in Hilos, Registrar(t) PROVE EnCreacion'
    <2>1. PICK x : x = Head(lista[t])
      OBVIOUS
    <2>2. /\ x \in Contextos /\ pc[t] = "pedir" /\ tipo' = [tipo EXCEPT ![x] = "saliente"]
      BY <1>6, <2>1, TipoLinea DEF PasoLinea
    <2>3. PICK j \in Trabajos : trab[t] = j /\ CreacionBien(t, j)
      BY <1>0, <2>2, CreacionUnoAUno
    <2>4. /\ UNCHANGED <<estado, intento, lineas, epoll, con, trab>>
          /\ lista' = [lista EXCEPT ![t] = Append(Tail(lista[t]), x)]
          /\ pc' = [pc EXCEPT ![t] = IF tipo'[Head(lista'[t])] = "sin_crear"
                                     THEN "pedir" ELSE "armar"]
      BY <1>6, <2>1 DEF Registrar, planif, Ir
    <2>5. /\ lista'[t] = Append(Tail(lista[t]), x)
          /\ pc'[t] = "pedir" => tipo'[Head(lista'[t])] = "sin_crear"
          /\ \A h \in Hilos : h # t => pc'[h] \notin {"pedir", "armar"}
      BY <1>0, <2>2, <2>4 DEF TypeOK, UnaLinea, EnLinea
    <2>6. ToSet(lista'[t]) \subseteq ToSet(lista[t])
      <3>1. lista[t] \in Seq(Contextos) /\ lista[t] # <<>>
        BY <1>0, <1>a, <2>2 DEF UnaLinea, EnLinea
      <3>2. QED
        BY <2>1, <2>5, <3>1, RestoPuesto
    <2>7. ASSUME NEW c \in Contextos, SinManos(c) PROVE SinManos(c)'
      BY <1>0, <2>2, <2>4, <2>7 DEF SinManos, TypeOK
    <2>8. CreacionBien(t, j)'
      BY <1>b, <2>3, <2>4, <2>5, <2>6, <2>7 DEF CreacionBien, Suyo
    <2>9. QED
      BY <2>3, <2>4, <2>5, <2>8, CreacionUnoAUno
  <1>7. ASSUME NEW t \in Hilos, Armar(t) \/ Cortar(t) PROVE EnCreacion'
    <2>1. /\ pc[t] \in EnLinea
          /\ pc' = [pc EXCEPT ![t] = "libre"] \/ (pc' = pc /\ pc[t] = "cortar")
      BY <1>7 DEF Armar, Cortar, FinLinea, Volver, Ir, EnLinea
    <2>2. QED
      BY <1>0, <2>1, CreacionDeNadie DEF UnaLinea, EnLinea, TypeOK
  <1>8. CASE UNCHANGED vars
    <2>1. UNCHANGED <<estado, intento, lineas, pc, trab, lista, tipo, epoll, con>>
      BY <1>8 DEF vars, planif, contexto, nucleo, hilo
    <2>2. QED
      BY <1>0, <2>1 DEF EnCreacion, Suyo, SinManos
  <1>9. QED
    BY <1>1, <1>2, <1>3, <1>4, <1>5, <1>6, <1>7, <1>8, Casos
    DEF PasoExterno, PasoLinea, AtenderPlanificador

-----------------------------------------------------------------------------
(* Open connections *)

Abierto(c) == tcp[c] \in {"conectado", "roto"}

\* An open socket is where its context says, the context is not freed, and
\* its entry is in the table, unless somebody closes it or a purge forgot it.
Abiertos ==
    \A c \in Contextos : Abierto(c) =>
        /\ fd[c] \in Descriptores /\ enchufe[fd[c]] = c
        /\ tipo[c] # "libre"
        /\ Alcanzable(c) \/ c \in olvidadas

\* Closing a number ends the socket it leads to and opens none.
LEMMA CierreDeSocket ==
    ASSUME TypeOK, NEW n, CerrarFd(n), NEW c \in Contextos, Abierto(c)',
           Abierto(c) => fd[c] \in Descriptores /\ enchufe[fd[c]] = c
    PROVE  Abierto(c) /\ fd[c] # n /\ enchufe'[fd[c]] = c
  <1>1. CASE n \in Descriptores /\ enchufe[n] # Nulo
    <2>1. /\ tcp' = [tcp EXCEPT ![enchufe[n]] = "cerrado"]
          /\ enchufe' = [enchufe EXCEPT ![n] = Nulo]
      BY <1>1 DEF CerrarFd
    <2>2. tcp'[c] = tcp[c] /\ enchufe[n] # c
      BY <2>1 DEF Abierto, TypeOK
    <2>3. QED
      BY <2>1, <2>2 DEF Abierto, TypeOK
  <1>2. CASE ~ (n \in Descriptores /\ enchufe[n] # Nulo)
    <2>1. UNCHANGED <<tcp, enchufe>>
      BY <1>2 DEF CerrarFd, nucleo
    <2>2. QED
      BY <1>2, <2>1, NuloAssumption DEF Abierto
  <1>3. QED
    BY <1>1, <1>2

\* Steps that leave numbers and contexts alone, and keep what is reachable so.
LEMMA AbiertosIguales ==
    ASSUME Abiertos, UNCHANGED <<fd, enchufe>>,
           \A c \in Contextos : Abierto(c)' => Abierto(c),
           \A c \in Contextos : tipo[c] # "libre" => tipo'[c] # "libre",
           \A c \in Contextos : Alcanzable(c) => Alcanzable(c)' \/ c \in olvidadas',
           olvidadas \subseteq olvidadas'
    PROVE  Abiertos'
  BY DEF Abiertos

\* Handling a line loses no open connection.
LEMMA AbiertosLinea ==
    ASSUME IInv, Abiertos, NEW t \in Hilos, PasoLinea(t)
    PROVE  Abiertos'
  <1> USE DEF Ir, Volver, FinLinea
  <1>0. TypeOK /\ UnaLinea
    BY DEF IInv
  <1>1. CASE TomarPedido(t)
    <2>1. /\ UNCHANGED <<fd, enchufe, tcp, tipo, entrada, olvidadas, con>>
          /\ pc[t] = "libre" /\ pc' = [pc EXCEPT ![t] = "pedir"]
      BY <1>1 DEF TomarPedido, LeerLinea, contexto, nucleo, historia
    <2>2. \A h \in Hilos \ {t} : pc'[h] = pc[h] /\ lista'[h] = lista[h]
      BY <1>1, MarcoLinea DEF PasoLinea, AtenderPlanificador
    <2>3. \A c \in Contextos : Alcanzable(c) => Alcanzable(c)'
      BY <2>1, <2>2 DEF Alcanzable
    <2>4. QED
      BY <2>1, <2>3, AbiertosIguales DEF Abierto
  <1>2. CASE TomarLiberacion(t)
    <2>1. PICK suyas : suyas = EntradasDe(Head(lineas).job)
      OBVIOUS
    <2>2. /\ UNCHANGED <<fd, enchufe, tcp, tipo, olvidadas, con>>
          /\ pc[t] = "libre" /\ pc' = [pc EXCEPT ![t] = "cortar"]
          /\ entrada' = [c \in Contextos |-> IF c \in suyas THEN "no" ELSE entrada[c]]
          /\ lista' = [lista EXCEPT ![t] = SetToSeq(suyas)]
      BY <1>2, <2>1 DEF TomarLiberacion, LeerLinea, contexto, nucleo, historia
    <2>3. suyas \subseteq Contextos /\ ToSet(SetToSeq(suyas)) = suyas
      BY <2>1, EnOrden, FinitudAssumption, FS_Subset DEF EntradasDe
    <2>4. /\ pc'[t] = "cortar" /\ ToSet(lista'[t]) = suyas
          /\ \A h \in Hilos \ {t} : pc'[h] = pc[h] /\ lista'[h] = lista[h]
      BY <1>0, <2>2, <2>3 DEF TypeOK
    <2>5. \A c \in Contextos : Alcanzable(c) => Alcanzable(c)'
      BY <2>2, <2>4 DEF Alcanzable
    <2>6. QED
      BY <2>2, <2>5, AbiertosIguales DEF Abierto
  <1>3. CASE LiberacionVacia(t)
    <2>1. UNCHANGED <<fd, enchufe, tcp, tipo, entrada, olvidadas, con, pc, lista>>
      BY <1>3 DEF LiberacionVacia, contexto, nucleo, historia, hilo
    <2>2. QED
      BY <2>1, AbiertosIguales DEF Abierto, Alcanzable
  <1>4. CASE Registrar(t)
    <2>1. PICK x : x = Head(lista[t])
      OBVIOUS
    <2>2. /\ x \in Contextos /\ pc[t] = "pedir" /\ tipo[x] = "sin_crear"
          /\ tipo' = [tipo EXCEPT ![x] = "saliente"] /\ CrearSocket(x)
      BY <1>4, <2>1, TipoLinea
    <2>3. \A f \in Descriptores : enchufe[f] # x
      BY <2>2, NuloAssumption DEF IInv, Numeros
    <2>4. ~ Abierto(x)
      BY <2>2, <2>3 DEF Abiertos
    <2>5. entrada' = [entrada EXCEPT ![x] = "pedida"] /\ UNCHANGED <<con, olvidadas>>
      BY <1>4, <2>1 DEF Registrar, historia
    <2>6. \E m \in {"pedir", "armar"} : pc' = [pc EXCEPT ![t] = m]
      BY <1>4 DEF Registrar
    <2>7. \A h \in Hilos \ {t} : pc'[h] = pc[h] /\ lista'[h] = lista[h]
      BY <1>4, MarcoLinea DEF PasoLinea
    <2>8. /\ tipo'[x] = "saliente" /\ entrada'[x] = "pedida"
          /\ \A c \in Contextos : c # x => tipo'[c] = tipo[c] /\ entrada'[c] = entrada[c]
      BY <1>0, <2>2, <2>5 DEF TypeOK
    <2>9. ASSUME NEW c \in Contextos, Alcanzable(c)
          PROVE  Alcanzable(c)'
      <3>1. \A h \in Hilos : pc[h] \in {"cortar", "cerrar"} =>
               pc'[h] = pc[h] /\ lista'[h] = lista[h] /\ con'[h] = con[h]
        BY <2>2, <2>5, <2>7
      <3>2. QED
        BY <2>8, <2>9, <3>1 DEF Alcanzable
    <2>10. CASE UNCHANGED <<fd, enchufe, tcp>>
      <3>1. \A c \in Contextos : tipo[c] # "libre" => tipo'[c] # "libre"
        BY <2>8
      <3>2. QED
        BY <2>5, <2>9, <2>10, <3>1, AbiertosIguales DEF Abierto
    <2>11. ASSUME NEW n \in Descriptores, enchufe[n] = Nulo,
                  fd' = [fd EXCEPT ![x] = n], enchufe' = [enchufe EXCEPT ![n] = x],
                  \E r \in {"conectado", "roto"} : tcp' = [tcp EXCEPT ![x] = r]
           PROVE  Abiertos'
      <3>1. ASSUME NEW c \in Contextos, c # x, Abierto(c)'
            PROVE  /\ fd'[c] \in Descriptores /\ enchufe'[fd'[c]] = c /\ tipo'[c] # "libre"
                   /\ Alcanzable(c)' \/ c \in olvidadas'
        <4>1. fd'[c] = fd[c] /\ tcp'[c] = tcp[c]
          BY <1>0, <2>2, <2>11, <3>1 DEF TypeOK
        <4>2. /\ fd[c] \in Descriptores /\ enchufe[fd[c]] = c /\ tipo[c] # "libre"
              /\ Alcanzable(c) \/ c \in olvidadas
          BY <3>1, <4>1 DEF Abiertos, Abierto
        <4>3. fd[c] # n
          BY <2>11, <4>2, NuloAssumption
        <4>4. enchufe'[fd[c]] = c
          BY <1>0, <2>11, <4>2, <4>3 DEF TypeOK
        <4>5. QED
          BY <2>5, <2>8, <2>9, <3>1, <4>1, <4>2, <4>4
      <3>2. /\ fd'[x] = n /\ enchufe'[n] = x
        BY <1>0, <2>2, <2>11 DEF TypeOK
      <3>3. Alcanzable(x)'
        BY <2>8 DEF Alcanzable
      <3>4. QED
        BY <2>8, <3>1, <3>2, <3>3 DEF Abiertos
    <2>12. QED
      BY <1>0, <2>2, <2>10, <2>11, SocketCreado DEF IInv
  <1>5. CASE Armar(t)
    <2>1. /\ UNCHANGED <<fd, enchufe, tcp, tipo, entrada, olvidadas>>
          /\ pc[t] = "armar" /\ pc' = [pc EXCEPT ![t] = "libre"]
      BY <1>5 DEF Armar, contexto, historia
    <2>2. \A h \in Hilos \ {t} : pc'[h] = pc[h] /\ lista'[h] = lista[h] /\ con'[h] = con[h]
      BY <1>5, MarcoLinea DEF PasoLinea
    <2>3. \A c \in Contextos : Alcanzable(c) => Alcanzable(c)'
      BY <2>1, <2>2 DEF Alcanzable
    <2>4. QED
      BY <2>1, <2>3, AbiertosIguales DEF Abierto
  <1>6. CASE Cortar(t)
    <2>1. PICK x : x = Head(lista[t])
      OBVIOUS
    <2>2. PICK n : CerrarFd(n) /\ (tipo[x] # "libre" => n = fd[x])
      BY <1>6, <2>1 DEF Cortar
    <2>3. /\ UNCHANGED <<fd, tipo, entrada, olvidadas>> /\ pc[t] = "cortar"
          /\ lista' = [lista EXCEPT ![t] = Tail(lista[t])]
      BY <1>6 DEF Cortar, contexto
    <2>4. \A h \in Hilos \ {t} : pc'[h] = pc[h] /\ lista'[h] = lista[h] /\ con'[h] = con[h]
      BY <1>6, MarcoLinea DEF PasoLinea
    <2>5. lista[t] \in Seq(Contextos) /\ lista[t] # <<>>
      BY <1>0, <2>3 DEF UnaLinea, EnLinea, TypeOK
    <2>6. ASSUME NEW c \in ToSet(lista[t]), c # x
          PROVE  pc'[t] = "cortar" /\ c \in ToSet(lista'[t])
      <3>1. PICK i \in DOMAIN lista[t] : c = lista[t][i] /\ i # 1
        BY <2>1, <2>5, <2>6, RestoDeLineas DEF ToSet
      <3>2. i - 1 \in DOMAIN Tail(lista[t]) /\ Tail(lista[t])[i - 1] = lista[t][i]
        BY <2>5, <3>1, RestoDeLineas, LenProperties
      <3>3. lista'[t] = Tail(lista[t])
        BY <1>0, <2>3 DEF TypeOK
      <3>4. Len(lista[t]) # 1
        BY <2>5, <3>1, LenProperties
      <3>5. pc' = pc
        BY <1>6, <3>4 DEF Cortar
      <3>6. QED
        BY <2>3, <3>1, <3>2, <3>3, <3>5 DEF ToSet
    <2>7. ASSUME NEW c \in Contextos, Abierto(c)'
          PROVE  /\ fd'[c] \in Descriptores /\ enchufe'[fd'[c]] = c /\ tipo'[c] # "libre"
                 /\ Alcanzable(c)' \/ c \in olvidadas'
      <3>1. Abierto(c) /\ fd[c] # n /\ enchufe'[fd[c]] = c
        BY <1>0, <2>2, <2>7, CierreDeSocket DEF Abiertos
      <3>2. /\ fd[c] \in Descriptores /\ tipo[c] # "libre"
            /\ Alcanzable(c) \/ c \in olvidadas
        BY <3>1 DEF Abiertos
      <3>3. c # x
        BY <2>2, <3>1, <3>2
      <3>4. Alcanzable(c) => Alcanzable(c)'
        BY <2>3, <2>4, <2>6, <3>3 DEF Alcanzable
      <3>5. QED
        BY <2>3, <3>1, <3>2, <3>4
    <2>8. QED
      BY <2>7 DEF Abiertos
  <1>7. QED
    BY <1>1, <1>2, <1>3, <1>4, <1>5, <1>6 DEF PasoLinea, AtenderPlanificador

\* Handling a connection loses no open connection.
LEMMA AbiertosConexion ==
    ASSUME IInv, Abiertos, NEW t \in Hilos, PasoConexion(t)
    PROVE  Abiertos'
  <1> USE DEF Ir, Volver
  <1>0. TypeOK
    BY DEF IInv
  <1>a. /\ UNCHANGED <<fd, lista>> /\ pc[t] # "cortar" /\ pc'[t] # "cortar"
        /\ \A h \in Hilos \ {t} : pc'[h] = pc[h] /\ con'[h] = con[h]
    BY MarcoHilo DEF EnLinea
  <1>b. ASSUME pc[t] # "cerrar", \A c \in Contextos : entrada[c] # "no" => entrada'[c] # "no"
        PROVE  \A c \in Contextos : Alcanzable(c) => Alcanzable(c)'
    BY <1>a, <1>b DEF Alcanzable
  <1>1. CASE Cerrar(t)
    <2>1. /\ tipo' = [tipo EXCEPT ![con[t]] = "libre"] /\ CerrarFd(fd[con[t]])
          /\ UNCHANGED <<entrada, olvidadas>>
      BY <1>1 DEF Cerrar, historia
    <2>2. ASSUME NEW c \in Contextos, Abierto(c)'
          PROVE  /\ fd'[c] \in Descriptores /\ enchufe'[fd'[c]] = c /\ tipo'[c] # "libre"
                 /\ Alcanzable(c)' \/ c \in olvidadas'
      <3>1. Abierto(c) /\ fd[c] # fd[con[t]] /\ enchufe'[fd[c]] = c
        BY <1>0, <2>1, <2>2, CierreDeSocket DEF Abiertos
      <3>2. /\ fd[c] \in Descriptores /\ tipo[c] # "libre" /\ c # con[t]
            /\ Alcanzable(c) \/ c \in olvidadas
        BY <3>1 DEF Abiertos
      <3>3. tipo'[c] # "libre"
        BY <1>0, <2>1, <3>2 DEF TypeOK
      <3>4. Alcanzable(c) => Alcanzable(c)'
        BY <1>a, <2>1, <3>2 DEF Alcanzable
      <3>5. QED
        BY <1>a, <2>1, <3>1, <3>2, <3>3, <3>4
    <2>3. QED
      BY <2>2 DEF Abiertos
  <1>2. CASE Salida(t) \/ Leer(t) \/ Mirar(t) \/ Avisar(t) \/ Rearmar(t)
    <2>1. UNCHANGED <<enchufe, tcp, entrada, olvidadas>> /\ pc[t] # "cerrar"
      BY <1>2 DEF Salida, Leer, Mirar, Avisar, Rearmar, nucleo, historia
    <2>2. tipo' = tipo \/ tipo' = [tipo EXCEPT ![con[t]] = "agente"]
      BY <1>2 DEF Salida, Leer, Mirar, Avisar, Rearmar, contexto
    <2>3. \A c \in Contextos : tipo[c] # "libre" => tipo'[c] # "libre"
      BY <1>0, <2>2 DEF TypeOK
    <2>4. QED
      BY <1>a, <1>b, <2>1, <2>3, AbiertosIguales DEF Abierto
  <1>3. CASE Marcar(t)
    <2>1. UNCHANGED <<enchufe, tcp, tipo, olvidadas>> /\ pc[t] # "cerrar"
      BY <1>3 DEF Marcar, nucleo, contexto
    <2>2. \A c \in Contextos : entrada[c] # "no" => entrada'[c] # "no"
      BY <1>0, <1>3 DEF Marcar, TypeOK
    <2>3. QED
      BY <1>a, <1>b, <2>1, <2>2, AbiertosIguales DEF Abierto
  <1>4. CASE Purgar(t) \/ \E n \in Vecinos : FinDeVecino(t, n)
    <2>1. (\E n : BorrarPorNodo(n)) \/ UNCHANGED <<entrada, olvidadas>>
      BY <1>4 DEF Purgar, FinDeVecino
    <2>2. UNCHANGED <<enchufe, tcp, tipo>> /\ pc[t] # "cerrar"
      BY <1>4 DEF Purgar, FinDeVecino, nucleo, contexto
    <2>3. /\ \A c \in Contextos : entrada'[c] = entrada[c] \/ c \in olvidadas'
          /\ olvidadas \subseteq olvidadas'
      BY <2>1 DEF BorrarPorNodo
    <2>4. \A c \in Contextos : Alcanzable(c) => Alcanzable(c)' \/ c \in olvidadas'
      BY <1>a, <2>2, <2>3 DEF Alcanzable
    <2>5. QED
      BY <1>a, <2>2, <2>3, <2>4, AbiertosIguales DEF Abierto
  <1>5. CASE \E f \in Descriptores : Evento(t, f)
    <2>1. UNCHANGED <<enchufe, tcp, tipo, entrada, olvidadas>> /\ pc[t] # "cerrar"
      BY <1>5 DEF Evento, contexto, historia
    <2>2. QED
      BY <1>a, <1>b, <2>1, AbiertosIguales DEF Abierto
  <1>6. QED
    BY <1>1, <1>2, <1>3, <1>4, <1>5 DEF PasoConexion

\* Every step keeps open connections within reach.
LEMMA AbiertosSiguen == IInv /\ Abiertos /\ [Next]_vars => Abiertos'
  <1> SUFFICES ASSUME IInv, Abiertos, [Next]_vars PROVE Abiertos'
    OBVIOUS
  <1>1. CASE PasoExterno
    <2>1. UNCHANGED <<fd, tipo, enchufe, entrada, pc, con, lista>>
      BY <1>1, MarcoExterno
    <2>2. UNCHANGED olvidadas /\ \A c \in Contextos : Abierto(c)' => Abierto(c)
      BY <1>1 DEF PasoExterno, Pedir, Soltar, ProvCierra, ProvConcede, ProvDeniega, ProvCae,
                  Abierto, nucleo, historia
    <2>3. QED
      BY <2>1, <2>2, AbiertosIguales DEF Alcanzable
  <1>2. CASE UNCHANGED vars
    BY <1>2 DEF Abiertos, Abierto, Alcanzable, vars, contexto, nucleo, hilo, historia
  <1>3. QED
    BY <1>1, <1>2, AbiertosLinea, AbiertosConexion, Casos

-----------------------------------------------------------------------------
(* The theorems *)

\* The invariant holds at first.
LEMMA InicioIInv == Init => IInv
  <1> SUFFICES ASSUME Init PROVE IInv
    OBVIOUS
  <1>1. TypeOK
    <2>1. /\ lineas \in Seq([orden : {"JOB_REQUEST", "JOB_RELEASE"}, job : Trabajos, intento : Nat])
          /\ buzon \in [Contextos -> Seq([clase : {"GRANTED", "DENIED"}, job : Trabajos])]
          /\ lista \in [Hilos -> Seq(Contextos)]
      BY EmptySeq DEF Init
    <2>2. epoll \in [Descriptores -> [con : Contextos \cup {Nulo}, ev : {"no", "IN", "OUT"}]]
      BY DEF Init, NoArmado
    <2>3. pc \in [Hilos -> Etapas]
      BY DEF Init, Etapas
    <2>4. QED
      BY <2>1, <2>2, <2>3 DEF Init, TypeOK
  <1>2. Creacion
    <2>1. \A c \in Contextos : Trabajo(c) \in Trabajos
      BY PartesDeContexto
    <2>2. \A j \in Trabajos : Intentos[j] \in Nat
      BY PideAssumption
    <2>3. QED
      BY <2>1, <2>2 DEF Init, Creacion
  <1>3. PedidosNuevos
    <2>1. DOMAIN lineas = {}
      BY DEF Init
    <2>2. QED
      BY <2>1 DEF PedidosNuevos
  <1>4. UnaLinea /\ ConEnUso /\ EnCreacion /\ Numeros /\ SinNumero /\ UnHiloPorConexion
    BY DEF Init, UnaLinea, EnLinea, ConEnUso, EnConexion, EnCreacion, Numeros, NoArmado,
           SinNumero, UnHiloPorConexion
  <1>5. QED
    BY <1>1, <1>2, <1>3, <1>4 DEF IInv

\* Every step keeps it.
LEMMA PasoIInv == IInv /\ [Next]_vars => IInv'
  <1> SUFFICES ASSUME IInv, [Next]_vars PROVE IInv'
    OBVIOUS
  <1>1. TypeOK' /\ UnaLinea' /\ ConEnUso' /\ Creacion'
    BY Tipos, LineasSiguen, UsoSigue, CreacionSigue
  <1>2. PedidosNuevos' /\ EnCreacion' /\ Numeros' /\ SinNumero' /\ UnHiloPorConexion'
    BY PedidosSiguen, CreacionEnSigue, NumerosSiguen, SinNumeroSigue, UnHiloSigue
  <1>3. QED
    BY <1>1, <1>2 DEF IInv

\* The invariant holds in every execution.
LEMMA SiempreIInv == Spec => []IInv
  BY InicioIInv, PasoIInv, PTL DEF Spec

\* Every variable of the requesting agent keeps its type.
THEOREM TiposSolicitante == Spec => []TypeOK
  <1>1. IInv => TypeOK
    BY DEF IInv
  <1>2. QED
    BY <1>1, SiempreIInv, PTL

\* EPOLLONESHOT is enough: no two threads are in the handler of one connection
\* and none works on a freed context, although JOB_RELEASE closes numbers on
\* another thread, the kernel hands them out again, and a re-arm may take over
\* the registration of another socket.
THEOREM UnHiloSiempre == Spec => []UnHiloPorConexion
  <1>1. IInv => UnHiloPorConexion
    BY DEF IInv
  <1>2. QED
    BY <1>1, SiempreIInv, PTL

\* A job asked for again has one entry per destination: nothing is left of
\* the former attempt when the entries of the new one are made.
THEOREM EntradaUnicaSiempre == Spec => []EntradaUnica
  <1>1. IInv => EntradaUnica
    <2> SUFFICES ASSUME IInv, NEW x \in Contextos, NEW y \in Contextos,
                        entrada[x] # "no", entrada[y] # "no",
                        Trabajo(x) = Trabajo(y), Destino(x) = Destino(y)
                 PROVE  x = y
      BY DEF EntradaUnica
    <2>1. x[2] = y[2]
      BY DEF IInv, Creacion
    <2>2. x = <<Trabajo(x), x[2], Destino(x)>> /\ y = <<Trabajo(y), y[2], Destino(y)>>
      BY PartesDeContexto
    <2>3. QED
      BY <2>1, <2>2
  <1>2. QED
    BY <1>1, SiempreIInv, PTL

\* JOB_RELEASE reaches the connection of every reservation of its job: only a
\* purge of the node leaves an open one that nobody will close, whatever
\* sockets stale and freed numbers close or re-arm meanwhile.
THEOREM SoloLaPurgaSiempre == Spec => []SoloLaPurgaDejaHuerfanas
  <1>1. Init => Abiertos
    BY DEF Init, Abiertos, Abierto
  <1>2. Spec => []Abiertos
    BY <1>1, SiempreIInv, AbiertosSiguen, PTL DEF Spec
  <1>3. Abiertos => SoloLaPurgaDejaHuerfanas
    BY DEF Abiertos, Abierto, SoloLaPurgaDejaHuerfanas, Huerfana
  <1>4. QED
    BY <1>2, <1>3, PTL
=============================================================================
