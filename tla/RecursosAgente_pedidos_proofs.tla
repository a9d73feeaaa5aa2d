-------------------- MODULE RecursosAgente_pedidos_proofs --------------------
(***************************************************************************)
(* Theorems about where a request of RecursosAgente is, from its RESERVE   *)
(* to its answer, for every number of threads, connections, nodes and      *)
(* jobs, and every capacity.                                               *)
(***************************************************************************)
EXTENDS RecursosAgente_proofs

-----------------------------------------------------------------------------
(* The invariant: a request is in one place at a time *)

\* Where a request may be: not read, waiting, promoted, being decided.
SinLeer(c) == ctx[c] = "sin_crear" \/ MsgReserve \in ToSet(canal[c])
Espera(c) == \E r \in TipoRecurso : c \in ToSet(cola[r])
Promovida(c) == \E t \in Hilos : c \in ToSet(promovidos[t])
Decidida(c) == \E t \in Hilos : Decidiendose(c, t)

\* It is in one of them, and no step brings one that is in none back.
Pendiente(c) == SinLeer(c) \/ Espera(c) \/ Promovida(c) \/ Decidida(c)
NadaVuelve == \A c \in Conexiones : Pendiente(c)' => Pendiente(c)

\* EPOLLONESHOT: a connection is in the hands of one thread at most.
UnHilo ==
    \A t, h \in Hilos : con[t] = con[h] /\ con[t] \in Conexiones => t = h

\* A connection carries one RESERVE at most.
UnaReserva ==
    \A c \in Conexiones :
        /\ ctx[c] = "sin_crear" => canal[c] = <<>>
        /\ \A i, k \in DOMAIN canal[c] :
              canal[c][i] = MsgReserve /\ canal[c][k] = MsgReserve => i = k

\* No request is twice in a queue, or in what was promoted.
SinRepetir ==
    /\ \A r \in TipoRecurso : IsInjective(cola[r])
    /\ \A t \in Hilos : IsInjective(promovidos[t])
    /\ \A t, h \in Hilos : \A c \in Conexiones :
          c \in ToSet(promovidos[t]) /\ c \in ToSet(promovidos[h]) => t = h

\* A request is in one kind of place.
UnLugar(c) ==
    /\ SinLeer(c) => ~ Espera(c) /\ ~ Promovida(c) /\ ~ Decidida(c)
    /\ Decidida(c) => ~ Espera(c) /\ ~ Promovida(c)
    /\ Espera(c) => ~ Promovida(c)
Lugares == \A c \in Conexiones : UnLugar(c)

UInv == IInv /\ UnHilo /\ UnaReserva /\ SinRepetir /\ Lugares

-----------------------------------------------------------------------------
(* Sequences without repetition *)

\* A new element at the end.
LEMMA AlFinal ==
    ASSUME NEW C, NEW s \in Seq(C), NEW x \in C
    PROVE  /\ ToSet(Append(s, x)) = ToSet(s) \cup {x}
           /\ x \notin ToSet(s) /\ IsInjective(s) => IsInjective(Append(s, x))
  <1> DEFINE q == Append(s, x)
  <1>1. /\ DOMAIN s = 1..Len(s) /\ Len(s) \in Nat
        /\ q \in Seq(C) /\ DOMAIN q = 1..(Len(s) + 1)
        /\ \A i \in 1..Len(s) : q[i] = s[i]
        /\ q[Len(s) + 1] = x
    BY AppendProperties, LenProperties
  <1> HIDE DEF q
  <1>2. ToSet(q) = ToSet(s) \cup {x}
    <2>1. \A i \in DOMAIN s : i \in DOMAIN q /\ q[i] = s[i]
      BY <1>1
    <2>2. Len(s) + 1 \in DOMAIN q
      BY <1>1
    <2>3. \A i \in DOMAIN q : i \in DOMAIN s \/ i = Len(s) + 1
      BY <1>1
    <2>4. QED
      BY <2>1, <2>2, <2>3, <1>1 DEF ToSet
  <1>3. ASSUME x \notin ToSet(s), IsInjective(s)
        PROVE  IsInjective(q)
    <2>1. \A i \in 1..Len(s) : q[i] # x
      BY <1>1, <1>3 DEF ToSet
    <2>2. \A i, k \in 1..Len(s) : s[i] = s[k] => i = k
      BY <1>1, <1>3 DEF IsInjective
    <2>3. \A i, k \in 1..(Len(s) + 1) : q[i] = q[k] => i = k
      BY <2>1, <2>2, <1>1
    <2>4. QED
      BY <2>3, <1>1 DEF IsInjective
  <1>4. QED
    BY <1>2, <1>3 DEF q

\* A new element at the front.
LEMMA AlPrincipio ==
    ASSUME NEW C, NEW s \in Seq(C), NEW x \in C
    PROVE  /\ ToSet(<<x>> \o s) = ToSet(s) \cup {x}
           /\ x \notin ToSet(s) /\ IsInjective(s) => IsInjective(<<x>> \o s)
  <1> DEFINE q == <<x>> \o s
  <1>1. /\ DOMAIN s = 1..Len(s) /\ Len(s) \in Nat
        /\ DOMAIN q = 1..(Len(s) + 1)
        /\ \A i \in 1..Len(s) : q[i + 1] = s[i]
        /\ q[1] = x
    <2>1. /\ <<x>> \in Seq(C) /\ Len(<<x>>) = 1 /\ <<x>>[1] = x
      OBVIOUS
    <2>2. QED
      BY <2>1, ConcatProperties, LenProperties
  <1> HIDE DEF q
  <1>0. \A i \in DOMAIN q : i = 1 \/ (i - 1 \in DOMAIN s /\ q[i] = s[i - 1])
    <2> SUFFICES ASSUME NEW i \in 1..(Len(s) + 1), i # 1
                 PROVE  i - 1 \in 1..Len(s) /\ q[i] = s[i - 1]
      BY <1>1
    <2>1. i - 1 \in 1..Len(s) /\ (i - 1) + 1 = i
      BY <1>1
    <2>2. QED
      BY <2>1, <1>1
  <1>2. ToSet(q) = ToSet(s) \cup {x}
    <2>1. \A i \in DOMAIN s : i + 1 \in DOMAIN q /\ q[i + 1] = s[i]
      BY <1>1
    <2>2. 1 \in DOMAIN q
      BY <1>1
    <2>4. QED
      BY <2>1, <2>2, <1>0, <1>1 DEF ToSet
  <1>3. ASSUME x \notin ToSet(s), IsInjective(s)
        PROVE  IsInjective(q)
    <2> SUFFICES ASSUME NEW i \in DOMAIN q, NEW k \in DOMAIN q, q[i] = q[k]
                 PROVE  i = k
      BY DEF IsInjective
    <2>1. \A h \in DOMAIN s : s[h] # x
      BY <1>3 DEF ToSet
    <2>2. CASE i = 1
      BY <2>2, <2>1, <1>0, <1>1
    <2>3. CASE k = 1
      BY <2>3, <2>1, <1>0, <1>1
    <2>4. CASE i # 1 /\ k # 1
      <3>1. i - 1 = k - 1
        BY <2>4, <1>0, <1>3 DEF IsInjective
      <3>2. QED
        BY <3>1, <1>1
    <2>5. QED
      BY <2>2, <2>3, <2>4
  <1>4. QED
    BY <1>2, <1>3 DEF q

\* Without the first element.
LEMMA SinElPrimero ==
    ASSUME NEW C, NEW s \in Seq(C), s # <<>>
    PROVE  /\ Head(s) \in ToSet(s) /\ Head(s) = s[1]
           /\ ToSet(Tail(s)) \subseteq ToSet(s)
           /\ ToSet(s) \subseteq ToSet(Tail(s)) \cup {Head(s)}
           /\ \A i \in DOMAIN Tail(s) : i + 1 \in DOMAIN s /\ Tail(s)[i] = s[i + 1]
           /\ IsInjective(s) => IsInjective(Tail(s)) /\ Head(s) \notin ToSet(Tail(s))
  <1> DEFINE q == Tail(s)
  <1>1. /\ DOMAIN s = 1..Len(s) /\ Len(s) \in Nat /\ Len(s) # 0 /\ Head(s) = s[1]
        /\ DOMAIN q = 1..(Len(s) - 1)
        /\ \A i \in 1..(Len(s) - 1) : q[i] = s[i + 1]
    BY HeadTailProperties, LenProperties, EmptySeq
  <1> HIDE DEF q
  <1>2. \A i \in DOMAIN q : i + 1 \in DOMAIN s /\ q[i] = s[i + 1]
    BY <1>1
  <1>3. 1 \in DOMAIN s /\ \A i \in DOMAIN s : i = 1 \/ (i - 1 \in DOMAIN q /\ q[i - 1] = s[i])
    <2> SUFFICES ASSUME NEW i \in 1..Len(s), i # 1
                 PROVE  i - 1 \in DOMAIN q /\ q[i - 1] = s[i]
      BY <1>1
    <2>1. i - 1 \in 1..(Len(s) - 1) /\ (i - 1) + 1 = i
      BY <1>1
    <2>2. QED
      BY <2>1, <1>1
  <1>4. /\ Head(s) \in ToSet(s) /\ ToSet(q) \subseteq ToSet(s)
        /\ ToSet(s) \subseteq ToSet(q) \cup {Head(s)}
    BY <1>1, <1>2, <1>3 DEF ToSet
  <1>5. ASSUME IsInjective(s) PROVE IsInjective(q) /\ Head(s) \notin ToSet(q)
    <2>1. \A i \in DOMAIN q : i + 1 # 1
      BY <1>1
    <2>2. Head(s) \notin ToSet(q)
      BY SMTT(20), <2>1, <1>1, <1>2, <1>3, <1>5 DEF ToSet, IsInjective
    <2>3. ASSUME NEW i \in DOMAIN q, NEW k \in DOMAIN q, q[i] = q[k] PROVE i = k
      <3>1. i + 1 = k + 1
        BY <2>3, <1>2, <1>5 DEF IsInjective
      <3>2. QED
        BY <3>1, <1>1
    <2>4. QED
      BY <2>2, <2>3 DEF IsInjective
  <1>6. QED
    BY <1>1, <1>2, <1>4, <1>5 DEF q

\* A subsequence keeps no element of the purged node, and repeats none.
LEMMA SinNodoUnicos ==
    ASSUME NEW s \in Seq(Conexiones), NEW n
    PROVE  /\ ToSet(SinNodo(s, n)) \subseteq {c \in ToSet(s) : Pedido[c].nodo # n}
           /\ IsInjective(s) => IsInjective(SinNodo(s, n))
  <1> DEFINE I == {i \in DOMAIN s : Pedido[s[i]].nodo # n}
             q == EnPosiciones(s, I)
             pos(k) == CHOOSE i \in I : Rango(I, i) = k
  <1>0. SinNodo(s, n) = q
    BY DEF SinNodo
  <1>1. /\ I \in SUBSET DOMAIN s /\ DOMAIN s = 1..Len(s) /\ Len(s) \in Nat
        /\ I \in SUBSET (1..Len(s))
    BY LenProperties
  <1>2. /\ DOMAIN q = 1..Cardinality(I)
        /\ \A k \in 1..Cardinality(I) : q[k] = s[pos(k)]
    BY DEF EnPosiciones
  <1>3. \A k \in 1..Cardinality(I) : pos(k) \in I /\ Rango(I, pos(k)) = k
    BY <1>1, RangoAlcanzado
  <1> HIDE DEF pos, q
  <1>4. ToSet(q) \subseteq {c \in ToSet(s) : Pedido[c].nodo # n}
    BY <1>2, <1>3 DEF ToSet
  <1>5. ASSUME IsInjective(s) PROVE IsInjective(q)
    <2>1. ASSUME NEW i \in DOMAIN q, NEW k \in DOMAIN q, q[i] = q[k] PROVE i = k
      <3>1. pos(i) = pos(k)
        BY <2>1, <1>1, <1>2, <1>3, <1>5 DEF IsInjective
      <3>2. QED
        BY <3>1, <2>1, <1>2, <1>3
    <2>2. QED
      BY <2>1 DEF IsInjective
  <1>6. QED
    BY <1>0, <1>4, <1>5

-----------------------------------------------------------------------------
(* What steps leave alone *)

EnDecision == {"reservar", "conceder", "denegar"}

\* A step that moves no request, reads none into the hands of a thread and
\* writes none on a connection keeps every request where it is.
LEMMA MarcoLugares ==
    ASSUME SinRepetir, Lugares, UNCHANGED <<cola, promovidos>>,
           \A c \in Conexiones : SinLeer(c)' => SinLeer(c),
           \A h \in Hilos : pc'[h] \in EnDecision => pc[h] \in EnDecision /\ con'[h] = con[h]
    PROVE  SinRepetir' /\ Lugares' /\ NadaVuelve
  <1>1. SinRepetir'
    BY DEF SinRepetir
  <1>2. ASSUME NEW c \in Conexiones PROVE UnLugar(c)' /\ (Pendiente(c)' => Pendiente(c))
    <2>1. Espera(c)' = Espera(c) /\ Promovida(c)' = Promovida(c)
      BY DEF Espera, Promovida
    <2>2. Decidida(c)' => Decidida(c)
      BY DEF Decidida, Decidiendose, EnDecision
    <2>3. UnLugar(c)
      BY DEF Lugares
    <2>4. QED
      BY <2>1, <2>2, <2>3 DEF UnLugar, Pendiente
  <1>3. QED
    BY <1>1, <1>2 DEF Lugares, NadaVuelve

\* As above, for a step that does not touch the connections' lines.
LEMMA MarcoHilos ==
    ASSUME SinRepetir, Lugares, UNCHANGED <<cola, promovidos, ctx, canal>>,
           \A h \in Hilos : pc'[h] \in EnDecision => pc[h] \in EnDecision /\ con'[h] = con[h]
    PROVE  SinRepetir' /\ Lugares' /\ NadaVuelve
  <1>1. \A c \in Conexiones : SinLeer(c)' => SinLeer(c)
    BY DEF SinLeer
  <1>2. QED
    BY <1>1, MarcoLugares

\* Lines that are read, lost or added other than a RESERVE bring none.
LEMMA MarcoLineas ==
    ASSUME TypeOK, UnaReserva, NEW c \in Conexiones, ctx[c] # "sin_crear",
           \A d \in Conexiones : ctx'[d] = "sin_crear" => ctx[d] = "sin_crear",
           \/ canal[c] # <<>> /\ canal' = [canal EXCEPT ![c] = Tail(@)]
           \/ \E r : canal' = [canal EXCEPT ![c] = Append(@, MsgRelease(r))]
                     /\ MsgRelease(r) \in Mensajes
           \/ canal' = [canal EXCEPT ![c] = <<>>]
           \/ UNCHANGED canal
    PROVE  UnaReserva' /\ \A d \in Conexiones : SinLeer(d)' => SinLeer(d)
  <1>0. canal \in [Conexiones -> Seq(Mensajes)]
    BY DEF TypeOK
  <1>1. \A d \in Conexiones \ {c} : canal'[d] = canal[d]
    BY <1>0
  <1>2. /\ ToSet(canal'[c]) \cap {MsgReserve} \subseteq ToSet(canal[c])
        /\ \A i, k \in DOMAIN canal'[c] :
              canal'[c][i] = MsgReserve /\ canal'[c][k] = MsgReserve => i = k
    <2>0. canal[c] \in Seq(Mensajes)
          /\ \A i, k \in DOMAIN canal[c] :
                canal[c][i] = MsgReserve /\ canal[c][k] = MsgReserve => i = k
      BY <1>0 DEF UnaReserva
    <2>1. CASE canal[c] # <<>> /\ canal' = [canal EXCEPT ![c] = Tail(@)]
      <3>1. canal'[c] = Tail(canal[c])
        BY <2>1, <1>0
      <3>2. /\ ToSet(Tail(canal[c])) \subseteq ToSet(canal[c])
            /\ \A i \in DOMAIN Tail(canal[c]) :
                  i + 1 \in DOMAIN canal[c] /\ Tail(canal[c])[i] = canal[c][i + 1]
        BY <2>0, <2>1, SinElPrimero
      <3>3. DOMAIN Tail(canal[c]) \subseteq Nat
        BY <2>0, <2>1, HeadTailProperties, LenProperties
      <3>4. ASSUME NEW i \in DOMAIN canal'[c], NEW k \in DOMAIN canal'[c],
                   canal'[c][i] = MsgReserve, canal'[c][k] = MsgReserve
            PROVE  i = k
        <4>1. i + 1 = k + 1
          BY <3>4, <3>1, <3>2, <2>0
        <4>2. QED
          BY <4>1, <3>1, <3>3
      <3>5. QED
        BY <3>1, <3>2, <3>4
    <2>2. ASSUME NEW r, canal' = [canal EXCEPT ![c] = Append(@, MsgRelease(r))],
                 MsgRelease(r) \in Mensajes
          PROVE  /\ ToSet(canal'[c]) \cap {MsgReserve} \subseteq ToSet(canal[c])
                 /\ \A i, k \in DOMAIN canal'[c] :
                      canal'[c][i] = MsgReserve /\ canal'[c][k] = MsgReserve => i = k
      <3>1. canal'[c] = Append(canal[c], MsgRelease(r))
        BY <2>2, <1>0
      <3>2. MsgRelease(r) # MsgReserve
        BY DEF MsgRelease, MsgReserve
      <3>3. ToSet(canal'[c]) = ToSet(canal[c]) \cup {MsgRelease(r)}
        BY <3>1, <2>0, <2>2, AlFinal
      <3>4. /\ DOMAIN canal[c] = 1..Len(canal[c]) /\ Len(canal[c]) \in Nat
            /\ DOMAIN canal'[c] = 1..(Len(canal[c]) + 1)
            /\ \A i \in 1..Len(canal[c]) : canal'[c][i] = canal[c][i]
            /\ canal'[c][Len(canal[c]) + 1] = MsgRelease(r)
        BY <3>1, <2>0, <2>2, AppendProperties, LenProperties
      <3>5. \A i \in DOMAIN canal'[c] : canal'[c][i] = MsgReserve =>
                i \in DOMAIN canal[c] /\ canal[c][i] = MsgReserve
        BY <3>2, <3>4
      <3>6. QED
        BY <3>2, <3>3, <3>5, <2>0
    <2>3. CASE canal' = [canal EXCEPT ![c] = <<>>]
      <3>1. canal'[c] = <<>>
        BY <2>3, <1>0
      <3>2. DOMAIN canal'[c] = {}
        BY <3>1
      <3>3. QED
        BY <3>2 DEF ToSet
    <2>4. CASE UNCHANGED canal
      BY <2>4, <2>0
    <2>5. QED
      BY <2>1, <2>2, <2>3, <2>4
  <1>3. UnaReserva'
    <2>1. ctx'[c] # "sin_crear"
      OBVIOUS
    <2>2. QED
      BY <1>1, <1>2, <2>1 DEF UnaReserva
  <1>4. QED
    BY <1>1, <1>2, <1>3 DEF SinLeer

-----------------------------------------------------------------------------
(* Who has a connection, and its lines *)

\* epoll hands out a connection that no thread has, and a thread lets go of it.
LEMMA UnHiloPaso == TypeOK /\ UnHilo /\ [Next]_vars => UnHilo'
  <1> SUFFICES ASSUME TypeOK, UnHilo, [Next]_vars PROVE UnHilo'
    OBVIOUS
  <1>0. con \in [Hilos -> Conexiones \cup {NULO}] /\ NULO \notin Conexiones
    BY NuloAssumption DEF TypeOK
  <1>1. ASSUME UNCHANGED con PROVE UnHilo'
    BY <1>1 DEF UnHilo
  <1>2. ASSUME NEW t \in Hilos, con' = [con EXCEPT ![t] = NULO] PROVE UnHilo'
    BY <1>0, <1>2 DEF UnHilo
  <1>3. ASSUME NEW t \in Hilos, NEW c \in Conexiones, Entregable(t, c),
               con' = [con EXCEPT ![t] = c]
        PROVE  UnHilo'
    BY <1>0, <1>3 DEF UnHilo, Entregable
  <1>4. ASSUME NEW t \in Hilos, Avanzar(t) PROVE UnHilo'
    <2>1. UNCHANGED con \/ con' = [con EXCEPT ![t] = NULO]
      BY <1>4 DEF Avanzar, Conceder, Encolar, Denegar, Responder, Devolver, Promover,
                  FinPromover, Notificar, FinNotificar, Desvincular, Limpiar, Reponer,
                  FinPurga, Cerrar, Rearmar
    <2>2. QED
      BY <2>1, <1>1, <1>2
  <1>5. ASSUME NEW t \in Hilos, NEW c \in Conexiones, Atender(t, c) PROVE UnHilo'
    <2>1. UNCHANGED con \/ (Entregable(t, c) /\ con' = [con EXCEPT ![t] = c])
      BY <1>5 DEF Atender, Aceptar, LeerReserve, LeerRelease, LeerFin
    <2>2. QED
      BY <2>1, <1>1, <1>3
  <1>6. QED
    BY <1>1, <1>4, <1>5
       DEF Next, vars, Anunciar, Expirar, ParLibera, ParCae

\* What a requester, the network or an accepting thread does to the lines of a
\* connection never makes a RESERVE out of a request that is somewhere.
LEMMA LineasDeFuera ==
    ASSUME UInv, NEW c \in Conexiones,
           ParLibera(c) \/ ParCae(c) \/ \E t \in Hilos : Aceptar(t, c)
    PROVE  UnaReserva' /\ SinRepetir' /\ Lugares' /\ NadaVuelve
  <1>0. TypeOK /\ UnaReserva /\ SinRepetir /\ Lugares
        /\ canal \in [Conexiones -> Seq(Mensajes)]
        /\ ctx \in [Conexiones -> {"sin_crear", "viva", "liberada"}]
    BY DEF UInv, IInv, TypeOK
  <1>1. UNCHANGED <<cola, promovidos, pc, con>>
    BY DEF ParLibera, ParCae, Aceptar
  <1>2. UnaReserva' /\ \A d \in Conexiones : SinLeer(d)' => SinLeer(d)
    <2>1. CASE ParLibera(c)
      <3>1. UNCHANGED ctx /\ ctx[c] = "viva"
        BY <2>1 DEF ParLibera, PuedeCerrar
      <3>2. \E r : canal' = [canal EXCEPT ![c] = Append(@, MsgRelease(r))]
                   /\ MsgRelease(r) \in Mensajes
        <4>1. PICK r \in RecIndefinido \cup
                {Pedido[c].rec : i \in {k \in DOMAIN respuestas[c] :
                                          respuestas[c][k].tipo = "GRANTED"}} :
                     canal' = [canal EXCEPT ![c] = Append(@, MsgRelease(r))]
          BY <2>1 DEF ParLibera
        <4>2. r \in RecIndefinido \cup TipoRecurso
          BY PedidoTipo
        <4>3. QED
          BY <4>1, <4>2, MensajesTipo
      <3>3. QED
        BY <3>1, <3>2, <1>0, MarcoLineas
    <2>2. CASE ParCae(c)
      <3>1. UNCHANGED ctx /\ ctx[c] = "viva"
        BY <2>2 DEF ParCae, PuedeCerrar
      <3>2. UNCHANGED canal \/ canal' = [canal EXCEPT ![c] = <<>>]
        BY <2>2, <1>0 DEF ParCae
      <3>3. QED
        BY <3>1, <3>2, <1>0, MarcoLineas
    <2>3. ASSUME NEW t \in Hilos, Aceptar(t, c)
          PROVE  UnaReserva' /\ \A d \in Conexiones : SinLeer(d)' => SinLeer(d)
      <3>1. /\ ctx[c] = "sin_crear" /\ ctx'[c] = "viva"
            /\ \A d \in Conexiones \ {c} : ctx'[d] = ctx[d] /\ canal'[d] = canal[d]
            /\ canal'[c] \in {<<>>, <<MsgReserve>>}
        BY <2>3, <1>0 DEF Aceptar
      <3>2. \A i, k \in DOMAIN canal'[c] : i = k
        BY <3>1
      <3>3. UnaReserva'
        BY <3>1, <3>2, <1>0 DEF UnaReserva
      <3>4. QED
        BY <3>1, <3>3 DEF SinLeer
    <2>4. QED
      BY <2>1, <2>2, <2>3
  <1>3. QED
    BY <1>0, <1>1, <1>2, MarcoLugares

\* A thread reads a RELEASE, or the end.
LEMMA LineasDeRelease ==
    ASSUME UInv, NEW c \in Conexiones, NEW t \in Hilos, LeerRelease(t, c) \/ LeerFin(t, c)
    PROVE  UnaReserva' /\ SinRepetir' /\ Lugares' /\ NadaVuelve
  <1>0. TypeOK /\ UnaReserva /\ SinRepetir /\ Lugares /\ pc \in [Hilos -> Etapas]
        /\ con \in [Hilos -> Conexiones \cup {NULO}]
    BY DEF UInv, IInv, TypeOK
  <1>1. UNCHANGED <<cola, promovidos, ctx>> /\ ctx[c] = "viva" /\ pc[t] = "espera"
    BY DEF LeerRelease, LeerFin, Entregable, redes
  <1>2. \/ canal[c] # <<>> /\ canal' = [canal EXCEPT ![c] = Tail(@)]
        \/ UNCHANGED canal
    BY DEF LeerRelease, LeerFin, redes
  <1>3. UnaReserva' /\ \A d \in Conexiones : SinLeer(d)' => SinLeer(d)
    BY <1>0, <1>1, <1>2, MarcoLineas
  <1>4. \/ UNCHANGED <<pc, con>>
        \/ /\ pc' = [pc EXCEPT ![t] = "devolver"] \/ pc' = [pc EXCEPT ![t] = "desvincular"]
              \/ pc' = [pc EXCEPT ![t] = "cerrar"]
           /\ con' = [con EXCEPT ![t] = c]
    BY DEF LeerRelease, LeerFin
  <1>5. \A h \in Hilos : pc'[h] \in EnDecision => pc[h] \in EnDecision /\ con'[h] = con[h]
    BY <1>0, <1>4 DEF EnDecision
  <1>6. QED
    BY <1>0, <1>1, <1>3, <1>5, MarcoLugares

\* The RESERVE is read: from now on a thread decides, or the request is nowhere.
LEMMA LineasDeReserve ==
    ASSUME UInv, NEW c \in Conexiones, NEW t \in Hilos, LeerReserve(t, c)
    PROVE  UnaReserva' /\ SinRepetir' /\ Lugares' /\ NadaVuelve
  <1>0. /\ TypeOK /\ UnaReserva /\ SinRepetir /\ Lugares /\ pc \in [Hilos -> Etapas]
        /\ con \in [Hilos -> Conexiones \cup {NULO}]
        /\ canal \in [Conexiones -> Seq(Mensajes)]
    BY DEF UInv, IInv, TypeOK
  <1>1. /\ UNCHANGED <<cola, promovidos, ctx>> /\ ctx[c] = "viva" /\ pc[t] = "espera"
        /\ canal[c] # <<>> /\ Head(canal[c]) = MsgReserve
        /\ canal' = [canal EXCEPT ![c] = Tail(@)]
        /\ \/ UNCHANGED <<pc, con>>
           \/ pc' = [pc EXCEPT ![t] = "reservar"] /\ con' = [con EXCEPT ![t] = c]
    BY DEF LeerReserve, Entregable
  <1>2. UnaReserva' /\ \A d \in Conexiones : SinLeer(d)' => SinLeer(d)
    BY <1>0, <1>1, MarcoLineas
  <1>3. /\ SinLeer(c)
        /\ ~ SinLeer(c)'
    <2>1. canal[c] \in Seq(Mensajes) /\ canal'[c] = Tail(canal[c])
      BY <1>0, <1>1
    <2>2. /\ Head(canal[c]) \in ToSet(canal[c]) /\ Head(canal[c]) = canal[c][1]
          /\ \A i \in DOMAIN Tail(canal[c]) :
                i + 1 \in DOMAIN canal[c] /\ Tail(canal[c])[i] = canal[c][i + 1]
      BY <2>1, <1>1, SinElPrimero
    <2>3. DOMAIN Tail(canal[c]) \subseteq Nat \ {0} /\ 1 \in DOMAIN canal[c]
      BY <2>1, <1>1, HeadTailProperties, LenProperties, EmptySeq
    <2>4. \A i \in DOMAIN Tail(canal[c]) : Tail(canal[c])[i] # MsgReserve
      <3> SUFFICES ASSUME NEW i \in DOMAIN Tail(canal[c]), Tail(canal[c])[i] = MsgReserve
                   PROVE  FALSE
        OBVIOUS
      <3>1. i + 1 = 1
        BY <2>2, <2>3, <1>0, <1>1 DEF UnaReserva
      <3>2. QED
        BY <3>1, <2>3
    <2>5. MsgReserve \notin ToSet(canal'[c])
      BY <2>1, <2>4 DEF ToSet
    <2>6. QED
      BY <2>2, <2>5, <1>1 DEF SinLeer
  <1>4. SinRepetir'
    BY <1>0, <1>1 DEF SinRepetir
  <1>5. ASSUME NEW d \in Conexiones PROVE UnLugar(d)' /\ (Pendiente(d)' => Pendiente(d))
    <2>1. Espera(d)' = Espera(d) /\ Promovida(d)' = Promovida(d)
      BY <1>1 DEF Espera, Promovida
    <2>2. UnLugar(d) /\ UnLugar(c)
      BY <1>0 DEF Lugares
    <2>3. Decidida(d)' => Decidida(d) \/ d = c
      BY <1>0, <1>1 DEF Decidida, Decidiendose
    <2>4. QED
      BY <2>1, <2>2, <2>3, <1>2, <1>3 DEF UnLugar, Pendiente
  <1>6. QED
    BY <1>2, <1>4, <1>5 DEF Lugares, NadaVuelve

-----------------------------------------------------------------------------
(* The steps that move a request *)

\* The thread that decides on a request puts it in the queue.
LEMMA LugarEncolar ==
    ASSUME UInv, NEW t \in Hilos, Encolar(t)
    PROVE  SinRepetir' /\ Lugares' /\ NadaVuelve
  <1>0. /\ SinRepetir /\ Lugares /\ UnHilo /\ pc \in [Hilos -> Etapas]
        /\ con \in [Hilos -> Conexiones \cup {NULO}]
        /\ cola \in [TipoRecurso -> Seq(Conexiones)]
        /\ NULO \notin Conexiones
    BY NuloAssumption DEF UInv, IInv, TypeOK
  <1>2. PICK c \in Conexiones : c = con[t]
    BY DEF UInv, IInv, ConEnUso, Encolar, EntraAReservar
  <1>r. PICK r \in TipoRecurso : r = Pedido[c].rec
    BY PedidoTipo
  <1>1. /\ pc[t] = "reservar" /\ cola' = [cola EXCEPT ![r] = Append(@, c)]
        /\ pc' = [pc EXCEPT ![t] = "espera"] /\ con' = [con EXCEPT ![t] = NULO]
        /\ UNCHANGED <<promovidos, ctx, canal>>
    BY <1>2, <1>r DEF Encolar, EntraAReservar, Rearmar, redes
  <1>3. Decidida(c) /\ UnLugar(c)
    BY <1>0, <1>1, <1>2 DEF Decidida, Decidiendose, Lugares
  <1>4. \A q \in TipoRecurso \ {r} : cola'[q] = cola[q]
    BY <1>0, <1>1
  <1>5. /\ ToSet(cola'[r]) = ToSet(cola[r]) \cup {c}
        /\ IsInjective(cola'[r])
    <2>1. c \notin ToSet(cola[r]) /\ IsInjective(cola[r])
      BY <1>0, <1>2, <1>3 DEF UnLugar, Espera, SinRepetir
    <2>2. cola'[r] = Append(cola[r], c) /\ cola[r] \in Seq(Conexiones)
      BY <1>0, <1>1, <1>2
    <2>3. QED
      BY <2>1, <2>2, <1>2, AlFinal
  <1>6. SinRepetir'
    BY <1>0, <1>1, <1>4, <1>5 DEF SinRepetir
  <1>7. ASSUME NEW d \in Conexiones PROVE UnLugar(d)' /\ (Pendiente(d)' => Pendiente(d))
    <2>1. SinLeer(d)' = SinLeer(d) /\ Promovida(d)' = Promovida(d)
      BY <1>1 DEF SinLeer, Promovida
    <2>2. Espera(d)' => Espera(d) \/ d = c
      BY <1>4, <1>5 DEF Espera
    <2>3. Decidida(d)' => Decidida(d)
      BY <1>0, <1>1 DEF Decidida, Decidiendose
    <2>4. ~ Decidida(c)'
      <3>1. \A h \in Hilos \ {t} : con'[h] # c
        BY <1>0, <1>1, <1>2 DEF UnHilo
      <3>2. con'[t] # c
        BY <1>0, <1>1, <1>2
      <3>3. QED
        BY <3>1, <3>2 DEF Decidida, Decidiendose
    <2>5. UnLugar(d)
      BY <1>0 DEF Lugares
    <2>6. QED
      BY <2>1, <2>2, <2>3, <2>4, <2>5, <1>3 DEF UnLugar, Pendiente
  <1>8. QED
    BY <1>6, <1>7 DEF Lugares, NadaVuelve

\* The head of a queue goes to what its thread promoted.
LEMMA LugarPromover ==
    ASSUME UInv, NEW t \in Hilos, Promover(t)
    PROVE  SinRepetir' /\ Lugares' /\ NadaVuelve
  <1>r. PICK r \in TipoRecurso : r = rec[t]
    BY DEF UInv, IInv, TypeOK
  <1>0. /\ SinRepetir /\ Lugares
        /\ cola \in [TipoRecurso -> Seq(Conexiones)] /\ cola[r] \in Seq(DelRecurso(r))
        /\ promovidos \in [Hilos -> Seq(Conexiones)]
        /\ \A q \in TipoRecurso : cola[q] \in Seq(DelRecurso(q))
    BY DEF UInv, IInv, TypeOK, ColaPropia
  <1>c. PICK c \in Conexiones : c = Head(cola[r])
    BY <1>0, <1>r, CabezaYResto DEF Promover, ColaAgotada
  <1>1. /\ cola[r] # <<>> /\ cola' = [cola EXCEPT ![r] = Tail(@)]
        /\ promovidos' = [promovidos EXCEPT ![t] = <<c>> \o @]
        /\ UNCHANGED <<pc, con, ctx, canal>>
    BY <1>r, <1>c DEF Promover, ColaAgotada, Desencolar, redes
  <1>2. /\ c \in ToSet(cola[r])
        /\ ToSet(Tail(cola[r])) \subseteq ToSet(cola[r])
        /\ c \notin ToSet(Tail(cola[r])) /\ IsInjective(Tail(cola[r]))
    <2>1. cola[r] \in Seq(Conexiones) /\ IsInjective(cola[r])
      BY <1>0 DEF SinRepetir
    <2>2. QED
      BY <2>1, <1>1, <1>c, SinElPrimero
  <1>3. Espera(c) /\ UnLugar(c)
    BY <1>0, <1>2 DEF Espera, Lugares
  <1>4. \A q \in TipoRecurso \ {r} : cola'[q] = cola[q] /\ c \notin ToSet(cola[q])
    <2>1. ASSUME NEW q \in TipoRecurso \ {r}, c \in ToSet(cola[q]) PROVE FALSE
      <3>1. ASSUME NEW p \in TipoRecurso, c \in ToSet(cola[p]) PROVE Pedido[c].rec = p
        <4>1. cola[p] \in Seq(DelRecurso(p))
          BY <1>0
        <4>2. \A i \in DOMAIN cola[p] : cola[p][i] \in DelRecurso(p)
          BY <4>1, ElementOfSeq, LenProperties
        <4>3. QED
          BY <3>1, <4>2 DEF ToSet, DelRecurso
      <3>2. Pedido[c].rec = q /\ Pedido[c].rec = r
        BY <3>1, <2>1, <1>0, <1>2
      <3>3. QED
        BY <3>2
    <2>2. QED
      BY <2>1, <1>0, <1>1
  <1>5. cola'[r] = Tail(cola[r])
    BY <1>0, <1>1
  <1>6. /\ \A h \in Hilos \ {t} : promovidos'[h] = promovidos[h]
        /\ ToSet(promovidos'[t]) = ToSet(promovidos[t]) \cup {c}
        /\ IsInjective(promovidos'[t])
    <2>1. \A h \in Hilos : c \notin ToSet(promovidos[h])
      BY <1>3 DEF UnLugar, Promovida
    <2>2. promovidos'[t] = <<c>> \o promovidos[t] /\ promovidos[t] \in Seq(Conexiones)
      BY <1>0, <1>1
    <2>3. IsInjective(promovidos[t])
      BY <1>0 DEF SinRepetir
    <2>4. QED
      BY <2>1, <2>2, <2>3, <1>0, <1>1, <1>2, AlPrincipio
  <1>7. SinRepetir'
    <2>1. \A q \in TipoRecurso : IsInjective(cola'[q])
      BY <1>0, <1>2, <1>4, <1>5 DEF SinRepetir
    <2>2. \A h \in Hilos : IsInjective(promovidos'[h])
      BY <1>0, <1>6 DEF SinRepetir
    <2>3. \A h \in Hilos : c \in ToSet(promovidos'[h]) => h = t
      BY <1>3, <1>6 DEF UnLugar, Promovida
    <2>4. ASSUME NEW h \in Hilos, NEW k \in Hilos, NEW d \in Conexiones,
                 d \in ToSet(promovidos'[h]), d \in ToSet(promovidos'[k])
          PROVE  h = k
      <3>1. CASE d = c
        BY <3>1, <2>3, <2>4
      <3>2. CASE d # c
        <4>1. d \in ToSet(promovidos[h]) /\ d \in ToSet(promovidos[k])
          BY <3>2, <2>4, <1>6
        <4>2. QED
          BY <4>1, <1>0 DEF SinRepetir
      <3>3. QED
        BY <3>1, <3>2
    <2>5. QED
      BY <2>1, <2>2, <2>4 DEF SinRepetir
  <1>8. ASSUME NEW d \in Conexiones PROVE UnLugar(d)' /\ (Pendiente(d)' => Pendiente(d))
    <2>1. SinLeer(d)' = SinLeer(d) /\ Decidida(d)' = Decidida(d)
      BY <1>1 DEF SinLeer, Decidida, Decidiendose
    <2>2. Espera(d)' => Espera(d)
      BY <1>2, <1>4, <1>5 DEF Espera
    <2>3. ~ Espera(c)'
      BY <1>2, <1>4, <1>5 DEF Espera
    <2>4. Promovida(d)' => Promovida(d) \/ d = c
      BY <1>6 DEF Promovida
    <2>5. UnLugar(d)
      BY <1>0 DEF Lugares
    <2>6. QED
      BY <2>1, <2>2, <2>3, <2>4, <2>5, <1>3 DEF UnLugar, Pendiente
  <1>9. QED
    BY <1>7, <1>8 DEF Lugares, NadaVuelve

\* A promoted request is told, and forgotten.
LEMMA LugarNotificar ==
    ASSUME UInv, NEW t \in Hilos, Notificar(t)
    PROVE  SinRepetir' /\ Lugares' /\ NadaVuelve
  <1>0. SinRepetir /\ Lugares /\ promovidos \in [Hilos -> Seq(Conexiones)]
    BY DEF UInv, IInv, TypeOK
  <1>1. /\ promovidos[t] # <<>> /\ promovidos' = [promovidos EXCEPT ![t] = Tail(@)]
        /\ UNCHANGED <<pc, con, ctx, canal, cola>>
    BY DEF Notificar
  <1>2. /\ ToSet(Tail(promovidos[t])) \subseteq ToSet(promovidos[t])
        /\ IsInjective(Tail(promovidos[t]))
    <2>1. IsInjective(promovidos[t]) /\ promovidos[t] \in Seq(Conexiones)
      BY <1>0 DEF SinRepetir
    <2>2. QED
      BY <2>1, <1>1, SinElPrimero
  <1>3. /\ \A h \in Hilos : ToSet(promovidos'[h]) \subseteq ToSet(promovidos[h])
        /\ \A h \in Hilos : IsInjective(promovidos'[h])
    BY <1>0, <1>1, <1>2 DEF SinRepetir
  <1>4. SinRepetir'
    BY <1>0, <1>1, <1>3 DEF SinRepetir
  <1>5. ASSUME NEW d \in Conexiones PROVE UnLugar(d)' /\ (Pendiente(d)' => Pendiente(d))
    <2>1. SinLeer(d)' = SinLeer(d) /\ Decidida(d)' = Decidida(d) /\ Espera(d)' = Espera(d)
      BY <1>1 DEF SinLeer, Decidida, Decidiendose, Espera
    <2>2. Promovida(d)' => Promovida(d)
      BY <1>3 DEF Promovida
    <2>3. UnLugar(d)
      BY <1>0 DEF Lugares
    <2>4. QED
      BY <2>1, <2>2, <2>3 DEF UnLugar, Pendiente
  <1>6. QED
    BY <1>4, <1>5 DEF Lugares, NadaVuelve

\* A purge takes requests out of a queue, and puts them nowhere.
LEMMA LugarLimpiar ==
    ASSUME UInv, NEW t \in Hilos, Limpiar(t)
    PROVE  SinRepetir' /\ Lugares' /\ NadaVuelve
  <1>r. PICK r \in TipoRecurso : r = rec[t]
    BY DEF UInv, IInv, TypeOK
  <1>n. PICK n : n = EnPurga(t)
    OBVIOUS
  <1>0. /\ SinRepetir /\ Lugares
        /\ pc \in [Hilos -> Etapas] /\ cola \in [TipoRecurso -> Seq(Conexiones)]
    BY DEF UInv, IInv, TypeOK
  <1>1. /\ cola' = [cola EXCEPT ![r] = SinNodo(@, n)]
        /\ UNCHANGED <<con, ctx, canal, promovidos>>
        /\ UNCHANGED pc \/ pc' = [pc EXCEPT ![t] = "reponer"]
    BY <1>r, <1>n DEF Limpiar, redes
  <1>2. /\ ToSet(SinNodo(cola[r], n)) \subseteq ToSet(cola[r])
        /\ IsInjective(SinNodo(cola[r], n))
    <2>1. IsInjective(cola[r]) /\ cola[r] \in Seq(Conexiones)
      BY <1>0 DEF SinRepetir
    <2>2. QED
      BY <2>1, SinNodoUnicos
  <1>3. /\ \A q \in TipoRecurso : ToSet(cola'[q]) \subseteq ToSet(cola[q])
        /\ \A q \in TipoRecurso : IsInjective(cola'[q])
    BY <1>0, <1>1, <1>2 DEF SinRepetir
  <1>4. SinRepetir'
    BY <1>0, <1>1, <1>3 DEF SinRepetir
  <1>5. ASSUME NEW d \in Conexiones PROVE UnLugar(d)' /\ (Pendiente(d)' => Pendiente(d))
    <2>1. SinLeer(d)' = SinLeer(d) /\ Promovida(d)' = Promovida(d)
      BY <1>1 DEF SinLeer, Promovida
    <2>2. Espera(d)' => Espera(d)
      BY <1>3 DEF Espera
    <2>3. Decidida(d)' => Decidida(d)
      BY <1>0, <1>1 DEF Decidida, Decidiendose
    <2>4. UnLugar(d)
      BY <1>0 DEF Lugares
    <2>5. QED
      BY <2>1, <2>2, <2>3, <2>4 DEF UnLugar, Pendiente
  <1>6. QED
    BY <1>4, <1>5 DEF Lugares, NadaVuelve

\* No step of a thread or of the network puts a request in a second place.
LEMMA LugaresPaso == UInv /\ [Next]_vars => UnaReserva' /\ SinRepetir' /\ Lugares' /\ NadaVuelve
  <1> SUFFICES ASSUME UInv, [Next]_vars PROVE UnaReserva' /\ SinRepetir' /\ Lugares' /\ NadaVuelve
    OBVIOUS
  <1> DEFINE Meta == UnaReserva' /\ SinRepetir' /\ Lugares' /\ NadaVuelve
  <1>0. /\ UnaReserva /\ SinRepetir /\ Lugares /\ pc \in [Hilos -> Etapas]
        /\ con \in [Hilos -> Conexiones \cup {NULO}]
        /\ ctx \in [Conexiones -> {"sin_crear", "viva", "liberada"}]
    BY DEF UInv, IInv, TypeOK
  <1>1. ASSUME UNCHANGED <<ctx, canal>>, SinRepetir' /\ Lugares' /\ NadaVuelve PROVE Meta
    BY <1>0, <1>1 DEF UnaReserva
  <1>2. ASSUME NEW t \in Hilos, Encolar(t) \/ Promover(t) \/ Notificar(t) \/ Limpiar(t)
        PROVE  Meta
    <2>1. UNCHANGED <<ctx, canal>>
      BY <1>2 DEF Encolar, Promover, Notificar, Limpiar, redes
    <2>2. QED
      BY <2>1, <1>1, <1>2, LugarEncolar, LugarPromover, LugarNotificar, LugarLimpiar
  <1>3. ASSUME NEW t \in Hilos,
               \/ Conceder(t) \/ Denegar(t) \/ Responder(t) \/ Devolver(t) \/ FinPromover(t)
               \/ FinNotificar(t) \/ Desvincular(t) \/ Reponer(t) \/ FinPurga(t)
        PROVE  Meta
    <2>1. UNCHANGED <<cola, promovidos, ctx, canal>>
      BY <1>3 DEF Conceder, Denegar, Responder, Devolver, FinPromover, FinNotificar,
                  Desvincular, Reponer, FinPurga, redes
    <2>2. \A h \in Hilos : pc'[h] \in EnDecision => pc[h] \in EnDecision /\ con'[h] = con[h]
      <3>1. CASE Conceder(t) \/ Denegar(t)
        BY <3>1, <1>0 DEF Conceder, Denegar, EntraAReservar, EnDecision
      <3>2. CASE Responder(t) \/ FinNotificar(t)
        BY <3>2, <1>0 DEF Responder, FinNotificar, Rearmar, EnDecision
      <3>3. CASE Devolver(t) \/ FinPromover(t) \/ Desvincular(t) \/ Reponer(t) \/ FinPurga(t)
        BY <3>3, <1>0 DEF Devolver, FinPromover, Desvincular, Reponer, FinPurga, EnDecision
      <3>4. QED
        BY <3>1, <3>2, <3>3, <1>3
    <2>3. SinRepetir' /\ Lugares' /\ NadaVuelve
      BY <2>1, <2>2, <1>0, MarcoHilos
    <2>4. QED
      BY <2>1, <2>3, <1>1
  <1>4. ASSUME NEW t \in Hilos, Cerrar(t) PROVE Meta
    <2>1. /\ UNCHANGED <<cola, promovidos, canal>>
          /\ pc' = [pc EXCEPT ![t] = "espera"] /\ con' = [con EXCEPT ![t] = NULO]
          /\ ctx' = [ctx EXCEPT ![con[t]] = "liberada"]
      BY <1>4 DEF Cerrar
    <2>2. \A d \in Conexiones : ctx'[d] = "sin_crear" => ctx[d] = "sin_crear"
      BY <2>1, <1>0
    <2>3. \A c \in Conexiones : SinLeer(c)' => SinLeer(c)
      BY <2>1, <2>2 DEF SinLeer
    <2>4. \A h \in Hilos : pc'[h] \in EnDecision => pc[h] \in EnDecision /\ con'[h] = con[h]
      BY <2>1, <1>0 DEF EnDecision
    <2>5. SinRepetir' /\ Lugares' /\ NadaVuelve
      BY <2>1, <2>3, <2>4, <1>0, MarcoLugares
    <2>6. QED
      BY <2>1, <2>2, <2>5, <1>0 DEF UnaReserva
  <1>5. ASSUME NEW t \in Hilos, NEW n \in Nodos, Anunciar(t, n) PROVE Meta
    <2>1. UNCHANGED <<cola, promovidos, ctx, canal, pc, con>>
      BY <1>5 DEF Anunciar, redes
    <2>2. SinRepetir' /\ Lugares' /\ NadaVuelve
      BY <2>1, <1>0, MarcoHilos
    <2>3. QED
      BY <2>1, <2>2, <1>1
  <1>6. ASSUME NEW t \in Hilos, NEW E \in SUBSET Expirables, Expirar(t, E) PROVE Meta
    <2>1. UNCHANGED <<cola, promovidos, ctx, canal, con>>
          /\ pc' = [pc EXCEPT ![t] = "desvincular"]
      BY <1>6 DEF Expirar, redes
    <2>2. \A h \in Hilos : pc'[h] \in EnDecision => pc[h] \in EnDecision /\ con'[h] = con[h]
      BY <2>1, <1>0 DEF EnDecision
    <2>3. SinRepetir' /\ Lugares' /\ NadaVuelve
      BY <2>1, <2>2, <1>0, MarcoHilos
    <2>4. QED
      BY <2>1, <2>3, <1>1
  <1>7. ASSUME NEW t \in Hilos, NEW c \in Conexiones, Atender(t, c) PROVE Meta
    BY <1>7, LineasDeFuera, LineasDeRelease, LineasDeReserve DEF Atender
  <1>8. CASE UNCHANGED vars
    <2>1. UNCHANGED <<cola, promovidos, ctx, canal, pc, con>>
      BY <1>8 DEF vars
    <2>2. SinRepetir' /\ Lugares' /\ NadaVuelve
      BY <2>1, <1>0, MarcoHilos
    <2>3. QED
      BY <2>1, <2>2, <1>1
  <1>9. QED
    BY <1>2, <1>3, <1>4, <1>5, <1>6, <1>7, <1>8, LineasDeFuera DEF Next, Avanzar

\* At the start nothing was read.
LEMMA UInvInit == Init => UInv
  <1> SUFFICES ASSUME Init PROVE UInv
    OBVIOUS
  <1>1. UnHilo
    BY NuloAssumption DEF Init, UnHilo
  <1>2. UnaReserva
    BY DEF Init, UnaReserva
  <1>3. /\ \A r \in TipoRecurso : cola[r] = <<>>
        /\ \A t \in Hilos : promovidos[t] = <<>> /\ pc[t] = "espera"
    BY DEF Init
  <1>4. ToSet(<<>>) = {} /\ IsInjective(<<>>)
    BY DEF ToSet, IsInjective
  <1>5. SinRepetir
    BY <1>3, <1>4 DEF SinRepetir
  <1>6. Lugares
    BY <1>3, <1>4 DEF Lugares, UnLugar, Espera, Promovida, Decidida, Decidiendose
  <1>7. QED
    BY <1>1, <1>2, <1>5, <1>6, IInvInit DEF UInv

\* The whole invariant is kept.
LEMMA UInvPaso == UInv /\ [Next]_vars => UInv'
  BY IInvPaso, UnHiloPaso, LugaresPaso DEF UInv, IInv

-----------------------------------------------------------------------------
(* One place at most *)

\* A set with no two elements has one at most.
LEMMA ALoSumoUno ==
    ASSUME NEW S, \A x, y \in S : x = y
    PROVE  /\ S = {} => Cardinality(S) = 0
           /\ S # {} => Cardinality(S) = 1
  <1>1. Cardinality({}) = 0
    BY FS_EmptySet
  <1>2. ASSUME S # {} PROVE Cardinality(S) = 1
    <2>1. PICK x \in S : TRUE
      BY <1>2
    <2>2. S = {x}
      BY <2>1
    <2>3. QED
      BY <2>2, FS_Singleton
  <1>3. QED
    BY <1>1, <1>2

\* The three kinds of places, as Apariciones counts them.
LEMMA PocosLugares ==
    ASSUME UInv, NEW c \in Conexiones
    PROVE  /\ Apariciones(c) \in {0, 1}
           /\ Apariciones(c) = 1 => Espera(c) \/ Promovida(c) \/ Decidida(c)
  <1> DEFINE A == {p \in TipoRecurso \X Posiciones : EnCola(c, p)}
             B == {p \in Hilos \X Posiciones : EnPromovidos(c, p)}
             D == {t \in Hilos : Decidiendose(c, t)}
  <1>0. /\ SinRepetir /\ UnLugar(c) /\ UnHilo
        /\ \A r \in TipoRecurso : cola[r] \in Seq(DelRecurso(r))
    BY DEF UInv, IInv, Lugares, ColaPropia
  <1>1. /\ \A p, q \in A : p = q
        /\ A # {} => Espera(c)
    <2>1. ASSUME NEW p \in A
          PROVE  \E r \in TipoRecurso, i \in Posiciones :
                    p = <<r, i>> /\ i \in DOMAIN cola[r] /\ cola[r][i] = c /\ r = Pedido[c].rec
      <3>1. PICK r \in TipoRecurso, i \in Posiciones : p = <<r, i>>
        OBVIOUS
      <3>2. i \in DOMAIN cola[r] /\ cola[r][i] = c
        BY <3>1 DEF EnCola
      <3>3. c \in DelRecurso(r)
        BY <3>2, <1>0, ElementOfSeq, LenProperties
      <3>4. QED
        BY <3>1, <3>2, <3>3 DEF DelRecurso
    <2>2. \A p, q \in A : p = q
      BY <2>1, <1>0 DEF SinRepetir, IsInjective
    <2>3. A # {} => Espera(c)
      BY <2>1 DEF Espera, ToSet
    <2>4. QED
      BY <2>2, <2>3
  <1>2. /\ \A p, q \in B : p = q
        /\ B # {} => Promovida(c)
    <2>1. ASSUME NEW p \in B
          PROVE  \E t \in Hilos, i \in Posiciones :
                    /\ p = <<t, i>> /\ i \in DOMAIN promovidos[t] /\ promovidos[t][i] = c
                    /\ c \in ToSet(promovidos[t])
      <3>1. PICK t \in Hilos, i \in Posiciones : p = <<t, i>>
        OBVIOUS
      <3>2. i \in DOMAIN promovidos[t] /\ promovidos[t][i] = c
        BY <3>1 DEF EnPromovidos
      <3>3. QED
        BY <3>1, <3>2 DEF ToSet
    <2>2. \A p, q \in B : p = q
      BY <2>1, <1>0 DEF SinRepetir, IsInjective
    <2>3. B # {} => Promovida(c)
      BY <2>1 DEF Promovida
    <2>4. QED
      BY <2>2, <2>3
  <1>3. /\ \A t, h \in D : t = h
        /\ D # {} => Decidida(c)
    BY <1>0 DEF UnHilo, Decidida, Decidiendose
  <1> HIDE DEF A, B, D
  <1>4. /\ A # {} => B = {} /\ D = {}
        /\ B # {} => D = {}
    BY <1>0, <1>1, <1>2, <1>3 DEF UnLugar
  <1>5. /\ A = {} => Cardinality(A) = 0
        /\ A # {} => Cardinality(A) = 1
    BY <1>1, ALoSumoUno
  <1>6. /\ B = {} => Cardinality(B) = 0
        /\ B # {} => Cardinality(B) = 1
    BY <1>2, ALoSumoUno
  <1>7. /\ D = {} => Cardinality(D) = 0
        /\ D # {} => Cardinality(D) = 1
    BY <1>3, ALoSumoUno
  <1>8. Apariciones(c) = Cardinality(A) + Cardinality(B) + Cardinality(D)
    BY DEF Apariciones, A, B, D
  <1>9. QED
    BY <1>1, <1>2, <1>3, <1>4, <1>5, <1>6, <1>7, <1>8

\* In every execution a request is in one place at most: waiting once, in one
\* queue, or promoted by one thread, or being decided by one.
THEOREM SolicitudUnicaSiempre == Spec => []SolicitudUnica
  <1>1. UInv => SolicitudUnica
    BY PocosLugares DEF SolicitudUnica
  <1>2. QED
    BY UInvInit, UInvPaso, <1>1, PTL DEF Spec

-----------------------------------------------------------------------------
(* Wake-ups *)

\* The thread that serves a queue holds the resource's mutex all along.
ConElMutex == \A t \in Hilos : pc[t] = "promover" => mutex[rec[t]] = t

\* The mutex of a resource is taken when it is free and given back by its holder.
LEMMA ConElMutexPaso == TypeOK /\ ConElMutex /\ [Next]_vars => ConElMutex'
  <1> SUFFICES ASSUME TypeOK, ConElMutex, [Next]_vars, NEW h \in Hilos, pc'[h] = "promover"
               PROVE  mutex'[rec'[h]] = h
    BY DEF ConElMutex
  <1> DEFINE Meta == mutex'[rec'[h]] = h
  <1>0. /\ pc \in [Hilos -> Etapas] /\ rec \in [Hilos -> TipoRecurso]
        /\ mutex \in [TipoRecurso -> Hilos \cup {NULO}] /\ NULO \notin Hilos
        /\ pc[h] = "promover" => mutex[rec[h]] = h
    BY NuloAssumption DEF TypeOK, ConElMutex
  <1>1. ASSUME NEW t \in Hilos, Devolver(t) PROVE Meta
    <2>1. /\ mutex[rec[t]] = NULO /\ mutex' = [mutex EXCEPT ![rec[t]] = t]
          /\ pc' = [pc EXCEPT ![t] = "promover"] /\ UNCHANGED rec
      BY <1>1 DEF Devolver
    <2>2. QED
      BY <2>1, <1>0
  <1>2. ASSUME NEW t \in Hilos, FinPromover(t) PROVE Meta
    <2>1. /\ pc[t] = "promover" /\ mutex' = [mutex EXCEPT ![rec[t]] = NULO]
          /\ pc' = [pc EXCEPT ![t] = "notificar"] /\ UNCHANGED rec
      BY <1>2 DEF FinPromover, Desbloquear
    <2>2. mutex[rec[t]] = t
      BY <2>1 DEF ConElMutex
    <2>3. QED
      BY <2>1, <2>2, <1>0
  <1>3. ASSUME NEW t \in Hilos, Denegar(t) PROVE Meta
    <2>1. PICK r : /\ mutex[r] = NULO /\ mutex' = [mutex EXCEPT ![r] = t]
                   /\ pc' = [pc EXCEPT ![t] = "denegar"] /\ UNCHANGED rec
      BY <1>3 DEF Denegar, EntraAReservar
    <2>2. QED
      BY <2>1, <1>0
  <1>4. ASSUME UNCHANGED mutex, pc[h] = "promover", rec'[h] = rec[h] PROVE Meta
    BY <1>4, <1>0
  <1>5. ASSUME NEW t \in Hilos,
               \/ Conceder(t) \/ Encolar(t) \/ Responder(t) \/ Promover(t) \/ Notificar(t)
               \/ FinNotificar(t) \/ FinPurga(t) \/ Cerrar(t)
        PROVE  Meta
    <2>1. UNCHANGED <<mutex, rec>>
      BY <1>5 DEF Conceder, Encolar, Responder, Promover, Notificar, FinNotificar, FinPurga,
                  Cerrar
    <2>2. pc[h] = "promover"
      <3>1. CASE Conceder(t) \/ Encolar(t) \/ Responder(t) \/ Cerrar(t)
        BY <3>1, <1>0 DEF Conceder, Encolar, Responder, Cerrar
      <3>2. CASE Promover(t) \/ Notificar(t) \/ FinNotificar(t) \/ FinPurga(t)
        BY <3>2, <1>0 DEF Promover, Notificar, FinNotificar, FinPurga
      <3>3. QED
        BY <3>1, <3>2, <1>5
    <2>3. QED
      BY <2>1, <2>2, <1>4
  <1>6. ASSUME NEW t \in Hilos, Desvincular(t) \/ Limpiar(t) \/ Reponer(t) PROVE Meta
    <2>1. UNCHANGED mutex /\ pc[t] # "promover" /\ pc'[t] # "promover"
      BY <1>6, <1>0 DEF Desvincular, Limpiar, Reponer
    <2>2. \A k \in Hilos \ {t} : pc'[k] = pc[k] /\ rec'[k] = rec[k]
      BY <1>6, <1>0 DEF Desvincular, Limpiar, Reponer
    <2>3. QED
      BY <2>1, <2>2, <1>4
  <1>7. ASSUME NEW t \in Hilos, NEW c \in Conexiones, Atender(t, c) PROVE Meta
    <2>1. UNCHANGED mutex /\ pc[t] = "espera" /\ pc'[t] # "promover"
      BY <1>7, <1>0 DEF Atender, Aceptar, LeerReserve, LeerRelease, LeerFin, Entregable
    <2>2. \A k \in Hilos \ {t} : pc'[k] = pc[k] /\ rec'[k] = rec[k]
      BY <1>7, <1>0 DEF Atender, Aceptar, LeerReserve, LeerRelease, LeerFin
    <2>3. QED
      BY <2>1, <2>2, <1>4
  <1>8. ASSUME NEW t \in Hilos, NEW E \in SUBSET Expirables, Expirar(t, E) PROVE Meta
    BY <1>8, <1>4, <1>0 DEF Expirar
  <1>9. ASSUME UNCHANGED <<mutex, pc, rec>> PROVE Meta
    BY <1>9, <1>0
  <1>10. QED
    BY <1>1, <1>2, <1>3, <1>5, <1>6, <1>7, <1>8, <1>9
       DEF Next, Avanzar, vars, Anunciar, ParLibera, ParCae

\* What a step must do to leave a servable head behind.
LEMMA DespertaresPaso ==
    ASSUME IInv, ConElMutex, [Next]_vars, NEW r \in TipoRecurso,
           ~ Despertable(r), mutex'[r] = NULO, cola'[r] # <<>>,
           cantDisp'[Pedido[Head(cola'[r])].rec] >= Pedido[Head(cola'[r])].cant
    PROVE  \E t \in Hilos : pc[t] \in {"limpiar", "reponer"} /\ rec[t] = r
  <1> DEFINE Meta == \E t \in Hilos : pc[t] \in {"limpiar", "reponer"} /\ rec[t] = r
  <1>0. /\ rec \in [Hilos -> TipoRecurso] /\ cantDisp \in [TipoRecurso -> Nat]
        /\ mutex \in [TipoRecurso -> Hilos \cup {NULO}] /\ NULO \notin Hilos
        /\ cola \in [TipoRecurso -> Seq(Conexiones)]
        /\ \A q \in TipoRecurso : cola[q] \in Seq(DelRecurso(q))
    BY NuloAssumption DEF IInv, TypeOK, ColaPropia
  <1>1. ~ (mutex[r] = NULO /\ cola[r] # <<>>
             /\ cantDisp[Pedido[Head(cola[r])].rec] >= Pedido[Head(cola[r])].cant)
    BY DEF Despertable, Cabe
  <1>2. \A q \in TipoRecurso : cola[q] # <<>> =>
            Head(cola[q]) \in Conexiones /\ Pedido[Head(cola[q])].rec = q
    <2> SUFFICES ASSUME NEW q \in TipoRecurso, cola[q] # <<>>
                 PROVE  Head(cola[q]) \in DelRecurso(q)
      BY DEF DelRecurso
    <2>1. QED
      BY <1>0, CabezaYResto
  <1>3. ASSUME UNCHANGED <<mutex, cola>>, UNCHANGED cantDisp PROVE Meta
    BY <1>3, <1>1
  <1>4. ASSUME NEW t \in Hilos, Conceder(t) PROVE Meta
    <2>1. /\ UNCHANGED <<mutex, cola>> /\ cola[Pedido[con[t]].rec] = <<>>
          /\ cantDisp' = [cantDisp EXCEPT ![Pedido[con[t]].rec] = @ - Pedido[con[t]].cant]
      BY <1>4 DEF Conceder, NadieEspera, Descontar
    <2>2. cola[r] # <<>> /\ Pedido[con[t]].rec # r
      BY <2>1
    <2>3. cantDisp'[r] = cantDisp[r]
      BY <2>1, <2>2, <1>0
    <2>4. QED
      BY <2>1, <2>3, <1>1, <1>2
  <1>5. ASSUME NEW t \in Hilos, Encolar(t) PROVE Meta
    <2>1. PICK c \in Conexiones : c = con[t]
      BY <1>5 DEF IInv, ConEnUso, Encolar, EntraAReservar
    <2>2. PICK q \in TipoRecurso : q = Pedido[c].rec
      BY PedidoTipo
    <2>3. /\ UNCHANGED <<mutex, cantDisp>> /\ mutex[q] = NULO
          /\ ~ (cola[q] = <<>> /\ cantDisp[q] >= Pedido[c].cant)
          /\ cola' = [cola EXCEPT ![q] = Append(@, c)]
      BY <1>5, <2>1, <2>2 DEF Encolar, EntraAReservar, NadieEspera, Cabe
    <2>4. CASE q # r
      <3>1. cola'[r] = cola[r]
        BY <2>3, <2>4, <1>0
      <3>2. QED
        BY <3>1, <2>3, <1>1
    <2>5. CASE q = r /\ cola[r] = <<>>
      <3>1. cola'[r] = <<c>>
        BY <2>3, <2>5, <1>0
      <3>2. Head(cola'[r]) = c
        BY <3>1
      <3>3. QED
        BY <3>2, <2>2, <2>3, <2>5
    <2>6. CASE q = r /\ cola[r] # <<>>
      <3>1. cola'[r] = Append(cola[r], c) /\ cola[r] \in Seq(Conexiones)
        BY <2>3, <2>6, <1>0
      <3>2. Head(cola'[r]) = Head(cola[r])
        BY <3>1, <2>6
      <3>3. QED
        BY <3>2, <2>3, <2>6, <1>1
    <2>7. QED
      BY <2>4, <2>5, <2>6
  <1>6. ASSUME NEW t \in Hilos, Devolver(t) \/ Denegar(t) PROVE Meta
    <2>1. PICK q : /\ UNCHANGED cola /\ mutex[q] = NULO
                   /\ mutex' = [mutex EXCEPT ![q] = t]
                   /\ \/ UNCHANGED cantDisp
                      \/ cantDisp' = [cantDisp EXCEPT ![q] = @ + monto[t]]
      BY <1>6 DEF Devolver, Denegar, EntraAReservar
    <2>2. q # r
      BY <2>1, <1>0
    <2>3. mutex'[r] = mutex[r] /\ cantDisp'[r] = cantDisp[r]
      BY <2>1, <2>2, <1>0
    <2>4. QED
      BY <2>1, <2>3, <1>1, <1>2
  <1>7. ASSUME NEW t \in Hilos, Promover(t) PROVE Meta
    <2>1. PICK q \in TipoRecurso : q = rec[t]
      BY <1>0
    <2>2. /\ mutex[q] = t /\ UNCHANGED mutex /\ cola[q] # <<>>
          /\ cola' = [cola EXCEPT ![q] = Tail(@)]
          /\ cantDisp' = [cantDisp EXCEPT ![Pedido[Head(cola[q])].rec]
                                              = @ - Pedido[Head(cola[q])].cant]
      BY <1>7, <2>1 DEF Promover, ConElMutex, ColaAgotada, Desencolar, Descontar
    <2>3. q # r
      BY <2>2, <1>0
    <2>4. Pedido[Head(cola[q])].rec = q
      BY <2>2, <1>2
    <2>5. cola'[r] = cola[r] /\ cantDisp'[r] = cantDisp[r]
      BY <2>2, <2>3, <2>4, <1>0
    <2>6. QED
      BY <2>2, <2>5, <1>1, <1>2
  <1>8. ASSUME NEW t \in Hilos, FinPromover(t) PROVE Meta
    <2>1. /\ UNCHANGED <<cola, cantDisp>> /\ mutex' = [mutex EXCEPT ![rec[t]] = NULO]
          /\ cola[rec[t]] # <<>> => ~ Cabe(Head(cola[rec[t]]))
      BY <1>8 DEF FinPromover, Desbloquear, ColaAgotada
    <2>2. CASE rec[t] = r
      BY <2>1, <2>2 DEF Cabe
    <2>3. CASE rec[t] # r
      BY <2>1, <2>3, <1>0, <1>1
    <2>4. QED
      BY <2>2, <2>3
  <1>9. ASSUME NEW t \in Hilos, Limpiar(t) PROVE Meta
    <2>1. UNCHANGED <<mutex, cantDisp>> /\ pc[t] = "limpiar"
          /\ cola' = [cola EXCEPT ![rec[t]] = SinNodo(@, EnPurga(t))]
      BY <1>9 DEF Limpiar
    <2>2. CASE rec[t] = r
      BY <2>1, <2>2
    <2>3. CASE rec[t] # r
      BY <2>1, <2>3, <1>0, <1>1
    <2>4. QED
      BY <2>2, <2>3
  <1>10. ASSUME NEW t \in Hilos, Reponer(t) PROVE Meta
    <2>1. PICK n : /\ UNCHANGED <<mutex, cola>> /\ pc[t] = "reponer"
                   /\ cantDisp' = [cantDisp EXCEPT ![rec[t]] = n]
      BY <1>10 DEF Reponer
    <2>2. CASE rec[t] = r
      BY <2>1, <2>2
    <2>3. CASE rec[t] # r
      BY <2>1, <2>3, <1>0, <1>1, <1>2
    <2>4. QED
      BY <2>2, <2>3
  <1>11. ASSUME NEW t \in Hilos,
                \/ Responder(t) \/ Notificar(t) \/ FinNotificar(t) \/ Desvincular(t)
                \/ FinPurga(t) \/ Cerrar(t)
         PROVE  Meta
    BY <1>11, <1>3 DEF Responder, Notificar, FinNotificar, Desvincular, FinPurga, Cerrar
  <1>12. ASSUME NEW t \in Hilos, NEW c \in Conexiones, Atender(t, c) PROVE Meta
    BY <1>12, <1>3 DEF Atender, Aceptar, LeerReserve, LeerRelease, LeerFin
  <1>13. QED
    BY <1>3, <1>4, <1>5, <1>6, <1>7, <1>8, <1>9, <1>10, <1>11, <1>12
       DEF Next, Avanzar, vars, Anunciar, Expirar, ParLibera, ParCae

\* In every execution only the purge of a node leaves a request waiting that
\* could be served: RESERVE, RELEASE, DENIED and promotions lose no wake-up.
THEOREM DespertaresSiempre == Spec => SoloLaPurgaPierdeDespertares
  <1>1. Init => ConElMutex
    BY DEF Init, ConElMutex
  <1>2. ASSUME IInv, ConElMutex, [Next]_vars
        PROVE  \A r \in TipoRecurso : ~ Despertable(r) /\ Despertable(r)' =>
                  \E t \in Hilos : pc[t] \in {"limpiar", "reponer"} /\ rec[t] = r
    <2> SUFFICES ASSUME NEW r \in TipoRecurso, ~ Despertable(r), Despertable(r)'
                 PROVE  \E t \in Hilos : pc[t] \in {"limpiar", "reponer"} /\ rec[t] = r
      OBVIOUS
    <2>1. /\ mutex'[r] = NULO /\ cola'[r] # <<>>
          /\ cantDisp'[Pedido[Head(cola'[r])].rec] >= Pedido[Head(cola'[r])].cant
      BY DEF Despertable, Cabe
    <2>2. QED
      BY <2>1, <1>2, DespertaresPaso
  <1>3. IInv => TypeOK
    BY DEF IInv
  <1>4. QED
    BY IInvInit, IInvPaso, ConElMutexPaso, <1>1, <1>2, <1>3, PTL
       DEF Spec, SoloLaPurgaPierdeDespertares

-----------------------------------------------------------------------------
(* Answers *)

\* A thread that ends a connection, by its purge or without one.
AlFinalDe(t) == pc[t] \in {"desvincular", "limpiar", "reponer", "cerrar"}

\* An idle thread has no connection, and one that ends a connection has one of
\* which all was read.
FinesLeidos ==
    \A t \in Hilos :
        /\ pc[t] = "espera" => con[t] = NULO
        /\ AlFinalDe(t) /\ con[t] \in Conexiones => Terminada(con[t])

\* A context is freed at the end of its connection, and only a connection that
\* was accepted comes to its end.
FinDeContextos ==
    \A c \in Conexiones :
        /\ ctx[c] = "liberada" => Terminada(c)
        /\ par[c] = "cerrada" => ctx[c] # "sin_crear"

\* A request of a job under way has no answer of its own, or the only one, and
\* the answers of other jobs are of jobs that are over.
AUnoSolo(c) ==
    \A j \in JobIds : EnMarcha(j) =>
        /\ Pedido[c].jobId = j =>
              /\ Pendiente(c) => Propias(c) = {}
              /\ \A i, k \in Propias(c) : i = k
        /\ \A i \in DOMAIN respuestas[c] \ Propias(c) : respuestas[c][i].jobId # j
Contestadas == \A c \in Conexiones : AUnoSolo(c)

RInv == UInv /\ FinesLeidos /\ FinDeContextos /\ Contestadas

\* A requester that closes does not open again.
LEMMA ParNoReabre ==
    ASSUME TypeOK, [Next]_vars, NEW c \in Conexiones, par'[c] = "abierta"
    PROVE  par[c] = "abierta"
  <1>1. par \in [Conexiones -> {"abierta", "cerrada"}]
    BY DEF TypeOK
  <1>2. QED
    BY ZenonT(40), <1>1 DEF Next, vars, Avanzar, Conceder, Encolar, Denegar, Responder, Devolver, Promover,
                FinPromover, Notificar, FinNotificar, Desvincular, Limpiar, Reponer, FinPurga,
                Cerrar, Atender, Aceptar, LeerReserve, LeerRelease, LeerFin, Anunciar, Expirar,
                ParLibera, ParCae, redes

\* What was read to the end stays so.
LEMMA TerminadaSigue ==
    ASSUME TypeOK, FinDeContextos, [Next]_vars, NEW c \in Conexiones, Terminada(c)
    PROVE  Terminada(c)'
  <1>0. /\ canal \in [Conexiones -> Seq(Mensajes)]
        /\ par \in [Conexiones -> {"abierta", "cerrada"}]
        /\ par' \in [Conexiones -> {"abierta", "cerrada"}]
    <2>1. UNCHANGED par \/ \E d \in Conexiones : par' = [par EXCEPT ![d] = "cerrada"]
      BY ZenonT(40) DEF Next, vars, Avanzar, Conceder, Encolar, Denegar, Responder, Devolver, Promover,
             FinPromover, Notificar, FinNotificar, Desvincular, Limpiar, Reponer, FinPurga,
             Cerrar, Atender, Aceptar, LeerReserve, LeerRelease, LeerFin, Anunciar, Expirar,
             ParLibera, ParCae, redes
    <2>2. QED
      BY <2>1 DEF TypeOK
  <1>1. par'[c] = "cerrada"
    BY <1>0, ParNoReabre DEF Terminada
  <1>2. par[c] = "cerrada" /\ canal[c] = <<>> /\ ctx[c] # "sin_crear"
    BY DEF Terminada, FinDeContextos
  <1>3. canal'[c] = <<>>
    <2>1. ASSUME NEW t \in Hilos, NEW d \in Conexiones, LeerReserve(t, d) \/ LeerRelease(t, d)
          PROVE  canal'[c] = canal[c]
      <3>1. canal[d] # <<>> /\ canal' = [canal EXCEPT ![d] = Tail(@)]
        BY <2>1 DEF LeerReserve, LeerRelease
      <3>2. QED
        BY <1>0, <1>2, <3>1
    <2>2. ASSUME NEW t \in Hilos, NEW d \in Conexiones, Aceptar(t, d)
          PROVE  canal'[c] = canal[c]
      <3>1. ctx[d] = "sin_crear" /\ \E s : canal' = [canal EXCEPT ![d] = s]
        BY <2>2 DEF Aceptar
      <3>2. QED
        BY <1>0, <1>2, <3>1
    <2>3. ASSUME NEW d \in Conexiones, ParLibera(d) \/ ParCae(d)
          PROVE  canal'[c] = canal[c]
      <3>1. par[d] = "abierta" /\ \E s : canal' = [canal EXCEPT ![d] = s]
        BY <2>3 DEF ParLibera, ParCae, PuedeCerrar
      <3>2. QED
        BY <1>0, <1>2, <3>1
    <2>4. ASSUME UNCHANGED canal PROVE canal'[c] = canal[c]
      BY <2>4
    <2>5. canal'[c] = canal[c]
      BY <2>1, <2>2, <2>3, <2>4
         DEF Next, vars, Avanzar, Conceder, Encolar, Denegar, Responder, Devolver, Promover,
             FinPromover, Notificar, FinNotificar, Desvincular, Limpiar, Reponer, FinPurga,
             Cerrar, Atender, LeerFin, Anunciar, Expirar, redes
    <2>6. QED
      BY <1>2, <2>5
  <1>4. QED
    BY <1>1, <1>3 DEF Terminada

\* A job that is under way was so before.
LEMMA EnMarchaAntes ==
    ASSUME TypeOK, FinDeContextos, [Next]_vars, NEW j, EnMarcha(j)'
    PROVE  EnMarcha(j)
  <1>1. DelTrabajo(j)' = DelTrabajo(j) /\ DelTrabajo(j) \subseteq Conexiones
    BY DEF DelTrabajo
  <1>2. QED
    BY <1>1, TerminadaSigue DEF EnMarcha

\* A thread lets go of its connection when it is idle again.
LEMMA FinesPaso ==
    TypeOK /\ FinDeContextos /\ FinesLeidos /\ [Next]_vars => FinesLeidos'
  <1> SUFFICES ASSUME TypeOK, FinDeContextos, FinesLeidos, [Next]_vars PROVE FinesLeidos'
    OBVIOUS
  <1>0. /\ pc \in [Hilos -> Etapas] /\ con \in [Hilos -> Conexiones \cup {NULO}]
        /\ NULO \notin Conexiones
    BY NuloAssumption DEF TypeOK
  <1> DEFINE Bien(h) == /\ pc'[h] = "espera" => con'[h] = NULO
                        /\ AlFinalDe(h)' /\ con'[h] \in Conexiones =>
                              par'[con'[h]] = "cerrada" /\ canal'[con'[h]] = <<>>
  <1> USE DEF Terminada
  <1>1. \A c \in Conexiones : par[c] = "cerrada" /\ canal[c] = <<>> =>
                              par'[c] = "cerrada" /\ canal'[c] = <<>>
    BY TerminadaSigue
  <1>2. ASSUME NEW h \in Hilos, con'[h] = con[h], pc'[h] = "espera" => pc[h] = "espera",
               AlFinalDe(h)' => AlFinalDe(h) \/ con[h] = NULO
        PROVE  Bien(h)
    BY <1>0, <1>1, <1>2 DEF FinesLeidos
  <1>3. ASSUME NEW t \in Hilos, Avanzar(t) PROVE FinesLeidos'
    <2>1. \A h \in Hilos \ {t} : pc'[h] = pc[h] /\ con'[h] = con[h]
      BY <1>3, <1>0
         DEF Avanzar, Conceder, Encolar, Denegar, Responder, Devolver, Promover, FinPromover,
             Notificar, FinNotificar, Desvincular, Limpiar, Reponer, FinPurga, Cerrar, Rearmar
    <2>2. Bien(t)
      <3>1. CASE Encolar(t) \/ Responder(t) \/ FinNotificar(t) \/ Cerrar(t)
        BY <3>1, <1>0 DEF Encolar, Responder, FinNotificar, Cerrar, Rearmar, AlFinalDe
      <3>2. CASE Conceder(t) \/ Denegar(t) \/ Devolver(t) \/ Promover(t) \/ FinPromover(t)
                 \/ Notificar(t)
        BY <3>2, <1>0, <1>2
           DEF Conceder, Denegar, Devolver, Promover, FinPromover, Notificar, AlFinalDe
      <3>3. CASE Desvincular(t) \/ Limpiar(t) \/ Reponer(t)
        BY <3>3, <1>0, <1>2 DEF Desvincular, Limpiar, Reponer, AlFinalDe
      <3>4. CASE FinPurga(t)
        <4>1. /\ UNCHANGED con /\ pc[t] = "reponer"
              /\ pc'[t] \in {"desvincular", "cerrar"} \/ (pc'[t] = "espera" /\ con[t] = NULO)
          BY <3>4, <1>0 DEF FinPurga
        <4>2. QED
          BY <4>1, <1>0, <1>1 DEF FinesLeidos, AlFinalDe
      <3>5. QED
        BY <3>1, <3>2, <3>3, <3>4, <1>3 DEF Avanzar
    <2>3. \A h \in Hilos : Bien(h)
      BY <2>1, <2>2, <1>2 DEF AlFinalDe
    <2>4. QED
      BY <2>3 DEF FinesLeidos
  <1>4. ASSUME NEW t \in Hilos, NEW c \in Conexiones, Atender(t, c) PROVE FinesLeidos'
    <2>1. \A h \in Hilos \ {t} : pc'[h] = pc[h] /\ con'[h] = con[h]
      BY <1>4, <1>0 DEF Atender, Aceptar, LeerReserve, LeerRelease, LeerFin
    <2>2. Bien(t)
      <3>1. CASE UNCHANGED <<pc, con>>
        BY <3>1, <1>2 DEF AlFinalDe
      <3>2. CASE LeerFin(t, c)
        BY <3>2, <1>0, <1>1 DEF LeerFin
      <3>3. CASE /\ pc' = [pc EXCEPT ![t] = "reservar"] \/ pc' = [pc EXCEPT ![t] = "devolver"]
                 /\ con' = [con EXCEPT ![t] = c]
        BY <3>3, <1>0 DEF AlFinalDe
      <3>4. QED
        BY <3>1, <3>2, <3>3, <1>4 DEF Atender, Aceptar, LeerReserve, LeerRelease
    <2>3. \A h \in Hilos : Bien(h)
      BY <2>1, <2>2, <1>2 DEF AlFinalDe
    <2>4. QED
      BY <2>3 DEF FinesLeidos
  <1>5. ASSUME NEW t \in Hilos, NEW E \in SUBSET Expirables, Expirar(t, E)
        PROVE  FinesLeidos'
    <2>1. UNCHANGED con /\ pc[t] = "espera" /\ pc' = [pc EXCEPT ![t] = "desvincular"]
      BY <1>5 DEF Expirar
    <2>2. con[t] = NULO
      BY <2>1 DEF FinesLeidos
    <2>3. \A h \in Hilos : Bien(h)
      BY <2>1, <2>2, <1>0, <1>2 DEF AlFinalDe
    <2>4. QED
      BY <2>3 DEF FinesLeidos
  <1>6. ASSUME UNCHANGED <<pc, con>> PROVE FinesLeidos'
    BY <1>6, <1>0, <1>1 DEF FinesLeidos, AlFinalDe
  <1>7. QED
    BY <1>3, <1>4, <1>5, <1>6 DEF Next, vars, Anunciar, ParLibera, ParCae

\* A context is freed by the thread that came to the end of its connection.
LEMMA ContextosPaso ==
    ASSUME TypeOK, ConEnUso, FinesLeidos, FinDeContextos, [Next]_vars
    PROVE  FinDeContextos'
  <1>0. /\ con \in [Hilos -> Conexiones \cup {NULO}]
        /\ par \in [Conexiones -> {"abierta", "cerrada"}]
        /\ ctx \in [Conexiones -> {"sin_crear", "viva", "liberada"}]
    BY DEF TypeOK
  <1>1. \A c \in Conexiones : par[c] = "cerrada" /\ canal[c] = <<>> =>
                              par'[c] = "cerrada" /\ canal'[c] = <<>>
    BY TerminadaSigue DEF Terminada
  <1> USE DEF Terminada
  <1>2. ASSUME NEW t \in Hilos, Cerrar(t) PROVE FinDeContextos'
    <2>1. PICK c \in Conexiones : c = con[t]
      BY <1>2 DEF Cerrar, ConEnUso
    <2>2. /\ UNCHANGED <<par, canal>> /\ ctx' = [ctx EXCEPT ![c] = "liberada"]
          /\ par[c] = "cerrada" /\ canal[c] = <<>>
      BY <1>2, <2>1 DEF Cerrar, FinesLeidos, AlFinalDe
    <2>3. QED
      BY <2>2, <1>0 DEF FinDeContextos
  <1>3. ASSUME NEW c \in Conexiones, ParLibera(c) \/ ParCae(c) PROVE FinDeContextos'
    <2>1. UNCHANGED ctx /\ par' = [par EXCEPT ![c] = "cerrada"] /\ ctx[c] = "viva"
      BY <1>3 DEF ParLibera, ParCae, PuedeCerrar
    <2>2. QED
      BY <2>1, <1>0, <1>1 DEF FinDeContextos
  <1>4. ASSUME NEW t \in Hilos, NEW c \in Conexiones, Aceptar(t, c) PROVE FinDeContextos'
    <2>1. UNCHANGED par /\ ctx' = [ctx EXCEPT ![c] = "viva"]
      BY <1>4 DEF Aceptar
    <2>2. QED
      BY <2>1, <1>0, <1>1 DEF FinDeContextos
  <1>5. ASSUME UNCHANGED <<ctx, par>> PROVE FinDeContextos'
    BY <1>5, <1>1 DEF FinDeContextos
  <1>6. QED
    BY ZenonT(40), <1>2, <1>3, <1>4, <1>5
       DEF Next, vars, Avanzar, Conceder, Encolar, Denegar, Responder, Devolver, Promover,
           FinPromover, Notificar, FinNotificar, Desvincular, Limpiar, Reponer, FinPurga,
           Atender, LeerReserve, LeerRelease, LeerFin, Anunciar, Expirar, redes

\* One more line on a connection comes after the others.
LEMMA LineaEnviada ==
    ASSUME TypeOK, NEW c \in Conexiones, NEW tipo \in {"GRANTED", "DENIED"}, NEW j \in JobIds,
           Enviar(c, tipo, j)
    PROVE  /\ \A d \in Conexiones \ {c} : respuestas'[d] = respuestas[d]
           /\ \E n \in Nat :
                 /\ n \notin DOMAIN respuestas[c]
                 /\ DOMAIN respuestas'[c] = DOMAIN respuestas[c] \cup {n}
                 /\ respuestas'[c][n].tipo = tipo /\ respuestas'[c][n].jobId = j
                 /\ \A k \in DOMAIN respuestas[c] : respuestas'[c][k] = respuestas[c][k]
  <1> DEFINE R == [tipo : {"GRANTED", "DENIED"}, jobId : JobIds]
             m == Respuesta(tipo, j)
  <1>1. respuestas \in [Conexiones -> Seq(R)] /\ m \in R /\ m.tipo = tipo /\ m.jobId = j
    BY DEF TypeOK, Respuesta
  <1>2. /\ respuestas'[c] = Append(respuestas[c], m) /\ respuestas[c] \in Seq(R)
        /\ \A d \in Conexiones \ {c} : respuestas'[d] = respuestas[d]
    BY <1>1 DEF Enviar
  <1> HIDE DEF m, R
  <1>3. /\ DOMAIN respuestas'[c] = 1..(Len(respuestas[c]) + 1)
        /\ DOMAIN respuestas[c] = 1..Len(respuestas[c]) /\ Len(respuestas[c]) \in Nat
        /\ \A k \in 1..Len(respuestas[c]) : respuestas'[c][k] = respuestas[c][k]
        /\ respuestas'[c][Len(respuestas[c]) + 1] = m
    BY <1>1, <1>2, AppendProperties, LenProperties
  <1>4. PICK n \in Nat : n = Len(respuestas[c]) + 1
    BY <1>3
  <1>5. n \notin DOMAIN respuestas[c] /\ DOMAIN respuestas'[c] = DOMAIN respuestas[c] \cup {n}
    BY <1>3, <1>4
  <1>6. QED
    BY <1>1, <1>2, <1>3, <1>4, <1>5

\* A connection on which nothing is sent keeps its answers in order.
LEMMA AUnoIgual ==
    ASSUME NadaVuelve, \A j \in JobIds : EnMarcha(j)' => EnMarcha(j),
           NEW d \in Conexiones, AUnoSolo(d), respuestas'[d] = respuestas[d]
    PROVE  AUnoSolo(d)'
  <1>1. Propias(d)' = Propias(d) /\ (Pendiente(d)' => Pendiente(d))
    BY DEF Propias, NadaVuelve
  <1>2. QED
    BY <1>1 DEF AUnoSolo

\* An answer that goes to a request that was pending, about its own job, when it
\* is nowhere any more, is the only one.
LEMMA UnaRespuestaMas ==
    ASSUME TypeOK, Contestadas, NadaVuelve, \A j \in JobIds : EnMarcha(j)' => EnMarcha(j),
           NEW c \in Conexiones, NEW tipo \in {"GRANTED", "DENIED"},
           Pendiente(c), ~ Pendiente(c)', Enviar(c, tipo, Pedido[c].jobId)
    PROVE  Contestadas'
  <1>1. /\ \A d \in Conexiones \ {c} : respuestas'[d] = respuestas[d]
        /\ \E n \in Nat :
              /\ n \notin DOMAIN respuestas[c]
              /\ DOMAIN respuestas'[c] = DOMAIN respuestas[c] \cup {n}
              /\ respuestas'[c][n].tipo = tipo /\ respuestas'[c][n].jobId = Pedido[c].jobId
              /\ \A k \in DOMAIN respuestas[c] : respuestas'[c][k] = respuestas[c][k]
    BY PedidoTipo, LineaEnviada
  <1>2. PICK n \in Nat :
              /\ n \notin DOMAIN respuestas[c]
              /\ DOMAIN respuestas'[c] = DOMAIN respuestas[c] \cup {n}
              /\ respuestas'[c][n].jobId = Pedido[c].jobId
              /\ \A k \in DOMAIN respuestas[c] : respuestas'[c][k] = respuestas[c][k]
    BY <1>1
  <1>3. Propias(c)' = Propias(c) \cup {n}
    BY <1>2 DEF Propias
  <1>4. AUnoSolo(c)
    BY DEF Contestadas
  <1>5. ASSUME NEW j \in JobIds, EnMarcha(j)'
        PROVE  /\ Pedido[c].jobId = j => \A i, k \in Propias(c)' : i = k
               /\ \A i \in DOMAIN respuestas'[c] \ Propias(c)' : respuestas'[c][i].jobId # j
    BY <1>2, <1>3, <1>4, <1>5 DEF AUnoSolo
  <1>6. AUnoSolo(c)'
    BY <1>5 DEF AUnoSolo
  <1>7. \A d \in Conexiones \ {c} : AUnoSolo(d)'
    BY <1>1, AUnoIgual DEF Contestadas
  <1>8. QED
    BY <1>6, <1>7 DEF Contestadas

\* An answer of a job that is over breaks no promise, wherever it lands.
LEMMA RespuestaPerdida ==
    ASSUME TypeOK, Contestadas, NadaVuelve, \A k \in JobIds : EnMarcha(k)' => EnMarcha(k),
           NEW d \in Conexiones, NEW j \in JobIds, ~ EnMarcha(j)', Enviar(d, "GRANTED", j)
    PROVE  Contestadas'
  <1>1. /\ \A e \in Conexiones \ {d} : respuestas'[e] = respuestas[e]
        /\ \E n \in Nat :
              /\ n \notin DOMAIN respuestas[d]
              /\ DOMAIN respuestas'[d] = DOMAIN respuestas[d] \cup {n}
              /\ respuestas'[d][n].tipo = "GRANTED" /\ respuestas'[d][n].jobId = j
              /\ \A k \in DOMAIN respuestas[d] : respuestas'[d][k] = respuestas[d][k]
    BY LineaEnviada
  <1>2. PICK n \in Nat :
              /\ n \notin DOMAIN respuestas[d]
              /\ DOMAIN respuestas'[d] = DOMAIN respuestas[d] \cup {n}
              /\ respuestas'[d][n].jobId = j
              /\ \A k \in DOMAIN respuestas[d] : respuestas'[d][k] = respuestas[d][k]
    BY <1>1
  <1>3. AUnoSolo(d) /\ (Pendiente(d)' => Pendiente(d))
    BY DEF Contestadas, NadaVuelve
  <1>4. /\ Pedido[d].jobId # j => Propias(d)' = Propias(d)
        /\ Propias(d)' \ {n} = Propias(d)
    BY <1>2 DEF Propias
  <1>5. ASSUME NEW k \in JobIds, EnMarcha(k)'
        PROVE  /\ Pedido[d].jobId = k =>
                     /\ Pendiente(d)' => Propias(d)' = {}
                     /\ \A i, h \in Propias(d)' : i = h
               /\ \A i \in DOMAIN respuestas'[d] \ Propias(d)' : respuestas'[d][i].jobId # k
    <2>1. EnMarcha(k) /\ k # j
      BY <1>5
    <2>2. Pedido[d].jobId = k =>
             /\ Pendiente(d)' => Propias(d)' = {}
             /\ \A i, h \in Propias(d)' : i = h
      BY <1>3, <1>4, <2>1 DEF AUnoSolo
    <2>3. ASSUME NEW i \in DOMAIN respuestas'[d] \ Propias(d)'
          PROVE  respuestas'[d][i].jobId # k
      <3>1. i = n \/ i \in DOMAIN respuestas[d] \ Propias(d)
        BY <1>2, <1>4, <2>3
      <3>2. QED
        BY <1>2, <1>3, <2>1, <3>1 DEF AUnoSolo
    <2>4. QED
      BY <2>2, <2>3
  <1>6. AUnoSolo(d)'
    BY <1>5 DEF AUnoSolo
  <1>7. \A e \in Conexiones \ {d} : AUnoSolo(e)'
    BY <1>1, AUnoIgual DEF Contestadas
  <1>8. QED
    BY <1>6, <1>7 DEF Contestadas

\* The two steps that answer: to a request that is on its way to the answer, or
\* through the context of a connection that is over.
LEMMA ContestadasPaso ==
    ASSUME RInv, [Next]_vars
    PROVE  Contestadas'
  <1>0. /\ TypeOK /\ Contestadas /\ NadaVuelve
        /\ pc \in [Hilos -> Etapas] /\ con \in [Hilos -> Conexiones \cup {NULO}]
        /\ promovidos \in [Hilos -> Seq(Conexiones)] /\ NULO \notin Conexiones
        /\ ctx \in [Conexiones -> {"sin_crear", "viva", "liberada"}]
    BY LugaresPaso, NuloAssumption DEF RInv, UInv, IInv, TypeOK
  <1>a. \A j \in JobIds : EnMarcha(j)' => EnMarcha(j)
    BY <1>0, EnMarchaAntes DEF RInv
  <1>1. ASSUME UNCHANGED respuestas PROVE Contestadas'
    BY <1>0, <1>a, <1>1, AUnoIgual DEF Contestadas
  <1>2. ASSUME NEW t \in Hilos, Responder(t) PROVE Contestadas'
    <2>1. PICK c \in Conexiones : c = con[t]
      BY <1>2 DEF Responder, RInv, UInv, IInv, ConEnUso
    <2>2. /\ UNCHANGED <<cola, promovidos, ctx, canal>>
          /\ pc[t] \in {"conceder", "denegar"} /\ con' = [con EXCEPT ![t] = NULO]
          /\ Enviar(c, "GRANTED", Pedido[c].jobId) \/ Enviar(c, "DENIED", Pedido[c].jobId)
      BY <1>2, <2>1 DEF Responder, Rearmar
    <2>3. Decidida(c) /\ UnLugar(c)
      BY <2>1, <2>2 DEF Decidida, Decidiendose, RInv, UInv, Lugares
    <2>4. ~ SinLeer(c)' /\ ~ Espera(c)' /\ ~ Promovida(c)'
      <3>1. SinLeer(c)' = SinLeer(c) /\ Espera(c)' = Espera(c)
            /\ Promovida(c)' = Promovida(c)
        BY <2>2 DEF SinLeer, Espera, Promovida
      <3>2. QED
        BY <3>1, <2>3 DEF UnLugar
    <2>5. ~ Decidida(c)'
      <3>1. \A h \in Hilos : con'[h] # c
        BY <1>0, <2>1, <2>2 DEF RInv, UInv, UnHilo
      <3>2. QED
        BY <3>1 DEF Decidida, Decidiendose
    <2>6. QED
      BY <2>2, <2>3, <2>4, <2>5, <1>0, <1>a, UnaRespuestaMas DEF Pendiente
  <1>3. ASSUME NEW t \in Hilos, Notificar(t) PROVE Contestadas'
    <2>1. PICK c \in Conexiones : c = Head(promovidos[t])
      BY <1>3, <1>0, CabezaYResto DEF Notificar
    <2>2. /\ promovidos[t] # <<>> /\ promovidos' = [promovidos EXCEPT ![t] = Tail(@)]
          /\ UNCHANGED <<pc, con, ctx, canal, cola>>
      BY <1>3, <2>1 DEF Notificar
    <2>3. /\ c \in ToSet(promovidos[t]) /\ c \notin ToSet(Tail(promovidos[t]))
      BY <1>0, <2>1, <2>2, SinElPrimero DEF RInv, UInv, SinRepetir
    <2>4. Promovida(c) /\ UnLugar(c) /\ Pendiente(c)
      BY <2>3 DEF Promovida, RInv, UInv, Lugares, Pendiente
    <2>5. ~ Pendiente(c)'
      <3>1. \A h \in Hilos \ {t} : c \notin ToSet(promovidos[h])
        BY <2>3 DEF RInv, UInv, SinRepetir
      <3>2. \A h \in Hilos : c \notin ToSet(promovidos'[h])
        BY <1>0, <2>2, <2>3, <3>1
      <3>3. SinLeer(c)' = SinLeer(c) /\ Espera(c)' = Espera(c) /\ Decidida(c)' = Decidida(c)
        BY <2>2 DEF SinLeer, Espera, Decidida, Decidiendose
      <3>4. QED
        BY <2>4, <3>2, <3>3 DEF UnLugar, Pendiente, Promovida
    <2>6. CASE ctx[c] = "viva"
      <3>1. Enviar(c, "GRANTED", Pedido[c].jobId)
        BY <1>3, <2>1, <2>6 DEF Notificar
      <3>2. QED
        BY <3>1, <2>4, <2>5, <1>0, <1>a, UnaRespuestaMas
    <2>7. CASE ctx[c] # "viva"
      <3>1. PICK j \in JobIds : j = Pedido[c].jobId
        BY PedidoTipo
      <3>2. ctx[c] = "liberada"
        BY <2>4, <2>7, <1>0 DEF UnLugar, SinLeer
      <3>3. Terminada(c)
        BY <3>2 DEF RInv, FinDeContextos
      <3>4. ~ EnMarcha(j)
        BY <3>1, <3>3 DEF EnMarcha, DelTrabajo
      <3>5. UNCHANGED respuestas \/ \E d \in Conexiones : Enviar(d, "GRANTED", j)
        BY <1>3, <2>1, <2>7, <3>1 DEF Notificar
      <3>6. QED
        BY <3>4, <3>5, <1>0, <1>a, <1>1, RespuestaPerdida
    <2>8. QED
      BY <2>6, <2>7
  <1>4. QED
    BY ZenonT(40), <1>1, <1>2, <1>3
       DEF Next, vars, Avanzar, Conceder, Encolar, Denegar, Devolver, Promover, FinPromover,
           FinNotificar, Desvincular, Limpiar, Reponer, FinPurga, Cerrar, Atender, Aceptar,
           LeerReserve, LeerRelease, LeerFin, Anunciar, Expirar, ParLibera, ParCae, redes

\* Nothing was asked or answered at the start.
LEMMA RInvInit == Init => RInv
  <1> SUFFICES ASSUME Init PROVE RInv
    OBVIOUS
  <1>1. \A c \in Conexiones : Propias(c) = {} /\ DOMAIN respuestas[c] = {}
    BY DEF Init, Propias
  <1>2. FinesLeidos /\ FinDeContextos /\ Contestadas
    BY <1>1 DEF Init, FinesLeidos, AlFinalDe, FinDeContextos, Contestadas, AUnoSolo
  <1>3. QED
    BY <1>2, UInvInit DEF RInv

\* The invariant behind the answers is kept.
LEMMA RInvPaso == RInv /\ [Next]_vars => RInv'
  <1> SUFFICES ASSUME RInv, [Next]_vars PROVE RInv'
    OBVIOUS
  <1>1. UInv'
    BY UInvPaso DEF RInv
  <1>2. TypeOK /\ ConEnUso
    BY DEF RInv, UInv, IInv
  <1>3. FinesLeidos' /\ FinDeContextos'
    BY <1>2, FinesPaso, ContextosPaso DEF RInv
  <1>4. Contestadas'
    BY ContestadasPaso
  <1>5. QED
    BY <1>1, <1>3, <1>4 DEF RInv

\* What the invariant says of answers.
LEMMA RInvBasta == RInv => RespuestaUnica
  <1> SUFFICES ASSUME RInv, NEW c \in Conexiones
               PROVE  /\ EnMarcha(Pedido[c].jobId) =>
                            Cardinality(Propias(c)) + Apariciones(c) <= 1
                      /\ \A i \in DOMAIN respuestas[c] \ Propias(c) :
                            ~ EnMarcha(respuestas[c][i].jobId)
    BY DEF RespuestaUnica
  <1>1. /\ Apariciones(c) \in {0, 1}
        /\ Apariciones(c) = 1 => Pendiente(c)
    BY PocosLugares DEF RInv, Pendiente
  <1>2. AUnoSolo(c) /\ Pedido[c].jobId \in JobIds
    BY PedidoTipo DEF RInv, Contestadas
  <1>3. ASSUME EnMarcha(Pedido[c].jobId)
        PROVE  Cardinality(Propias(c)) + Apariciones(c) <= 1
    <2>1. /\ Propias(c) = {} => Cardinality(Propias(c)) = 0
          /\ Propias(c) # {} => Cardinality(Propias(c)) = 1
      BY <1>2, <1>3, ALoSumoUno DEF AUnoSolo
    <2>2. Propias(c) # {} => ~ Pendiente(c)
      BY <1>2, <1>3 DEF AUnoSolo
    <2>3. QED
      BY <1>1, <2>1, <2>2
  <1>4. ASSUME NEW i \in DOMAIN respuestas[c] \ Propias(c)
        PROVE  ~ EnMarcha(respuestas[c][i].jobId)
    <2>1. respuestas[c][i].jobId \in JobIds
      <3>1. respuestas[c] \in Seq([tipo : {"GRANTED", "DENIED"}, jobId : JobIds])
        BY DEF RInv, UInv, IInv, TypeOK
      <3>2. i \in 1..Len(respuestas[c])
        BY <3>1, LenProperties
      <3>3. respuestas[c][i] \in [tipo : {"GRANTED", "DENIED"}, jobId : JobIds]
        BY <3>1, <3>2, ElementOfSeq
      <3>4. QED
        BY <3>3
    <2>2. QED
      BY <1>2, <1>4, <2>1 DEF AUnoSolo
  <1>5. QED
    BY <1>3, <1>4

\* Until the agent comes to the end of a connection of a job, each request of
\* the job gets at most one answer and none while it is on its way, and every
\* other answer is of a job that is over: whatever nodes share connections,
\* jobs or expire, and however early requesters close.
THEOREM RespuestaUnicaSiempre == Spec => []RespuestaUnica
  BY RInvInit, RInvPaso, RInvBasta, PTL DEF Spec

-----------------------------------------------------------------------------
(* Waiting requests and their contexts, when no node expires *)

\* A connection in a thread's hands has its context.
ConVivo == \A t \in Hilos : con[t] \in Conexiones => ctx[con[t]] = "viva"

\* Requests are taken from known nodes.
DeConocidos ==
    \A c \in Conexiones : Decidida(c) \/ Espera(c) => Pedido[c].nodo \in conocidos

\* The purge of thread t passed by the queue of r.
Limpia(t, r) ==
    \/ pc[t] \in {"reponer", "cerrar"}
    \/ pc[t] = "limpiar" /\ rec[t] # "cpu" /\ r = "cpu"
    \/ pc[t] = "limpiar" /\ rec[t] = "gpu" /\ r = "mem"

\* The end of a connection purges its node, and takes its request out of the
\* queues it passed by.
FinConPurga ==
    \A t \in Hilos :
        /\ pc[t] \in {"desvincular", "limpiar", "reponer"} =>
              con[t] \in Conexiones /\ aPurgar[t] = {Pedido[con[t]].nodo}
        /\ \A r \in TipoRecurso : Limpia(t, r) => con[t] \notin ToSet(cola[r])

VInv == UInv /\ ConVivo /\ DeConocidos /\ FinConPurga /\ ColaViva

\* Contexts are freed by the thread that has them.
LEMMA ConVivoPaso == TypeOK /\ UnHilo /\ ConEnUso /\ ConVivo /\ [Next]_vars => ConVivo'
  <1> SUFFICES ASSUME TypeOK, UnHilo, ConEnUso, ConVivo, [Next]_vars,
                      NEW h \in Hilos, con'[h] \in Conexiones
               PROVE  ctx'[con'[h]] = "viva"
    BY DEF ConVivo
  <1>0. /\ con \in [Hilos -> Conexiones \cup {NULO}] /\ NULO \notin Conexiones
        /\ ctx \in [Conexiones -> {"sin_crear", "viva", "liberada"}]
        /\ con[h] \in Conexiones => ctx[con[h]] = "viva"
    BY NuloAssumption DEF TypeOK, ConVivo
  <1>1. ASSUME NEW t \in Hilos, Cerrar(t) PROVE ctx'[con'[h]] = "viva"
    <2>1. PICK c \in Conexiones : c = con[t]
      BY <1>1 DEF Cerrar, ConEnUso
    <2>2. con' = [con EXCEPT ![t] = NULO] /\ ctx' = [ctx EXCEPT ![c] = "liberada"]
      BY <1>1, <2>1 DEF Cerrar
    <2>3. h # t /\ con'[h] = con[h]
      BY <2>2, <1>0
    <2>4. con[h] # c
      BY <2>1, <2>3 DEF UnHilo
    <2>5. QED
      BY <2>2, <2>3, <2>4, <1>0
  <1>2. ASSUME UNCHANGED ctx, con'[h] = con[h] PROVE ctx'[con'[h]] = "viva"
    BY <1>2, <1>0
  <1>3. ASSUME NEW t \in Hilos, Avanzar(t), ~ Cerrar(t) PROVE ctx'[con'[h]] = "viva"
    <2>1. UNCHANGED ctx /\ (UNCHANGED con \/ con' = [con EXCEPT ![t] = NULO])
      BY <1>3 DEF Avanzar, Conceder, Encolar, Denegar, Responder, Devolver, Promover,
                  FinPromover, Notificar, FinNotificar, Desvincular, Limpiar, Reponer,
                  FinPurga, Rearmar, redes
    <2>2. QED
      BY <2>1, <1>0, <1>2
  <1>4. ASSUME NEW t \in Hilos, NEW c \in Conexiones, Atender(t, c)
        PROVE  ctx'[con'[h]] = "viva"
    <2>1. CASE Aceptar(t, c)
      <3>1. UNCHANGED con /\ ctx' = [ctx EXCEPT ![c] = "viva"]
        BY <2>1 DEF Aceptar
      <3>2. QED
        BY <3>1, <1>0
    <2>2. CASE LeerReserve(t, c) \/ LeerRelease(t, c) \/ LeerFin(t, c)
      <3>1. UNCHANGED ctx /\ ctx[c] = "viva"
            /\ (UNCHANGED con \/ con' = [con EXCEPT ![t] = c])
        BY <2>2 DEF LeerReserve, LeerRelease, LeerFin, Entregable, redes
      <3>2. QED
        BY <3>1, <1>0
    <2>3. QED
      BY <2>1, <2>2, <1>4 DEF Atender
  <1>5. QED
    BY <1>1, <1>2, <1>3, <1>4
       DEF Next, vars, Anunciar, Expirar, ParLibera, ParCae, redes

\* Where requests come from: nothing waits that did not, but what a thread was
\* deciding on; nothing is decided on that was not, but a RESERVE just read.
LEMMA DeDondeVienen ==
    ASSUME TypeOK, ConEnUso, [Next]_vars, NEW c \in Conexiones
    PROVE  /\ \A r \in TipoRecurso : c \in ToSet(cola'[r]) =>
                 \/ c \in ToSet(cola[r])
                 \/ \E t \in Hilos : con[t] = c /\ pc[t] = "reservar"
           /\ Decidida(c)' => Decidida(c) \/ Pedido[c].nodo \in conocidos
           /\ Espera(c)' => Espera(c) \/ Decidida(c)
  <1>0. /\ pc \in [Hilos -> Etapas] /\ con \in [Hilos -> Conexiones \cup {NULO}]
        /\ cola \in [TipoRecurso -> Seq(Conexiones)] /\ NULO \notin Conexiones
    BY NuloAssumption DEF TypeOK
  <1>1. ASSUME NEW r \in TipoRecurso, c \in ToSet(cola'[r])
        PROVE  \/ c \in ToSet(cola[r])
               \/ \E t \in Hilos : con[t] = c /\ pc[t] = "reservar"
    <2> DEFINE Meta == \/ c \in ToSet(cola[r])
                       \/ \E t \in Hilos : con[t] = c /\ pc[t] = "reservar"
    <2>1. ASSUME NEW t \in Hilos, Encolar(t) PROVE Meta
      <3>1. PICK d \in Conexiones : d = con[t]
        BY <2>1 DEF Encolar, EntraAReservar, ConEnUso
      <3>2. pc[t] = "reservar" /\ cola' = [cola EXCEPT ![Pedido[d].rec] = Append(@, d)]
        BY <2>1, <3>1 DEF Encolar, EntraAReservar
      <3>3. cola'[r] = cola[r] \/ cola'[r] = Append(cola[r], d)
        BY <3>2, <1>0
      <3>4. ToSet(Append(cola[r], d)) = ToSet(cola[r]) \cup {d}
        BY <1>0, AlFinal
      <3>5. QED
        BY <3>1, <3>2, <3>3, <3>4, <1>1
    <2>2. ASSUME NEW t \in Hilos, Promover(t) PROVE Meta
      <3>1. cola' = [cola EXCEPT ![rec[t]] = Tail(@)] /\ cola[rec[t]] # <<>>
        BY <2>2 DEF Promover, Desencolar, ColaAgotada
      <3>2. cola'[r] = cola[r] \/ (cola'[r] = Tail(cola[r]) /\ cola[r] # <<>>)
        BY <3>1, <1>0
      <3>3. cola[r] # <<>> => ToSet(Tail(cola[r])) \subseteq ToSet(cola[r])
        BY <1>0, SinElPrimero
      <3>4. QED
        BY <3>2, <3>3, <1>1
    <2>3. ASSUME NEW t \in Hilos, Limpiar(t) PROVE Meta
      <3>1. PICK n : cola' = [cola EXCEPT ![rec[t]] = SinNodo(@, n)]
        BY <2>3 DEF Limpiar
      <3>2. cola'[r] = cola[r] \/ cola'[r] = SinNodo(cola[r], n)
        BY <3>1, <1>0
      <3>3. ToSet(SinNodo(cola[r], n)) \subseteq ToSet(cola[r])
        BY <1>0, SinNodoUnicos
      <3>4. QED
        BY <3>2, <3>3, <1>1
    <2>4. ASSUME UNCHANGED cola PROVE Meta
      BY <2>4, <1>1
    <2>5. QED
      BY ZenonT(40), <2>1, <2>2, <2>3, <2>4
         DEF Next, vars, Avanzar, Conceder, Denegar, Responder, Devolver, FinPromover,
             Notificar, FinNotificar, Desvincular, Reponer, FinPurga, Cerrar, Atender,
             Aceptar, LeerReserve, LeerRelease, LeerFin, Anunciar, Expirar, ParLibera, ParCae
  <1>2. ASSUME NEW h \in Hilos, con'[h] = c, pc'[h] \in EnDecision
        PROVE  Decidida(c) \/ Pedido[c].nodo \in conocidos
    <2> DEFINE Meta == Decidida(c) \/ Pedido[c].nodo \in conocidos
    <2>1. ASSUME pc[h] \in EnDecision, con[h] = c PROVE Meta
      BY <2>1 DEF Decidida, Decidiendose, EnDecision
    <2>2. ASSUME NEW t \in Hilos, Avanzar(t) PROVE Meta
      <3>1. CASE h # t
        <4>1. pc'[h] = pc[h] /\ con'[h] = con[h]
          BY <2>2, <3>1, <1>0
             DEF Avanzar, Conceder, Encolar, Denegar, Responder, Devolver, Promover,
                 FinPromover, Notificar, FinNotificar, Desvincular, Limpiar, Reponer,
                 FinPurga, Cerrar, Rearmar
        <4>2. QED
          BY <4>1, <2>1, <1>2
      <3>2. CASE h = t
        <4>1. Conceder(t) \/ Denegar(t)
          BY <2>2, <3>2, <1>0, <1>2
             DEF Avanzar, Encolar, Responder, Devolver, Promover, FinPromover, Notificar,
                 FinNotificar, Desvincular, Limpiar, Reponer, FinPurga, Cerrar, EnDecision
        <4>2. pc[h] = "reservar" /\ UNCHANGED con
          BY <4>1, <3>2 DEF Conceder, Denegar, EntraAReservar
        <4>3. QED
          BY <4>2, <2>1, <1>2 DEF EnDecision
      <3>3. QED
        BY <3>1, <3>2
    <2>3. ASSUME NEW t \in Hilos, NEW d \in Conexiones, Atender(t, d) PROVE Meta
      <3>1. CASE LeerReserve(t, d)
        <4>1. \/ UNCHANGED <<pc, con>>
              \/ Pedido[d].nodo \in conocidos /\ pc' = [pc EXCEPT ![t] = "reservar"]
                    /\ con' = [con EXCEPT ![t] = d]
          BY <3>1 DEF LeerReserve
        <4>2. QED
          BY <4>1, <2>1, <1>0, <1>2
      <3>2. CASE Aceptar(t, d) \/ LeerRelease(t, d) \/ LeerFin(t, d)
        <4>1. pc'[h] = pc[h] /\ con'[h] = con[h]
          BY <3>2, <1>0, <1>2 DEF Aceptar, LeerRelease, LeerFin, EnDecision
        <4>2. QED
          BY <4>1, <2>1, <1>2
      <3>3. QED
        BY <2>3, <3>1, <3>2 DEF Atender
    <2>4. ASSUME NEW t \in Hilos, NEW E \in SUBSET Expirables, Expirar(t, E) PROVE Meta
      <3>1. pc' = [pc EXCEPT ![t] = "desvincular"] /\ UNCHANGED con
        BY <2>4 DEF Expirar
      <3>2. QED
        BY <3>1, <2>1, <1>0, <1>2 DEF EnDecision
    <2>5. QED
      BY <2>1, <2>2, <2>3, <2>4, <1>2 DEF Next, vars, Anunciar, ParLibera, ParCae
  <1>3. Decidida(c)' => Decidida(c) \/ Pedido[c].nodo \in conocidos
    BY <1>2 DEF Decidida, Decidiendose, EnDecision
  <1>4. Espera(c)' => Espera(c) \/ Decidida(c)
    BY <1>1 DEF Espera, Decidida, Decidiendose
  <1>5. QED
    BY <1>1, <1>3, <1>4

\* Nobody leaves the node table if no node expires.
LEMMA ConocidosCrece ==
    ASSUME Expirables = {}, [Next]_vars
    PROVE  conocidos \subseteq conocidos'
  BY ZenonT(40) DEF Next, vars, Avanzar, Conceder, Encolar, Denegar, Responder, Devolver, Promover,
         FinPromover, Notificar, FinNotificar, Desvincular, Limpiar, Reponer, FinPurga, Cerrar,
         Atender, Aceptar, LeerReserve, LeerRelease, LeerFin, Anunciar, Expirar, ParLibera,
         ParCae

\* Requests in queues are of known nodes, as those read are.
LEMMA DeConocidosPaso ==
    ASSUME Expirables = {}, TypeOK, ConEnUso, DeConocidos, [Next]_vars
    PROVE  DeConocidos'
  <1> SUFFICES ASSUME NEW c \in Conexiones, Decidida(c)' \/ Espera(c)'
               PROVE  Pedido[c].nodo \in conocidos'
    BY DEF DeConocidos
  <1>1. Pedido[c].nodo \in conocidos
    BY DeDondeVienen DEF DeConocidos
  <1>2. QED
    BY <1>1, ConocidosCrece

\* What the end of a connection did is kept by the steps of the others.
LEMMA FinDeOtro ==
    ASSUME UInv, UInv', FinConPurga, [Next]_vars, NEW h \in Hilos,
           pc'[h] = pc[h], con'[h] = con[h], rec'[h] = rec[h], aPurgar'[h] = aPurgar[h]
    PROVE  /\ pc'[h] \in {"desvincular", "limpiar", "reponer"} =>
                 con'[h] \in Conexiones /\ aPurgar'[h] = {Pedido[con'[h]].nodo}
           /\ \A r \in TipoRecurso : Limpia(h, r)' => con'[h] \notin ToSet(cola'[r])
  <1>0. /\ TypeOK /\ ConEnUso /\ UnHilo
        /\ \A r \in TipoRecurso : cola'[r] \in Seq(Conexiones)
    BY DEF UInv, IInv, TypeOK
  <1>1. ASSUME NEW r \in TipoRecurso, Limpia(h, r)', con'[h] \in ToSet(cola'[r]) PROVE FALSE
    <2>1. PICK c \in Conexiones : c = con[h]
      BY <1>0, <1>1, ElementOfSeq, LenProperties DEF ToSet
    <2>2. Limpia(h, r) /\ pc[h] # "reservar"
      BY <1>1 DEF Limpia
    <2>3. c \notin ToSet(cola[r])
      BY <2>1, <2>2 DEF FinConPurga
    <2>4. \E t \in Hilos : con[t] = c /\ pc[t] = "reservar"
      BY <1>0, <1>1, <2>1, <2>3, DeDondeVienen
    <2>5. QED
      BY <2>1, <2>2, <2>4, <1>0 DEF UnHilo
  <1>2. QED
    BY <1>1 DEF FinConPurga

\* The thread that ends a connection passes by every queue before it frees the
\* context.
LEMMA FinPaso ==
    ASSUME Expirables = {}, UInv, UInv', DeConocidos, FinConPurga, [Next]_vars
    PROVE  FinConPurga'
  <1> DEFINE Bien(h) ==
        /\ pc'[h] \in {"desvincular", "limpiar", "reponer"} =>
              con'[h] \in Conexiones /\ aPurgar'[h] = {Pedido[con'[h]].nodo}
        /\ \A r \in TipoRecurso : Limpia(h, r)' => con'[h] \notin ToSet(cola'[r])
  <1>0. /\ pc \in [Hilos -> Etapas] /\ con \in [Hilos -> Conexiones \cup {NULO}]
        /\ rec \in [Hilos -> TipoRecurso] /\ aPurgar \in [Hilos -> SUBSET Nodos]
        /\ cola \in [TipoRecurso -> Seq(Conexiones)] /\ NULO \notin Conexiones
    BY NuloAssumption DEF UInv, IInv, TypeOK
  <1>1. ASSUME NEW h \in Hilos,
               pc'[h] = pc[h], con'[h] = con[h], rec'[h] = rec[h], aPurgar'[h] = aPurgar[h]
        PROVE  Bien(h)
    BY <1>1, FinDeOtro
  <1>2. ASSUME NEW h \in Hilos,
               pc'[h] \notin {"desvincular", "limpiar", "reponer", "cerrar"}
        PROVE  Bien(h)
    BY <1>2 DEF Limpia
  <1>3. ASSUME NEW t \in Hilos, Avanzar(t) PROVE FinConPurga'
    <2>1. \A h \in Hilos \ {t} : /\ pc'[h] = pc[h] /\ con'[h] = con[h]
                                 /\ rec'[h] = rec[h] /\ aPurgar'[h] = aPurgar[h]
      BY <1>3, <1>0
         DEF Avanzar, Conceder, Encolar, Denegar, Responder, Devolver, Promover, FinPromover,
             Notificar, FinNotificar, Desvincular, Limpiar, Reponer, FinPurga, Cerrar, Rearmar,
             purga
    <2>2. Bien(t)
      <3>1. CASE \/ Conceder(t) \/ Encolar(t) \/ Denegar(t) \/ Responder(t) \/ Devolver(t)
                 \/ FinPromover(t) \/ FinNotificar(t) \/ Cerrar(t)
        <4>1. pc'[t] \notin {"desvincular", "limpiar", "reponer", "cerrar"}
          BY <3>1, <1>0 DEF Conceder, Encolar, Denegar, Responder, Devolver, FinPromover,
                            FinNotificar, Cerrar
        <4>2. QED
          BY <4>1, <1>2
      <3>2. CASE Promover(t) \/ Notificar(t)
        <4>1. pc'[t] \notin {"desvincular", "limpiar", "reponer", "cerrar"}
          BY <3>2, <1>0 DEF Promover, Notificar
        <4>2. QED
          BY <4>1, <1>2
      <3>3. CASE Desvincular(t)
        <4>1. /\ pc[t] = "desvincular" /\ pc'[t] = "limpiar" /\ rec'[t] = "cpu"
              /\ UNCHANGED <<con, aPurgar>>
          BY <3>3, <1>0 DEF Desvincular
        <4>2. QED
          BY <4>1 DEF FinConPurga, Limpia
      <3>4. CASE Limpiar(t)
        <4>1. PICK c \in Conexiones : c = con[t]
          BY <3>4 DEF Limpiar, FinConPurga
        <4>2. PICK q \in TipoRecurso : q = rec[t]
          BY <1>0
        <4>3. EnPurga(t) = Pedido[c].nodo /\ aPurgar[t] = {Pedido[c].nodo}
          BY <3>4, <4>1 DEF Limpiar, FinConPurga, EnPurga
        <4>4. /\ pc[t] = "limpiar" /\ UNCHANGED <<con, aPurgar>>
              /\ cola' = [cola EXCEPT ![q] = SinNodo(@, Pedido[c].nodo)]
              /\ q = "gpu" => pc'[t] = "reponer"
              /\ q # "gpu" => pc'[t] = "limpiar" /\ rec'[t] = Siguiente(q)
          BY <3>4, <4>2, <4>3, <1>0 DEF Limpiar, purga
        <4>5. c \notin ToSet(cola'[q])
          BY <4>4, <1>0, SinNodoUnicos
        <4>6. \A r \in TipoRecurso : r # q => cola'[r] = cola[r]
          BY <4>4, <1>0
        <4>7. ASSUME NEW r \in TipoRecurso, Limpia(t, r)' PROVE c \notin ToSet(cola'[r])
          <5>1. r = q \/ Limpia(t, r)
            BY <4>2, <4>4, <4>7 DEF Limpia, Siguiente, TipoRecurso
          <5>2. QED
            BY <5>1, <4>1, <4>5, <4>6 DEF FinConPurga
        <4>8. QED
          BY <4>1, <4>3, <4>4, <4>7
      <3>5. CASE Reponer(t)
        <4>1. pc[t] = "reponer" /\ UNCHANGED <<pc, con, aPurgar, cola>>
          BY <3>5 DEF Reponer
        <4>2. QED
          BY <4>1 DEF FinConPurga, Limpia
      <3>6. CASE FinPurga(t)
        <4>1. PICK c \in Conexiones : c = con[t]
          BY <3>6 DEF FinPurga, FinConPurga
        <4>2. pc[t] = "reponer" /\ aPurgar[t] = {Pedido[c].nodo} /\ UNCHANGED <<con, cola>>
          BY <3>6, <4>1 DEF FinPurga, FinConPurga
        <4>3. aPurgar[t] \ {EnPurga(t)} = {}
          BY <4>2 DEF EnPurga
        <4>4. pc'[t] = "cerrar"
          BY <3>6, <4>1, <4>3, <1>0 DEF FinPurga
        <4>5. QED
          BY <4>2, <4>4 DEF FinConPurga, Limpia
      <3>7. QED
        BY <1>3, <3>1, <3>2, <3>3, <3>4, <3>5, <3>6 DEF Avanzar
    <2>3. \A h \in Hilos : Bien(h)
      BY <2>1, <2>2, <1>1
    <2>4. QED
      BY <2>3 DEF FinConPurga
  <1>4. ASSUME NEW t \in Hilos, NEW c \in Conexiones, Atender(t, c) PROVE FinConPurga'
    <2>1. /\ \A h \in Hilos \ {t} : /\ pc'[h] = pc[h] /\ con'[h] = con[h]
                                    /\ rec'[h] = rec[h] /\ aPurgar'[h] = aPurgar[h]
      BY <1>4, <1>0 DEF Atender, Aceptar, LeerReserve, LeerRelease, LeerFin, purga
    <2>2. Bien(t)
      <3>1. CASE LeerFin(t, c)
        <4>1. /\ con'[t] = c /\ UNCHANGED <<cola, rec>>
              /\ \/ pc'[t] = "desvincular" /\ aPurgar'[t] = {Pedido[c].nodo}
                 \/ pc'[t] = "cerrar" /\ Pedido[c].nodo \notin conocidos
          BY <3>1, <1>0 DEF LeerFin
        <4>2. CASE pc'[t] = "desvincular"
          BY <4>1, <4>2 DEF Limpia
        <4>3. CASE pc'[t] = "cerrar"
          <5>1. ~ Espera(c)
            BY <4>1, <4>3 DEF DeConocidos
          <5>2. QED
            BY <4>1, <4>3, <5>1 DEF Espera
        <4>4. QED
          BY <4>1, <4>2, <4>3
      <3>2. CASE Aceptar(t, c) \/ LeerReserve(t, c) \/ LeerRelease(t, c)
        <4>1. pc'[t] \notin {"desvincular", "limpiar", "reponer", "cerrar"}
          BY <3>2, <1>0 DEF Aceptar, LeerReserve, LeerRelease, Entregable
        <4>2. QED
          BY <4>1, <1>2
      <3>3. QED
        BY <1>4, <3>1, <3>2 DEF Atender
    <2>3. \A h \in Hilos : Bien(h)
      BY <2>1, <2>2, <1>1
    <2>4. QED
      BY <2>3 DEF FinConPurga
  <1>5. ASSUME UNCHANGED <<pc, con, rec, aPurgar>> PROVE FinConPurga'
    BY <1>5, <1>1 DEF FinConPurga
  <1>6. QED
    BY <1>3, <1>4, <1>5 DEF Next, vars, Anunciar, Expirar, ParLibera, ParCae, purga

\* A context is freed when its request is in no queue.
LEMMA ColaVivaPaso ==
    ASSUME UInv, ConVivo, FinConPurga, ColaViva, [Next]_vars
    PROVE  ColaViva'
  <1>0. /\ TypeOK /\ ConEnUso /\ UnHilo /\ con \in [Hilos -> Conexiones \cup {NULO}]
        /\ ctx \in [Conexiones -> {"sin_crear", "viva", "liberada"}]
        /\ cola \in [TipoRecurso -> Seq(Conexiones)]
    BY DEF UInv, IInv, TypeOK
  <1>1. cola' \in [TipoRecurso -> Seq(Conexiones)]
    BY TiposPaso, <1>0 DEF Tipos, TypeOK
  <1> SUFFICES ASSUME NEW r \in TipoRecurso, NEW c \in Conexiones, c \in ToSet(cola'[r])
               PROVE  ctx'[c] = "viva"
    <2>1. \A r \in TipoRecurso : ToSet(cola'[r]) \subseteq Conexiones
      BY <1>1, ElementOfSeq, LenProperties DEF ToSet
    <2>2. QED
      BY <2>1 DEF ColaViva
  <1>2. \/ c \in ToSet(cola[r])
        \/ \E t \in Hilos : con[t] = c /\ pc[t] = "reservar"
    BY <1>0, DeDondeVienen
  <1>3. ctx[c] = "viva"
    BY <1>2 DEF ColaViva, ConVivo
  <1>4. ASSUME NEW t \in Hilos, Cerrar(t) PROVE ctx'[c] = "viva"
    <2>1. /\ pc[t] = "cerrar" /\ UNCHANGED cola
          /\ ctx' = [ctx EXCEPT ![con[t]] = "liberada"]
      BY <1>4 DEF Cerrar
    <2>2. con[t] \notin ToSet(cola[r])
      BY <2>1 DEF FinConPurga, Limpia
    <2>3. con[t] # c
      BY <2>1, <2>2
    <2>4. QED
      BY <2>1, <2>3, <1>3, <1>0
  <1>5. ASSUME NEW t \in Hilos, NEW d \in Conexiones, Aceptar(t, d) PROVE ctx'[c] = "viva"
    BY <1>5, <1>3, <1>0 DEF Aceptar
  <1>6. ASSUME UNCHANGED ctx PROVE ctx'[c] = "viva"
    BY <1>6, <1>3
  <1>7. QED
    BY ZenonT(40), <1>4, <1>5, <1>6
       DEF Next, vars, Avanzar, Conceder, Encolar, Denegar, Responder, Devolver, Promover,
           FinPromover, Notificar, FinNotificar, Desvincular, Limpiar, Reponer, FinPurga,
           Atender, LeerReserve, LeerRelease, LeerFin, Anunciar, Expirar, ParLibera, ParCae,
           redes

\* At the start nothing waits and nobody has a connection.
LEMMA VInvInit == Init => VInv
  <1> SUFFICES ASSUME Init PROVE VInv
    OBVIOUS
  <1>1. UInv
    BY UInvInit
  <1>2. /\ \A r \in TipoRecurso : ToSet(cola[r]) = {}
        /\ \A t \in Hilos : pc[t] = "espera" /\ con[t] = NULO
    BY DEF Init, ToSet
  <1>3. ConVivo
    BY <1>2, NuloAssumption DEF ConVivo
  <1>4. DeConocidos
    BY <1>2 DEF DeConocidos, Decidida, Decidiendose, Espera
  <1>5. FinConPurga
    BY <1>2 DEF FinConPurga
  <1>6. ColaViva
    BY <1>2 DEF ColaViva
  <1>7. QED
    BY <1>1, <1>3, <1>4, <1>5, <1>6 DEF VInv

\* The parts of the invariant behind waiting requests are kept together.
LEMMA VInvPaso == Expirables = {} /\ VInv /\ [Next]_vars => VInv'
  <1> SUFFICES ASSUME Expirables = {}, VInv, [Next]_vars PROVE VInv'
    OBVIOUS
  <1>1. UInv /\ UInv' /\ TypeOK /\ ConEnUso /\ UnHilo
    BY UInvPaso DEF VInv, UInv, IInv
  <1>2. ConVivo' /\ DeConocidos'
    BY <1>1, ConVivoPaso, DeConocidosPaso DEF VInv
  <1>3. FinConPurga' /\ ColaViva'
    BY <1>1, FinPaso, ColaVivaPaso DEF VInv
  <1>4. QED
    BY <1>1, <1>2, <1>3 DEF VInv

\* If no node expires, whatever closes a connection has taken its request out
\* of the queues before it frees the context that a waiting request points to.
THEOREM ColaVivaSiempre ==
    ASSUME Expirables = {}
    PROVE  Spec => []ColaViva
  <1>1. VInv /\ [Next]_vars => VInv'
    BY VInvPaso
  <1>2. VInv => ColaViva
    BY DEF VInv
  <1>3. QED
    BY VInvInit, <1>1, <1>2, PTL DEF Spec

-----------------------------------------------------------------------------
(* Grants and the units behind them *)

\* Thread t records the request of c: granted at once, or promoted.
Inserta(t, c) ==
    \/ Conceder(t) /\ con[t] = c
    \/ Promover(t) /\ cola[rec[t]] # <<>> /\ Head(cola[rec[t]]) = c

\* The requester writes its RELEASE last.
ReleaseAlFinal ==
    \A c \in Conexiones : \A i \in DOMAIN canal[c] :
        canal[c][i] # MsgReserve => par[c] = "cerrada" /\ i = Len(canal[c])

\* A node is purged because it expired or because a connection of it ended.
PurgasConMotivo ==
    \A t \in Hilos :
        /\ pc[t] = "desvincular" => aPurgar[t] # {}
        /\ \A n \in aPurgar[t] :
              n \in Expirables \/ \E d \in Conexiones : Pedido[d].nodo = n /\ Terminada(d)

\* An entry carries the name of a node that asked for units under its job.
EntradasConDueno ==
    \A j \in JobIds : nodoJob[j] # NULO =>
        \E c \in DelTrabajo(j) : Pedido[c].nodo = nodoJob[j]

CInv == RInv /\ ReleaseAlFinal /\ PurgasConMotivo /\ EntradasConDueno /\ ConcesionRespaldada

\* A RELEASE is written when the requester closes, and nothing after it.
LEMMA ReleasePaso ==
    ASSUME TypeOK, ReleaseAlFinal, [Next]_vars
    PROVE  ReleaseAlFinal'
  <1> DEFINE Bien(c) == \A i \in DOMAIN canal'[c] :
               canal'[c][i] # MsgReserve => par'[c] = "cerrada" /\ i = Len(canal'[c])
  <1> SUFFICES ASSUME NEW c \in Conexiones PROVE Bien(c)
    BY DEF ReleaseAlFinal
  <1>0. /\ canal \in [Conexiones -> Seq(Mensajes)] /\ canal[c] \in Seq(Mensajes)
        /\ par \in [Conexiones -> {"abierta", "cerrada"}]
        /\ DOMAIN canal[c] = 1..Len(canal[c]) /\ Len(canal[c]) \in Nat
        /\ \A i \in DOMAIN canal[c] :
              canal[c][i] # MsgReserve => par[c] = "cerrada" /\ i = Len(canal[c])
    BY LenProperties DEF TypeOK, ReleaseAlFinal
  <1>1. ASSUME canal'[c] = canal[c], par'[c] = par[c] \/ par'[c] = "cerrada" PROVE Bien(c)
    BY <1>0, <1>1
  <1>2. ASSUME NEW t \in Hilos, NEW d \in Conexiones, LeerReserve(t, d) \/ LeerRelease(t, d)
        PROVE  Bien(c)
    <2>1. canal[d] # <<>> /\ canal' = [canal EXCEPT ![d] = Tail(@)] /\ UNCHANGED par
      BY <1>2 DEF LeerReserve, LeerRelease
    <2>2. CASE d = c
      <3>1. canal'[c] = Tail(canal[c]) /\ canal[c] # <<>>
        BY <1>0, <2>1, <2>2
      <3>2. /\ Len(Tail(canal[c])) = Len(canal[c]) - 1
            /\ DOMAIN Tail(canal[c]) = 1..(Len(canal[c]) - 1)
            /\ \A i \in DOMAIN Tail(canal[c]) :
                  i + 1 \in DOMAIN canal[c] /\ Tail(canal[c])[i] = canal[c][i + 1]
        BY <1>0, <3>1, SinElPrimero, HeadTailProperties, LenProperties
      <3>3. ASSUME NEW i \in DOMAIN canal'[c], canal'[c][i] # MsgReserve
            PROVE  par'[c] = "cerrada" /\ i = Len(canal'[c])
        <4>1. i \in Nat /\ par[c] = "cerrada" /\ i + 1 = Len(canal[c])
          BY <3>1, <3>2, <3>3, <1>0
        <4>2. QED
          BY <4>1, <3>1, <3>2, <2>1, <1>0
      <3>4. QED
        BY <3>3
    <2>3. CASE d # c
      BY <2>1, <2>3, <1>0, <1>1
    <2>4. QED
      BY <2>2, <2>3
  <1>3. ASSUME NEW t \in Hilos, NEW d \in Conexiones, Aceptar(t, d) PROVE Bien(c)
    <2>1. /\ UNCHANGED par
          /\ canal'[c] = canal[c] \/ canal'[c] = <<>> \/ canal'[c] = <<MsgReserve>>
      BY <1>3, <1>0 DEF Aceptar
    <2>2. QED
      BY <2>1, <1>1
  <1>4. ASSUME NEW d \in Conexiones, ParCae(d) PROVE Bien(c)
    <2>1. /\ par' = [par EXCEPT ![d] = "cerrada"]
          /\ canal'[c] = canal[c] \/ canal'[c] = <<>>
      BY <1>4, <1>0 DEF ParCae
    <2>2. par'[c] = par[c] \/ par'[c] = "cerrada"
      BY <2>1, <1>0
    <2>3. QED
      BY <2>1, <2>2, <1>1
  <1>5. ASSUME NEW d \in Conexiones, ParLibera(d) PROVE Bien(c)
    <2>1. PICK r \in RecIndefinido \cup TipoRecurso :
              canal' = [canal EXCEPT ![d] = Append(@, MsgRelease(r))]
      BY <1>5, PedidoTipo DEF ParLibera
    <2>2. par[d] = "abierta" /\ par' = [par EXCEPT ![d] = "cerrada"]
      BY <1>5 DEF ParLibera, PuedeCerrar
    <2>3. CASE d = c
      <3>1. canal'[c] = Append(canal[c], MsgRelease(r)) /\ MsgRelease(r) \in Mensajes
        BY <1>0, <2>1, <2>3, MensajesTipo
      <3>2. /\ DOMAIN canal'[c] = 1..(Len(canal[c]) + 1) /\ Len(canal'[c]) = Len(canal[c]) + 1
            /\ \A i \in 1..Len(canal[c]) : canal'[c][i] = canal[c][i]
        BY <1>0, <3>1, AppendProperties
      <3>3. par'[c] = "cerrada" /\ par[c] # "cerrada"
        BY <1>0, <2>2, <2>3
      <3>4. QED
        BY <1>0, <3>2, <3>3
    <2>4. CASE d # c
      <3>1. \E s : canal' = [canal EXCEPT ![d] = s]
        BY <1>5 DEF ParLibera
      <3>2. canal'[c] = canal[c]
        BY <3>1, <2>4, <1>0
      <3>3. par'[c] = par[c]
        BY <2>2, <2>4, <1>0
      <3>4. QED
        BY <3>2, <3>3, <1>1
    <2>5. QED
      BY <2>3, <2>4
  <1>6. QED
    BY <1>1, <1>2, <1>3, <1>4, <1>5
       DEF Next, vars, Avanzar, Conceder, Encolar, Denegar, Responder, Devolver, Promover,
           FinPromover, Notificar, FinNotificar, Desvincular, Limpiar, Reponer, FinPurga,
           Cerrar, Atender, LeerFin, Anunciar, Expirar, redes

\* Purges start at the end of a connection or with an expiry.
LEMMA MotivoPaso ==
    ASSUME TypeOK, FinDeContextos, PurgasConMotivo, [Next]_vars
    PROVE  PurgasConMotivo'
  <1> DEFINE Caido(n) == n \in Expirables
                         \/ \E d \in Conexiones : Pedido[d].nodo = n /\ Terminada(d)
             Luego(n) == n \in Expirables
                         \/ \E d \in Conexiones : Pedido[d].nodo = n /\ Terminada(d)'
             Bien(h) == /\ pc'[h] = "desvincular" => aPurgar'[h] # {}
                        /\ \A n \in aPurgar'[h] : Luego(n)
  <1> SUFFICES ASSUME NEW h \in Hilos PROVE Bien(h)
    BY DEF PurgasConMotivo, Terminada
  <1>0. /\ pc \in [Hilos -> Etapas] /\ aPurgar \in [Hilos -> SUBSET Nodos]
        /\ pc[h] = "desvincular" => aPurgar[h] # {}
        /\ \A n \in aPurgar[h] : Caido(n)
    BY DEF TypeOK, PurgasConMotivo
  <1>1. ASSUME NEW n, Caido(n) PROVE Luego(n)
    BY <1>1, TerminadaSigue
  <1> HIDE DEF Caido, Luego
  <1>2. ASSUME aPurgar'[h] = aPurgar[h], pc'[h] = pc[h] \/ pc'[h] # "desvincular"
        PROVE  Bien(h)
    BY <1>0, <1>1, <1>2
  <1>3. ASSUME NEW t \in Hilos, NEW c \in Conexiones, LeerFin(t, c) PROVE Bien(h)
    <2>1. \/ /\ pc' = [pc EXCEPT ![t] = "desvincular"]
             /\ aPurgar' = [aPurgar EXCEPT ![t] = {Pedido[c].nodo}]
          \/ pc' = [pc EXCEPT ![t] = "cerrar"] /\ UNCHANGED aPurgar
      BY <1>3 DEF LeerFin
    <2>2. Luego(Pedido[c].nodo)
      <3>1. Terminada(c)
        BY <1>3 DEF LeerFin, Terminada
      <3>2. QED
        BY <3>1, <1>1 DEF Caido
    <2>3. QED
      BY <2>1, <2>2, <1>0, <1>2
  <1>4. ASSUME NEW t \in Hilos, NEW E \in SUBSET Expirables, Expirar(t, E) PROVE Bien(h)
    <2>1. E # {} /\ aPurgar' = [aPurgar EXCEPT ![t] = E]
          /\ pc' = [pc EXCEPT ![t] = "desvincular"]
      BY <1>4 DEF Expirar
    <2>2. \A n \in E : Luego(n)
      BY DEF Luego
    <2>3. QED
      BY <2>1, <2>2, <1>0, <1>2
  <1>5. ASSUME NEW t \in Hilos, FinPurga(t) PROVE Bien(h)
    <2>1. PICK Q : Q = aPurgar[t] \ {EnPurga(t)}
      OBVIOUS
    <2>2. /\ aPurgar' = [aPurgar EXCEPT ![t] = Q]
          /\ \E e : pc' = [pc EXCEPT ![t] = e] /\ (Q = {} => e # "desvincular")
      BY <1>5, <2>1 DEF FinPurga
    <2>3. QED
      BY <2>1, <2>2, <1>0, <1>1, <1>2
  <1>6. ASSUME NEW t \in Hilos, Avanzar(t), ~ FinPurga(t) PROVE Bien(h)
    <2>1. UNCHANGED aPurgar
          /\ \E e : e # "desvincular" /\ (UNCHANGED pc \/ pc' = [pc EXCEPT ![t] = e])
      BY <1>6
         DEF Avanzar, Conceder, Encolar, Denegar, Responder, Devolver, Promover, FinPromover,
             Notificar, FinNotificar, Desvincular, Limpiar, Reponer, Cerrar, purga
    <2>2. QED
      BY <2>1, <1>0, <1>2
  <1>7. ASSUME NEW t \in Hilos, NEW c \in Conexiones, Atender(t, c), ~ LeerFin(t, c)
        PROVE  Bien(h)
    <2>1. UNCHANGED aPurgar
          /\ \E e : e # "desvincular" /\ (UNCHANGED pc \/ pc' = [pc EXCEPT ![t] = e])
      BY <1>7 DEF Atender, Aceptar, LeerReserve, LeerRelease, purga
    <2>2. QED
      BY <2>1, <1>0, <1>2
  <1>8. QED
    BY <1>2, <1>3, <1>4, <1>5, <1>6, <1>7
       DEF Next, vars, Anunciar, ParLibera, ParCae, purga

\* A step that records no request leaves the entry of a job alone, unless it is
\* a RELEASE read on a connection of the job or the purge of its node.
LEMMA EntradaPaso ==
    ASSUME TypeOK, ConEnUso, [Next]_vars, NEW j \in JobIds
    PROVE  \/ nodoJob'[j] = nodoJob[j] /\ recReservados'[j] = recReservados[j]
           \/ \E t \in Hilos, d \in Conexiones : Inserta(t, d)
           \/ /\ nodoJob'[j] \in {nodoJob[j], NULO}
              /\ \/ \E t \in Hilos, d \in DelTrabajo(j) : LeerRelease(t, d)
                 \/ \E t \in Hilos : pc[t] = "desvincular" /\ EnPurga(t) = nodoJob[j]
  <1>0. /\ nodoJob \in [JobIds -> Nodos \cup {NULO}]
        /\ recReservados \in [JobIds -> [TipoRecurso -> Nat]]
        /\ \A c \in Conexiones : Pedido[c].jobId \in JobIds
    BY PedidoTipo DEF TypeOK
  <1> DEFINE Igual == nodoJob'[j] = nodoJob[j] /\ recReservados'[j] = recReservados[j]
             DeUno == \E t \in Hilos, d \in Conexiones : Inserta(t, d)
             Quita == /\ nodoJob'[j] \in {nodoJob[j], NULO}
                      /\ \/ \E t \in Hilos, d \in DelTrabajo(j) : LeerRelease(t, d)
                         \/ \E t \in Hilos : pc[t] = "desvincular" /\ EnPurga(t) = nodoJob[j]
             Meta == Igual \/ DeUno \/ Quita
  <1>1. ASSUME NEW t \in Hilos, Conceder(t) PROVE DeUno
    BY <1>1 DEF Conceder, EntraAReservar, ConEnUso, Inserta
  <1>2. ASSUME NEW t \in Hilos, Promover(t) PROVE DeUno
    <2>1. rec[t] \in TipoRecurso /\ cola[rec[t]] \in Seq(Conexiones) /\ cola[rec[t]] # <<>>
      BY <1>2 DEF Promover, ColaAgotada, TypeOK
    <2>2. Head(cola[rec[t]]) \in Conexiones
      BY <2>1, CabezaYResto
    <2>3. QED
      BY <1>2, <2>1, <2>2 DEF Inserta
  <1>3. ASSUME NEW t \in Hilos, NEW d \in Conexiones, LeerRelease(t, d) PROVE Igual \/ Quita
    <2>1. PICK k \in JobIds : k = Pedido[d].jobId
      BY <1>0
    <2>2. /\ nodoJob'[j] \in {nodoJob[j], NULO}
          /\ k # j => Igual
      <3>1. CASE Head(canal[d]).rec \in TipoRecurso
        <4>1. PICK y : y = QuitarRec(k, Head(canal[d]).rec)
          OBVIOUS
        <4>2. /\ recReservados' = [recReservados EXCEPT ![k] = y]
              /\ nodoJob' = [nodoJob EXCEPT ![k] = IF y = SinUnidades THEN NULO ELSE @]
          BY <1>3, <2>1, <3>1, <4>1 DEF LeerRelease
        <4>3. QED
          BY <4>2, <1>0
      <3>2. CASE Head(canal[d]).rec \notin TipoRecurso
        <4>1. /\ UNCHANGED recReservados
              /\ nodoJob' = [nodoJob EXCEPT ![k] =
                               IF recReservados[k] = SinUnidades THEN NULO ELSE @]
          BY <1>3, <2>1, <3>2 DEF LeerRelease
        <4>2. QED
          BY <4>1, <1>0
      <3>3. QED
        BY <3>1, <3>2
    <2>3. QED
      BY <1>3, <2>1, <2>2 DEF DelTrabajo
  <1>4. ASSUME NEW t \in Hilos, Desvincular(t) PROVE Igual \/ Quita
    <2>1. PICK n : n = EnPurga(t)
      OBVIOUS
    <2>2. /\ pc[t] = "desvincular"
          /\ nodoJob'[j] = IF j \in DelNodo(n) THEN NULO ELSE nodoJob[j]
          /\ recReservados'[j] = IF j \in DelNodo(n) THEN SinUnidades ELSE recReservados[j]
      BY <1>4, <2>1 DEF Desvincular
    <2>3. QED
      BY <2>1, <2>2 DEF DelNodo
  <1>5. ASSUME UNCHANGED <<nodoJob, recReservados>> PROVE Igual
    BY <1>5
  <1> HIDE DEF Igual, DeUno, Quita
  <1>6. Meta
    BY <1>1, <1>2, <1>3, <1>4, <1>5
       DEF Next, vars, Avanzar, Encolar, Denegar, Responder, Devolver, FinPromover, Notificar,
           FinNotificar, Limpiar, Reponer, FinPurga, Cerrar, Atender, Aceptar, LeerReserve,
           LeerFin, Anunciar, Expirar, ParLibera, ParCae, tabla
  <1>7. QED
    BY <1>6 DEF Igual, DeUno, Quita

\* What recording a request does to the table.
LEMMA InsertaAnota ==
    ASSUME TypeOK, NEW t \in Hilos, NEW c \in Conexiones, Inserta(t, c)
    PROVE  Insertar(c) /\ UNCHANGED <<respuestas, par, canal>>
  BY DEF Inserta, Conceder, Promover, redes

\* The name of an entry is that of a node with a request in its job.
LEMMA DuenoPaso ==
    ASSUME TypeOK, ConEnUso, EntradasConDueno, [Next]_vars
    PROVE  EntradasConDueno'
  <1> SUFFICES ASSUME NEW j \in JobIds, nodoJob'[j] # NULO
               PROVE  \E c \in DelTrabajo(j) : Pedido[c].nodo = nodoJob'[j]
    BY DEF EntradasConDueno, DelTrabajo
  <1>0. nodoJob \in [JobIds -> Nodos \cup {NULO}]
    BY DEF TypeOK
  <1>1. ASSUME nodoJob'[j] = nodoJob[j]
        PROVE  \E c \in DelTrabajo(j) : Pedido[c].nodo = nodoJob'[j]
    BY <1>1 DEF EntradasConDueno
  <1>2. ASSUME NEW t \in Hilos, NEW d \in Conexiones, Inserta(t, d)
        PROVE  \E c \in DelTrabajo(j) : Pedido[c].nodo = nodoJob'[j]
    <2>1. PICK k \in JobIds : k = Pedido[d].jobId
      BY PedidoTipo
    <2>2. nodoJob' = [nodoJob EXCEPT ![k] = IF @ = NULO THEN Pedido[d].nodo ELSE @]
      BY <1>2, <2>1, InsertaAnota DEF Insertar
    <2>3. nodoJob'[j] = nodoJob[j] \/ (k = j /\ nodoJob'[j] = Pedido[d].nodo)
      BY <2>2, <1>0
    <2>4. QED
      BY <2>1, <2>3, <1>1 DEF DelTrabajo
  <1>3. QED
    BY <1>1, <1>2, EntradaPaso

\* One more line on a connection grants what it says to whom it names.
LEMMA ConcedidaAlEnviar ==
    ASSUME TypeOK, NEW c \in Conexiones, NEW d \in Conexiones, NEW j \in JobIds,
           NEW tipo \in {"GRANTED", "DENIED"}, Enviar(d, tipo, j)
    PROVE  /\ j = Pedido[c].jobId =>
                 (Concedida(c)' <=> Concedida(c) \/ (d = c /\ tipo = "GRANTED"))
           /\ j # Pedido[c].jobId => (Concedida(c)' <=> Concedida(c))
           /\ d # c => (Concedida(c)' <=> Concedida(c))
  <1>1. ASSUME d # c PROVE Concedida(c)' <=> Concedida(c)
    <2>1. respuestas'[c] = respuestas[c]
      BY <1>1, LineaEnviada
    <2>2. QED
      BY <2>1 DEF Concedida, Propias
  <1>2. ASSUME d = c
        PROVE  /\ j = Pedido[c].jobId =>
                     (Concedida(c)' <=> Concedida(c) \/ tipo = "GRANTED")
               /\ j # Pedido[c].jobId => (Concedida(c)' <=> Concedida(c))
    <2>1. PICK n \in Nat :
                 /\ n \notin DOMAIN respuestas[c]
                 /\ DOMAIN respuestas'[c] = DOMAIN respuestas[c] \cup {n}
                 /\ respuestas'[c][n].tipo = tipo /\ respuestas'[c][n].jobId = j
                 /\ \A k \in DOMAIN respuestas[c] : respuestas'[c][k] = respuestas[c][k]
      BY <1>2, LineaEnviada
    <2>2. Propias(c)' = IF j = Pedido[c].jobId THEN Propias(c) \cup {n} ELSE Propias(c)
      BY <2>1 DEF Propias
    <2>3. Propias(c) \subseteq DOMAIN respuestas[c]
      BY DEF Propias
    <2>4. QED
      BY <2>1, <2>2, <2>3 DEF Concedida
  <1>3. QED
    BY <1>1, <1>2

\* A request that is recorded while its job is under way was not granted before,
\* and is from then on.
LEMMA DadaAlInsertar ==
    ASSUME RInv, NEW t \in Hilos, NEW c \in Conexiones, Inserta(t, c)
    PROVE  /\ Dada(c)'
           /\ EnMarcha(Pedido[c].jobId) => ~ Dada(c)
           /\ \A d \in Conexiones \ {c} : Dada(d)' <=> Dada(d)
  <1>0. /\ pc \in [Hilos -> Etapas] /\ con \in [Hilos -> Conexiones \cup {NULO}]
        /\ promovidos \in [Hilos -> Seq(Conexiones)]
        /\ cola \in [TipoRecurso -> Seq(Conexiones)] /\ rec[t] \in TipoRecurso
    BY DEF RInv, UInv, IInv, TypeOK
  <1>1. \A d \in Conexiones : Concedida(d)' <=> Concedida(d)
    BY InsertaAnota DEF RInv, UInv, IInv, Concedida, Propias
  <1>2. /\ UnLugar(c) /\ AUnoSolo(c) /\ Pedido[c].jobId \in JobIds
        /\ \A h \in Hilos : con[t] = c /\ con[h] = c => h = t
    BY PedidoTipo DEF RInv, UInv, Lugares, Contestadas, UnHilo
  <1>3. CASE Conceder(t) /\ con[t] = c
    <2>1. /\ pc[t] = "reservar" /\ pc' = [pc EXCEPT ![t] = "conceder"]
          /\ UNCHANGED <<con, promovidos>>
      BY <1>3 DEF Conceder, EntraAReservar
    <2>2. Decidida(c) /\ Pendiente(c)
      BY <1>3, <2>1 DEF Decidida, Decidiendose, Pendiente
    <2>3. \A h \in Hilos : c \notin ToSet(promovidos[h]) /\ ~ (con[h] = c /\ pc[h] = "conceder")
      BY <1>2, <1>3, <2>1, <2>2 DEF UnLugar, Promovida
    <2>4. EnMarcha(Pedido[c].jobId) => ~ Concedida(c)
      BY <1>2, <2>2 DEF AUnoSolo, Concedida
    <2>5. Dada(c)'
      <3>1. con'[t] = c /\ pc'[t] = "conceder"
        BY <1>0, <1>3, <2>1
      <3>2. QED
        BY <3>1 DEF Dada
    <2>6. ASSUME NEW d \in Conexiones \ {c} PROVE Dada(d)' <=> Dada(d)
      <3>1. \A h \in Hilos : (con'[h] = d /\ pc'[h] = "conceder")
                               <=> (con[h] = d /\ pc[h] = "conceder")
        BY <1>0, <1>3, <2>1
      <3>2. QED
        BY <3>1, <2>1, <1>1 DEF Dada
    <2>7. QED
      BY <2>3, <2>4, <2>5, <2>6 DEF Dada
  <1>4. CASE Promover(t) /\ cola[rec[t]] # <<>> /\ Head(cola[rec[t]]) = c
    <2>1. /\ UNCHANGED <<con, pc>>
          /\ promovidos' = [promovidos EXCEPT ![t] = <<c>> \o @]
      BY <1>4 DEF Promover
    <2>2. c \in ToSet(cola[rec[t]])
      BY <1>0, <1>4, SinElPrimero
    <2>3. Espera(c) /\ Pendiente(c)
      BY <1>0, <2>2 DEF Espera, Pendiente
    <2>4. \A h \in Hilos : c \notin ToSet(promovidos[h]) /\ ~ (con[h] = c /\ pc[h] = "conceder")
      BY <1>2, <2>3 DEF UnLugar, Promovida, Decidida, Decidiendose
    <2>5. EnMarcha(Pedido[c].jobId) => ~ Concedida(c)
      BY <1>2, <2>3 DEF AUnoSolo, Concedida
    <2>6. /\ \A h \in Hilos \ {t} : promovidos'[h] = promovidos[h]
          /\ ToSet(promovidos'[t]) = ToSet(promovidos[t]) \cup {c}
      <3>1. promovidos'[t] = <<c>> \o promovidos[t] /\ promovidos[t] \in Seq(Conexiones)
        BY <1>0, <2>1
      <3>2. QED
        BY <3>1, <1>0, <2>1, AlPrincipio
    <2>7. Dada(c)'
      BY <2>6 DEF Dada
    <2>8. ASSUME NEW d \in Conexiones \ {c} PROVE Dada(d)' <=> Dada(d)
      <3>1. \A h \in Hilos : d \in ToSet(promovidos'[h]) <=> d \in ToSet(promovidos[h])
        BY <2>6
      <3>2. QED
        BY <3>1, <2>1, <1>1 DEF Dada
    <2>9. QED
      BY <2>4, <2>5, <2>7, <2>8 DEF Dada
  <1>5. QED
    BY <1>3, <1>4 DEF Inserta

\* Any other step keeps what was granted, for a job under way.
LEMMA DadaResto ==
    ASSUME RInv, [Next]_vars, ~ \E t \in Hilos, d \in Conexiones : Inserta(t, d),
           NEW c \in Conexiones, EnMarcha(Pedido[c].jobId)'
    PROVE  Dada(c)' <=> Dada(c)
  <1> DEFINE Da(h) == con[h] = c /\ pc[h] = "conceder"
             Dara(h) == con'[h] = c /\ pc'[h] = "conceder"
  <1>0. /\ TypeOK /\ ConEnUso /\ FinDeContextos
        /\ pc \in [Hilos -> Etapas] /\ con \in [Hilos -> Conexiones \cup {NULO}]
        /\ promovidos \in [Hilos -> Seq(Conexiones)] /\ NULO \notin Conexiones
        /\ ctx \in [Conexiones -> {"sin_crear", "viva", "liberada"}]
        /\ Pedido[c].jobId \in JobIds /\ EnMarcha(Pedido[c].jobId)
    BY PedidoTipo, EnMarchaAntes, NuloAssumption DEF RInv, UInv, IInv, TypeOK
  <1>1. ASSUME UNCHANGED <<respuestas, promovidos>>, \A h \in Hilos : Dara(h) <=> Da(h)
        PROVE  Dada(c)' <=> Dada(c)
    <2>1. Concedida(c)' <=> Concedida(c)
      BY <1>1 DEF Concedida, Propias
    <2>2. QED
      BY <1>1, <2>1 DEF Dada
  <1>2. ASSUME NEW t \in Hilos, Avanzar(t), ~ Responder(t), ~ Notificar(t)
        PROVE  Dada(c)' <=> Dada(c)
    <2>1. ~ Conceder(t) /\ ~ Promover(t)
      <3>1. Conceder(t) => Inserta(t, con[t]) /\ con[t] \in Conexiones
        BY <1>0 DEF Conceder, EntraAReservar, ConEnUso, Inserta
      <3>2. ASSUME Promover(t) PROVE FALSE
        <4>1. rec[t] \in TipoRecurso /\ cola[rec[t]] \in Seq(Conexiones) /\ cola[rec[t]] # <<>>
          BY <3>2, <1>0 DEF Promover, ColaAgotada, TypeOK
        <4>2. Head(cola[rec[t]]) \in Conexiones
          BY <4>1, CabezaYResto
        <4>3. QED
          BY <3>2, <4>1, <4>2 DEF Inserta
      <3>3. QED
        BY <3>1, <3>2
    <2>2. /\ UNCHANGED <<respuestas, promovidos>>
          /\ \A h \in Hilos \ {t} : pc'[h] = pc[h] /\ con'[h] = con[h]
          /\ pc[t] # "conceder" /\ pc'[t] # "conceder"
      BY <2>1, <1>2, <1>0
         DEF Avanzar, Encolar, Denegar, EntraAReservar, Devolver, FinPromover, FinNotificar,
             Desvincular, Limpiar, Reponer, FinPurga, Cerrar, Rearmar, redes
    <2>3. QED
      BY <2>2, <1>1
  <1>3. ASSUME NEW t \in Hilos, NEW d \in Conexiones, Atender(t, d) PROVE Dada(c)' <=> Dada(c)
    <2>1. /\ UNCHANGED <<respuestas, promovidos>> /\ pc[t] = "espera"
          /\ \A h \in Hilos \ {t} : pc'[h] = pc[h] /\ con'[h] = con[h]
          /\ pc'[t] # "conceder"
      BY <1>3, <1>0 DEF Atender, Aceptar, LeerReserve, LeerRelease, LeerFin, Entregable, redes
    <2>2. QED
      BY <2>1, <1>1
  <1>4. ASSUME NEW t \in Hilos, NEW E \in SUBSET Expirables, Expirar(t, E)
        PROVE  Dada(c)' <=> Dada(c)
    <2>1. /\ UNCHANGED <<respuestas, promovidos, con>> /\ pc[t] = "espera"
          /\ pc' = [pc EXCEPT ![t] = "desvincular"]
      BY <1>4 DEF Expirar, redes
    <2>2. \A h \in Hilos : Dara(h) <=> Da(h)
      BY <2>1, <1>0
    <2>3. QED
      BY <2>1, <2>2, <1>1
  <1>5. ASSUME NEW t \in Hilos, Responder(t) PROVE Dada(c)' <=> Dada(c)
    <2>1. PICK d \in Conexiones, j \in JobIds : d = con[t] /\ j = Pedido[d].jobId
      BY <1>5, <1>0, PedidoTipo DEF Responder, ConEnUso
    <2>2. PICK tipo \in {"GRANTED", "DENIED"} :
              /\ Enviar(d, tipo, j) /\ UNCHANGED promovidos
              /\ tipo = "GRANTED" <=> pc[t] = "conceder"
      <3>1. \/ pc[t] = "conceder" /\ Enviar(d, "GRANTED", j)
            \/ pc[t] = "denegar" /\ Enviar(d, "DENIED", j)
        BY <1>5, <2>1 DEF Responder
      <3>2. UNCHANGED promovidos
        BY <1>5 DEF Responder
      <3>3. QED
        BY <3>1, <3>2
    <2>3. /\ pc' = [pc EXCEPT ![t] = "espera"] /\ con' = [con EXCEPT ![t] = NULO]
      BY <1>5 DEF Responder, Rearmar
    <2>4. \A h \in Hilos \ {t} : Dara(h) <=> Da(h)
      BY <2>3, <1>0
    <2>5. ~ Dara(t) /\ (Da(t) <=> d = c /\ tipo = "GRANTED")
      BY <2>1, <2>2, <2>3, <1>0
    <2>6. Concedida(c)' <=> Concedida(c) \/ (d = c /\ tipo = "GRANTED")
      BY <2>1, <2>2, <1>0, ConcedidaAlEnviar
    <2>7. QED
      BY <2>2, <2>4, <2>5, <2>6 DEF Dada
  <1>6. ASSUME NEW t \in Hilos, Notificar(t) PROVE Dada(c)' <=> Dada(c)
    <2>1. PICK d \in Conexiones, j \in JobIds :
              d = Head(promovidos[t]) /\ j = Pedido[d].jobId
      <3>1. Head(promovidos[t]) \in Conexiones
        BY <1>6, <1>0, CabezaYResto DEF Notificar
      <3>2. QED
        BY <3>1, PedidoTipo
    <2>2. /\ promovidos[t] # <<>> /\ promovidos' = [promovidos EXCEPT ![t] = Tail(@)]
          /\ UNCHANGED <<pc, con>>
      BY <1>6, <2>1 DEF Notificar
    <2>3. d \in ToSet(promovidos[t]) /\ ToSet(promovidos[t]) = ToSet(Tail(promovidos[t])) \cup {d}
      BY <1>0, <2>1, <2>2, SinElPrimero
    <2>4. Promovida(c) <=> Promovida(c)' \/ d = c
      <3>1. /\ \A h \in Hilos \ {t} : promovidos'[h] = promovidos[h]
            /\ promovidos'[t] = Tail(promovidos[t])
        BY <2>2, <1>0
      <3>2. QED
        BY <2>3, <3>1 DEF Promovida
    <2>5. CASE ctx[d] = "viva"
      <3>1. Enviar(d, "GRANTED", j)
        BY <1>6, <2>1, <2>5 DEF Notificar
      <3>2. Concedida(c)' <=> Concedida(c) \/ d = c
        BY <3>1, <2>1, <1>0, ConcedidaAlEnviar
      <3>3. QED
        BY <2>2, <2>4, <3>2 DEF Dada, Promovida
    <2>6. CASE ctx[d] # "viva"
      <3>1. Promovida(d) /\ UnLugar(d)
        BY <2>3 DEF Promovida, RInv, UInv, Lugares
      <3>2. ctx[d] = "liberada"
        BY <3>1, <2>6, <1>0 DEF UnLugar, SinLeer
      <3>3. Terminada(d)
        BY <3>2, <1>0 DEF FinDeContextos
      <3>4. j # Pedido[c].jobId /\ d # c
        BY <2>1, <3>3, <1>0 DEF EnMarcha, DelTrabajo
      <3>5. UNCHANGED respuestas \/ \E e \in Conexiones : Enviar(e, "GRANTED", j)
        BY <1>6, <2>1, <2>6 DEF Notificar
      <3>6. Concedida(c)' <=> Concedida(c)
        <4>1. CASE UNCHANGED respuestas
          BY <4>1 DEF Concedida, Propias
        <4>2. ASSUME NEW e \in Conexiones, Enviar(e, "GRANTED", j)
              PROVE  Concedida(c)' <=> Concedida(c)
          BY <3>4, <4>2, <1>0, ConcedidaAlEnviar
        <4>3. QED
          BY <3>5, <4>1, <4>2
      <3>7. QED
        BY <2>2, <2>4, <3>4, <3>6 DEF Dada, Promovida
    <2>7. QED
      BY <2>5, <2>6
  <1>7. ASSUME UNCHANGED <<respuestas, promovidos, pc, con>> PROVE Dada(c)' <=> Dada(c)
    BY <1>7, <1>1
  <1>8. QED
    BY <1>2, <1>3, <1>4, <1>5, <1>6, <1>7
       DEF Next, vars, Anunciar, ParLibera, ParCae, redes

\* What a job was granted is what its entry holds: both grow together when a
\* request is recorded, and nothing else changes one of them while no connection
\* of a node with a share in the job came to its end.
LEMMA RespaldoPaso ==
    ASSUME CInv, [Next]_vars
    PROVE  ConcesionRespaldada'
  <1> SUFFICES ASSUME NEW j \in JobIds, Intacto(j)', NEW r \in TipoRecurso
               PROVE  recReservados'[j][r] = Otorgado(j, r)'
    BY DEF ConcesionRespaldada
  <1>0. /\ TypeOK /\ ConEnUso /\ FinDeContextos /\ RInv
        /\ nodoJob \in [JobIds -> Nodos \cup {NULO}]
        /\ recReservados \in [JobIds -> [TipoRecurso -> Nat]]
        /\ IsFiniteSet(Conexiones)
    BY ConjuntosAssumption DEF CInv, RInv, UInv, IInv, TypeOK
  <1>1. /\ \A c \in DelTrabajo(j) :
              /\ Pedido[c].nodo \notin Expirables
              /\ \A d \in Conexiones : Pedido[d].nodo = Pedido[c].nodo =>
                    ~ Terminada(d) /\ ~ Terminada(d)'
        /\ DelTrabajo(j)' = DelTrabajo(j) /\ DelTrabajo(j) \subseteq Conexiones
    <2>1. DelTrabajo(j)' = DelTrabajo(j) /\ DelTrabajo(j) \subseteq Conexiones
      BY DEF DelTrabajo
    <2>2. \A d \in Conexiones : ~ Terminada(d)' => ~ Terminada(d)
      BY <1>0, TerminadaSigue
    <2>3. QED
      BY <2>1, <2>2 DEF Intacto
  <1>2. Intacto(j) /\ EnMarcha(j) /\ EnMarcha(j)'
    BY <1>1 DEF Intacto, EnMarcha
  <1>3. recReservados[j][r] = Otorgado(j, r)
    BY <1>2 DEF CInv, ConcesionRespaldada
  <1> DEFINE f == [c \in Conexiones |->
                     IF c \in DelTrabajo(j) /\ Pedido[c].rec = r /\ Dada(c)
                     THEN Pedido[c].cant ELSE 0]
             g == [c \in Conexiones |->
                     IF c \in DelTrabajo(j) /\ Pedido[c].rec = r /\ Dada(c)'
                     THEN Pedido[c].cant ELSE 0]
  <1>4. Otorgado(j, r) = Suma(Conexiones, f) /\ Otorgado(j, r)' = Suma(Conexiones, g)
    BY DEF Otorgado, DelTrabajo
  <1>5. \A c \in Conexiones : f[c] \in Nat /\ g[c] \in Nat
    BY PedidoTipo
  <1>6. \A c \in Conexiones :
            /\ (c \in DelTrabajo(j) /\ Pedido[c].rec = r => (Dada(c)' <=> Dada(c)))
                  => g[c] = f[c]
            /\ c \in DelTrabajo(j) /\ Pedido[c].rec = r /\ ~ Dada(c) /\ Dada(c)'
                  => f[c] = 0 /\ g[c] = Pedido[c].cant
    OBVIOUS
  <1> HIDE DEF f, g
  <1>7. ASSUME NEW t \in Hilos, NEW d \in Conexiones, Inserta(t, d)
        PROVE  recReservados'[j][r] = Otorgado(j, r)'
    <2>1. PICK k \in JobIds, q \in TipoRecurso, n \in Nat :
              k = Pedido[d].jobId /\ q = Pedido[d].rec /\ n = Pedido[d].cant
      BY PedidoTipo
    <2>2. recReservados' = [recReservados EXCEPT ![k][q] = @ + n]
      BY <1>0, <1>7, <2>1, InsertaAnota DEF Insertar
    <2>3. /\ Dada(d)'
          /\ EnMarcha(k) => ~ Dada(d)
          /\ \A c \in Conexiones \ {d} : Dada(c)' <=> Dada(c)
      BY <1>0, <1>7, <2>1, DadaAlInsertar
    <2>4. CASE k = j /\ q = r
      <3>1. d \in DelTrabajo(j) /\ ~ Dada(d)
        BY <1>2, <2>1, <2>3, <2>4 DEF DelTrabajo
      <3>2. f[d] = 0 /\ g[d] = n
        BY <1>6, <2>1, <2>3, <2>4, <3>1
      <3>3. \A c \in Conexiones \ {d} : g[c] = f[c]
        BY <1>6, <2>3
      <3>4. Suma(Conexiones, g) + f[d] = Suma(Conexiones, f) + g[d]
        BY <1>0, <1>5, <3>3, SumaCambio
      <3>5. Suma(Conexiones, g) \in Nat /\ Suma(Conexiones, f) \in Nat
        BY <1>0, <1>5, SumaNat
      <3>6. recReservados'[j][r] = recReservados[j][r] + n
        BY <1>0, <2>2, <2>4
      <3>7. QED
        BY <1>3, <1>4, <3>2, <3>4, <3>5, <3>6
    <2>5. CASE ~ (k = j /\ q = r)
      <3>1. \A c \in Conexiones : g[c] = f[c]
        <4>1. ~ (d \in DelTrabajo(j) /\ Pedido[d].rec = r)
          BY <2>1, <2>5 DEF DelTrabajo
        <4>2. QED
          BY <4>1, <1>6, <2>3
      <3>2. Suma(Conexiones, g) = Suma(Conexiones, f)
        BY <3>1, SumaIgual
      <3>3. recReservados'[j][r] = recReservados[j][r]
        BY <1>0, <2>2, <2>5
      <3>4. QED
        BY <1>3, <1>4, <3>2, <3>3
    <2>6. QED
      BY <2>4, <2>5
  <1>8. ASSUME ~ \E t \in Hilos, d \in Conexiones : Inserta(t, d)
        PROVE  recReservados'[j][r] = Otorgado(j, r)'
    <2>1. \A c \in Conexiones : g[c] = f[c]
      <3>1. \A c \in DelTrabajo(j) : Dada(c)' <=> Dada(c)
        <4> SUFFICES ASSUME NEW c \in Conexiones, Pedido[c].jobId = j
                     PROVE  Dada(c)' <=> Dada(c)
          BY DEF DelTrabajo
        <4>1. EnMarcha(Pedido[c].jobId)'
          BY <1>2
        <4>2. QED
          BY <1>0, <1>8, <4>1, DadaResto
      <3>2. QED
        BY <3>1, <1>6
    <2>2. Suma(Conexiones, g) = Suma(Conexiones, f)
      BY <2>1, SumaIgual
    <2>3. recReservados'[j] = recReservados[j]
      <3>1. ASSUME NEW t \in Hilos, NEW d \in DelTrabajo(j), LeerRelease(t, d) PROVE FALSE
        <4>1. /\ canal[d] # <<>> /\ Head(canal[d]) # MsgReserve
              /\ canal' = [canal EXCEPT ![d] = Tail(@)] /\ UNCHANGED par
          BY <3>1 DEF LeerRelease
        <4>2. /\ canal \in [Conexiones -> Seq(Mensajes)] /\ canal[d] \in Seq(Mensajes)
              /\ d \in Conexiones
          BY <1>0, <1>1 DEF TypeOK
        <4>3. Len(canal[d]) # 0 /\ Head(canal[d]) = canal[d][1] /\ 1 \in DOMAIN canal[d]
          BY <4>1, <4>2, SinElPrimero, LenProperties, EmptySeq
        <4>4. par[d] = "cerrada" /\ Len(canal[d]) = 1
          BY <4>1, <4>2, <4>3 DEF CInv, ReleaseAlFinal
        <4>5. Len(Tail(canal[d])) = 0 /\ Tail(canal[d]) \in Seq(Mensajes)
          BY <4>1, <4>2, <4>4, HeadTailProperties
        <4>6. canal'[d] = <<>> /\ par'[d] = "cerrada"
          BY <4>1, <4>2, <4>4, <4>5, EmptySeq
        <4>7. QED
          BY <4>2, <4>6, <1>1 DEF Terminada
      <3>2. ASSUME NEW t \in Hilos, pc[t] = "desvincular", EnPurga(t) = nodoJob[j] PROVE FALSE
        <4>1. EnPurga(t) \in aPurgar[t] /\ aPurgar[t] \subseteq Nodos
          BY <1>0, <3>2 DEF CInv, PurgasConMotivo, EnPurga, TypeOK
        <4>2. nodoJob[j] # NULO
          BY <3>2, <4>1, NuloAssumption
        <4>3. PICK c \in DelTrabajo(j) : Pedido[c].nodo = nodoJob[j]
          BY <4>2 DEF CInv, EntradasConDueno
        <4>4. \/ nodoJob[j] \in Expirables
              \/ \E d \in Conexiones : Pedido[d].nodo = nodoJob[j] /\ Terminada(d)
          BY <3>2, <4>1 DEF CInv, PurgasConMotivo
        <4>5. QED
          BY <4>3, <4>4, <1>1
      <3>3. QED
        BY <1>0, <1>8, <3>1, <3>2, EntradaPaso
    <2>4. QED
      BY <1>3, <1>4, <2>2, <2>3
  <1>9. QED
    BY <1>7, <1>8

\* At the start there are no lines, no entries and no grants.
LEMMA CInvInit == Init => CInv
  <1> SUFFICES ASSUME Init PROVE CInv
    OBVIOUS
  <1>1. RInv
    BY RInvInit
  <1>2. /\ \A c \in Conexiones : DOMAIN canal[c] = {} /\ DOMAIN respuestas[c] = {}
        /\ \A t \in Hilos : ToSet(promovidos[t]) = {} /\ pc[t] = "espera" /\ aPurgar[t] = {}
        /\ \A j \in JobIds : nodoJob[j] = NULO
        /\ \A j \in JobIds, r \in TipoRecurso : recReservados[j][r] = 0
    BY DEF Init, ToSet, SinUnidades
  <1>3. ReleaseAlFinal /\ PurgasConMotivo /\ EntradasConDueno
    BY <1>2 DEF ReleaseAlFinal, PurgasConMotivo, EntradasConDueno
  <1>4. \A c \in Conexiones : ~ Dada(c)
    BY <1>2 DEF Dada, Concedida, Propias
  <1>5. ASSUME NEW j \in JobIds, NEW r \in TipoRecurso PROVE Otorgado(j, r) = 0
    <2> DEFINE f == [c \in Conexiones |->
                       IF c \in DelTrabajo(j) /\ Pedido[c].rec = r /\ Dada(c)
                       THEN Pedido[c].cant ELSE 0]
    <2>1. \A c \in Conexiones : f[c] = 0
      BY <1>4
    <2>2. Otorgado(j, r) = Suma(Conexiones, f)
      BY DEF Otorgado
    <2> HIDE DEF f
    <2>3. QED
      BY <2>1, <2>2, SumaCero
  <1>6. QED
    BY <1>1, <1>2, <1>3, <1>5 DEF CInv, ConcesionRespaldada

\* The invariant behind grants is kept.
LEMMA CInvPaso == CInv /\ [Next]_vars => CInv'
  <1> SUFFICES ASSUME CInv, [Next]_vars PROVE CInv'
    OBVIOUS
  <1>1. TypeOK /\ ConEnUso /\ FinDeContextos
    BY DEF CInv, RInv, UInv, IInv
  <1>2. RInv'
    BY RInvPaso DEF CInv
  <1>3. ReleaseAlFinal' /\ PurgasConMotivo' /\ EntradasConDueno'
    BY <1>1, ReleasePaso, MotivoPaso, DuenoPaso DEF CInv
  <1>4. ConcesionRespaldada'
    BY RespaldoPaso
  <1>5. QED
    BY <1>2, <1>3, <1>4 DEF CInv

\* Until a node with a share in a job expires or the agent comes to the end of
\* one of its connections, the entry of the job holds what its requests were
\* granted, for whatever nodes share connections and jobs and however early
\* requesters close.
THEOREM ConcesionRespaldadaSiempre == Spec => []ConcesionRespaldada
  <1>1. CInv => ConcesionRespaldada
    BY DEF CInv
  <1>2. QED
    BY CInvInit, CInvPaso, <1>1, PTL DEF Spec

=============================================================================
