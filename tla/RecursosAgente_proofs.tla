----------------------- MODULE RecursosAgente_proofs -----------------------
(***************************************************************************)
(* Theorems about RecursosAgente, for every number of threads,             *)
(* connections, nodes and jobs, and every capacity.                        *)
(***************************************************************************)
EXTENDS RecursosAgente, Conteo_proofs

-----------------------------------------------------------------------------
(* Types *)

\* Deleting the requests of a node leaves a queue of connections.
LEMMA SinNodoTipo ==
    ASSUME NEW s \in Seq(Conexiones), NEW n
    PROVE  SinNodo(s, n) \in Seq(Conexiones)
  <1> DEFINE I == {i \in DOMAIN s : Pedido[s[i]].nodo # n}
  <1>1. I \subseteq DOMAIN s
    OBVIOUS
  <1>2. EnPosiciones(s, I) \in Seq(Conexiones)
    BY <1>1, EnPosicionesSeq
  <1>3. QED
    BY <1>2 DEF SinNodo

\* What a request says, and what a thread reads from a channel.
LEMMA PedidoTipo ==
    ASSUME NEW c \in Conexiones
    PROVE  /\ Pedido[c].jobId \in JobIds
           /\ Pedido[c].nodo \in Nodos
           /\ Pedido[c].rec \in TipoRecurso
           /\ Pedido[c].cant \in Nat
  BY PedidoAssumption

\* The first element of a sequence and the rest of it.
LEMMA CabezaYResto ==
    ASSUME NEW C, NEW s \in Seq(C), s # <<>>
    PROVE  Head(s) \in C /\ Tail(s) \in Seq(C)
  OBVIOUS

\* A line is a RESERVE or a RELEASE of some resource or of none.
LEMMA MensajesTipo ==
    /\ MsgReserve \in Mensajes
    /\ \A r \in RecIndefinido \cup TipoRecurso : MsgRelease(r) \in Mensajes
  BY ConjuntosAssumption DEF Mensajes

\* A grant that fits leaves a natural number of units in the pool.
LEMMA TipoDescontar ==
    ASSUME TypeOK, NEW c \in Conexiones, Cabe(c), Descontar(c)
    PROVE  cantDisp' \in [TipoRecurso -> Nat]
  BY PedidoAssumption DEF TypeOK, Cabe, Descontar

\* tablajobs_insertar leaves a table of jobs.
LEMMA TipoInsertar ==
    ASSUME TypeOK, NEW c \in Conexiones, Insertar(c)
    PROVE  /\ nodoJob' \in [JobIds -> Nodos \cup {NULO}]
           /\ recReservados' \in [JobIds -> [TipoRecurso -> Nat]]
  BY PedidoAssumption DEF TypeOK, Insertar

\* send adds an answer to those of its connection.
LEMMA TipoEnviar ==
    ASSUME TypeOK, NEW c \in Conexiones, NEW tipo \in {"GRANTED", "DENIED"},
           NEW j \in JobIds, Enviar(c, tipo, j)
    PROVE  respuestas' \in
             [Conexiones -> Seq([tipo : {"GRANTED", "DENIED"}, jobId : JobIds])]
  <1> DEFINE R == [tipo : {"GRANTED", "DENIED"}, jobId : JobIds]
  <1>1. Respuesta(tipo, j) \in R
    BY DEF Respuesta
  <1> HIDE DEF R
  <1>2. respuestas \in [Conexiones -> Seq(R)]
    BY DEF TypeOK, R
  <1>3. Append(respuestas[c], Respuesta(tipo, j)) \in Seq(R)
    BY <1>1, <1>2
  <1>4. respuestas' \in [Conexiones -> Seq(R)]
    BY <1>2, <1>3 DEF Enviar
  <1>5. QED
    BY <1>4 DEF R

Tipos == TypeOK /\ ConEnUso

\* The types hold at start, where nobody holds or waits for anything.
LEMMA TiposInit == Init => Tipos
  <1> SUFFICES ASSUME Init PROVE Tipos
    OBVIOUS
  <1>1. ConEnUso
    BY DEF Init, ConEnUso
  <1>2. /\ cantDisp \in [TipoRecurso -> Nat]
        /\ mutex \in [TipoRecurso -> Hilos \cup {NULO}]
        /\ cola \in [TipoRecurso -> Seq(Conexiones)]
        /\ nodoJob \in [JobIds -> Nodos \cup {NULO}]
        /\ recReservados \in [JobIds -> [TipoRecurso -> Nat]]
        /\ conocidos \in SUBSET Nodos
    BY CapacidadAssumption DEF Init, SinUnidades
  <1>3. /\ ctx \in [Conexiones -> {"sin_crear", "viva", "liberada"}]
        /\ par \in [Conexiones -> {"abierta", "cerrada"}]
    BY DEF Init
  <1>4. /\ canal \in [Conexiones -> Seq(Mensajes)]
        /\ respuestas \in
             [Conexiones -> Seq([tipo : {"GRANTED", "DENIED"}, jobId : JobIds])]
    BY DEF Init
  <1>5. /\ pc \in [Hilos -> Etapas]
        /\ con \in [Hilos -> Conexiones \cup {NULO}]
        /\ rec \in [Hilos -> TipoRecurso]
        /\ monto \in [Hilos -> Nat]
        /\ promovidos \in [Hilos -> Seq(Conexiones)]
    BY DEF Init, Etapas, TipoRecurso
  <1>6. /\ aPurgar \in [Hilos -> SUBSET Nodos]
        /\ lista \in [Hilos -> SUBSET JobIds]
        /\ borrados \in [Hilos -> [JobIds -> [TipoRecurso -> Nat]]]
    BY DEF Init, SinUnidades
  <1>7. QED
    BY <1>1, <1>2, <1>3, <1>4, <1>5, <1>6 DEF Tipos, TypeOK

\* No step breaks the types: one step of the proof for each action.
LEMMA TiposPaso == Tipos /\ [Next]_vars => Tipos'
  <1> SUFFICES ASSUME Tipos, [Next]_vars PROVE Tipos'
    OBVIOUS
  <1> USE NuloAssumption DEF Tipos, ConEnUso, redes, tabla, purga
  <1>1. ASSUME NEW t \in Hilos, NEW c \in Conexiones, Aceptar(t, c) PROVE Tipos'
    <2>1. canal' \in [Conexiones -> Seq(Mensajes)]
      <3>1. <<>> \in Seq(Mensajes) /\ <<MsgReserve>> \in Seq(Mensajes)
        BY MensajesTipo
      <3>2. QED
        <4>1. PICK s \in Seq(Mensajes) : canal' = [canal EXCEPT ![c] = s]
          BY <1>1, <3>1 DEF Aceptar
        <4>2. QED
          BY <4>1 DEF TypeOK
    <2>2. QED
      BY <1>1, <2>1 DEF TypeOK, Aceptar
  <1>2. ASSUME NEW c \in Conexiones, ParLibera(c) PROVE Tipos'
    <2>1. canal' \in [Conexiones -> Seq(Mensajes)]
      <3>1. PICK m \in Mensajes : canal' = [canal EXCEPT ![c] = Append(@, m)]
        BY <1>2, PedidoTipo, MensajesTipo DEF ParLibera
      <3>2. Append(canal[c], m) \in Seq(Mensajes)
        BY DEF TypeOK
      <3>3. QED
        BY <3>1, <3>2 DEF TypeOK
    <2>2. QED
      BY <1>2, <2>1 DEF TypeOK, ParLibera
  <1>3. ASSUME NEW c \in Conexiones, ParCae(c) PROVE Tipos'
    <2>1. canal' \in [Conexiones -> Seq(Mensajes)]
      <3>1. {canal[c], <<>>} \subseteq Seq(Mensajes)
        BY DEF TypeOK
      <3>2. PICK s \in Seq(Mensajes) : canal' = [canal EXCEPT ![c] = s]
        BY <1>3, <3>1 DEF ParCae
      <3>3. QED
        BY <3>2 DEF TypeOK
    <2>2. QED
      BY <1>3, <2>1 DEF TypeOK, ParCae
  <1>4. ASSUME NEW t \in Hilos, NEW n \in Nodos, Anunciar(t, n) PROVE Tipos'
    BY <1>4 DEF TypeOK, Anunciar
  <1>5. ASSUME NEW t \in Hilos, NEW c \in Conexiones, LeerReserve(t, c) PROVE Tipos'
    <2>1. canal' \in [Conexiones -> Seq(Mensajes)]
      <3>1. Tail(canal[c]) \in Seq(Mensajes)
        BY <1>5, CabezaYResto DEF TypeOK, LeerReserve
      <3>2. QED
        BY <1>5, <3>1 DEF TypeOK, LeerReserve
    <2>2. \/ UNCHANGED <<pc, con>>
          \/ pc' = [pc EXCEPT ![t] = "reservar"] /\ con' = [con EXCEPT ![t] = c]
      BY <1>5 DEF LeerReserve
    <2>3. /\ pc' \in [Hilos -> Etapas]
          /\ con' \in [Hilos -> Conexiones \cup {NULO}]
          /\ ConEnUso'
      <3>1. CASE UNCHANGED <<pc, con>>
        BY <3>1 DEF TypeOK
      <3>2. CASE pc' = [pc EXCEPT ![t] = "reservar"] /\ con' = [con EXCEPT ![t] = c]
        BY <3>2 DEF TypeOK, Etapas
      <3>3. QED
        BY <2>2, <3>1, <3>2
    <2>4. QED
      BY <1>5, <2>1, <2>3 DEF TypeOK, LeerReserve
  <1>6. ASSUME NEW t \in Hilos, Conceder(t) PROVE Tipos'
    <2>1. con[t] \in Conexiones
      BY <1>6 DEF Conceder, EntraAReservar
    <2>2. cantDisp' \in [TipoRecurso -> Nat]
      BY <1>6, <2>1, TipoDescontar DEF Conceder
    <2>3. /\ nodoJob' \in [JobIds -> Nodos \cup {NULO}]
          /\ recReservados' \in [JobIds -> [TipoRecurso -> Nat]]
      BY <1>6, <2>1, TipoInsertar DEF Conceder
    <2>4. QED
      BY <1>6, <2>1, <2>2, <2>3 DEF TypeOK, Conceder, Etapas
  <1>7. ASSUME NEW t \in Hilos, Encolar(t) PROVE Tipos'
    <2>1. con[t] \in Conexiones
      BY <1>7 DEF Encolar, EntraAReservar
    <2>2. cola' \in [TipoRecurso -> Seq(Conexiones)]
      <3> DEFINE r == Pedido[con[t]].rec
      <3>1. r \in TipoRecurso
        BY <2>1, PedidoTipo
      <3>2. Append(cola[r], con[t]) \in Seq(Conexiones)
        BY <2>1, <3>1 DEF TypeOK
      <3>3. QED
        BY <1>7, <3>1, <3>2 DEF TypeOK, Encolar
    <2>3. QED
      BY <1>7, <2>2 DEF TypeOK, Encolar, Rearmar, Etapas
  <1>8. ASSUME NEW t \in Hilos, Denegar(t) PROVE Tipos'
    BY <1>8 DEF TypeOK, Denegar, EntraAReservar, Etapas
  <1>9. ASSUME NEW t \in Hilos, Responder(t) PROVE Tipos'
    <2>1. con[t] \in Conexiones /\ Pedido[con[t]].jobId \in JobIds
      <3>1. con[t] \in Conexiones
        BY <1>9 DEF Responder
      <3>2. QED
        BY <3>1, PedidoTipo
    <2>2. respuestas' \in
             [Conexiones -> Seq([tipo : {"GRANTED", "DENIED"}, jobId : JobIds])]
      BY <1>9, <2>1, TipoEnviar DEF Responder
    <2>3. QED
      BY <1>9, <2>2 DEF TypeOK, Responder, Rearmar, Etapas
  <1>10. ASSUME NEW t \in Hilos, NEW c \in Conexiones, LeerRelease(t, c) PROVE Tipos'
    <2> DEFINE r == Head(canal[c]).rec
               j == Pedido[c].jobId
    <2>1. j \in JobIds
      BY PedidoTipo
    <2>2. canal' \in [Conexiones -> Seq(Mensajes)]
      <3>1. Tail(canal[c]) \in Seq(Mensajes)
        BY <1>10, CabezaYResto DEF TypeOK, LeerRelease
      <3>2. QED
        BY <1>10, <3>1 DEF TypeOK, LeerRelease
    <2>3. CASE r \in TipoRecurso
      <3>1. /\ recReservados' = [recReservados EXCEPT ![j] = QuitarRec(j, r)]
            /\ nodoJob' = [nodoJob EXCEPT ![j] = NULO] \/ UNCHANGED nodoJob
            /\ \/ UNCHANGED <<monto, rec, pc, con>>
               \/ /\ monto' = [monto EXCEPT ![t] = recReservados[j][r]]
                  /\ rec' = [rec EXCEPT ![t] = r]
                  /\ pc' = [pc EXCEPT ![t] = "devolver"]
                  /\ con' = [con EXCEPT ![t] = c]
        <4>1. nodoJob' = [nodoJob EXCEPT ![j] = NULO] \/ UNCHANGED nodoJob
          BY <1>10, <2>3 DEF LeerRelease, TypeOK
        <4>2. QED
          BY <1>10, <2>3, <4>1 DEF LeerRelease
      <3> HIDE DEF r, j
      <3>2. recReservados' \in [JobIds -> [TipoRecurso -> Nat]]
        BY <2>1, <2>3, <3>1 DEF TypeOK, QuitarRec
      <3>3. nodoJob' \in [JobIds -> Nodos \cup {NULO}]
        BY <3>1 DEF TypeOK
      <3>4. /\ rec' \in [Hilos -> TipoRecurso]
            /\ monto' \in [Hilos -> Nat]
            /\ pc' \in [Hilos -> Etapas]
            /\ con' \in [Hilos -> Conexiones \cup {NULO}]
            /\ ConEnUso'
        <4>1. CASE UNCHANGED <<monto, rec, pc, con>>
          BY <4>1 DEF TypeOK
        <4>2. CASE /\ monto' = [monto EXCEPT ![t] = recReservados[j][r]]
                   /\ rec' = [rec EXCEPT ![t] = r]
                   /\ pc' = [pc EXCEPT ![t] = "devolver"]
                   /\ con' = [con EXCEPT ![t] = c]
          <5>1. recReservados[j][r] \in Nat
            BY <2>1, <2>3 DEF TypeOK
          <5>2. QED
            BY <2>3, <4>2, <5>1 DEF TypeOK, Etapas
        <4>3. QED
          BY <3>1, <4>1, <4>2
      <3>5. QED
        BY <1>10, <2>2, <3>2, <3>3, <3>4 DEF TypeOK, LeerRelease
    <2>4. CASE r \notin TipoRecurso
      <3>1. nodoJob' = [nodoJob EXCEPT ![j] = NULO] \/ UNCHANGED nodoJob
        BY <1>10, <2>4 DEF LeerRelease, TypeOK
      <3>2. nodoJob' \in [JobIds -> Nodos \cup {NULO}]
        BY <3>1 DEF TypeOK
      <3>3. QED
        BY <1>10, <2>2, <2>4, <3>2 DEF TypeOK, LeerRelease
    <2>5. QED
      BY <2>3, <2>4
  <1>11. ASSUME NEW t \in Hilos, Devolver(t) PROVE Tipos'
    <2>1. cantDisp' \in [TipoRecurso -> Nat] /\ monto' \in [Hilos -> Nat]
      BY <1>11 DEF TypeOK, Devolver
    <2>2. mutex' \in [TipoRecurso -> Hilos \cup {NULO}] /\ pc' \in [Hilos -> Etapas]
      BY <1>11 DEF TypeOK, Devolver, Etapas
    <2>3. QED
      BY <1>11, <2>1, <2>2 DEF TypeOK, Devolver
  <1>12. ASSUME NEW t \in Hilos, Promover(t) PROVE Tipos'
    <2> DEFINE c == Head(cola[rec[t]])
    <2>1. cola[rec[t]] # <<>> /\ Cabe(c) /\ c \in Conexiones
      BY <1>12 DEF TypeOK, Promover, ColaAgotada
    <2>2. cantDisp' \in [TipoRecurso -> Nat]
      BY <1>12, <2>1, TipoDescontar DEF Promover
    <2>3. /\ nodoJob' \in [JobIds -> Nodos \cup {NULO}]
          /\ recReservados' \in [JobIds -> [TipoRecurso -> Nat]]
      BY <1>12, <2>1, TipoInsertar DEF Promover
    <2>4. cola' \in [TipoRecurso -> Seq(Conexiones)]
      BY <1>12, <2>1 DEF TypeOK, Promover, Desencolar
    <2>5. promovidos' \in [Hilos -> Seq(Conexiones)]
      BY <1>12, <2>1 DEF TypeOK, Promover
    <2>6. QED
      BY <1>12, <2>2, <2>3, <2>4, <2>5 DEF TypeOK, Promover
  <1>13. ASSUME NEW t \in Hilos, FinPromover(t) PROVE Tipos'
    BY <1>13 DEF TypeOK, FinPromover, Desbloquear, Etapas
  <1>14. ASSUME NEW t \in Hilos, Notificar(t) PROVE Tipos'
    <2> DEFINE c == Head(promovidos[t])
    <2>1. c \in Conexiones /\ Pedido[c].jobId \in JobIds
      <3>1. c \in Conexiones
        BY <1>14, CabezaYResto DEF TypeOK, Notificar
      <3>2. QED
        BY <3>1, PedidoTipo
    <2>2. respuestas' \in
             [Conexiones -> Seq([tipo : {"GRANTED", "DENIED"}, jobId : JobIds])]
      <3>1. CASE UNCHANGED respuestas
        BY <3>1 DEF TypeOK
      <3>2. CASE \E d \in Conexiones : Enviar(d, "GRANTED", Pedido[c].jobId)
        BY <3>2, <2>1, TipoEnviar
      <3>3. QED
        BY <1>14, <2>1, <3>1, <3>2 DEF Notificar
    <2>3. promovidos' \in [Hilos -> Seq(Conexiones)]
      BY <1>14 DEF TypeOK, Notificar
    <2>4. QED
      BY <1>14, <2>2, <2>3 DEF TypeOK, Notificar
  <1>15. ASSUME NEW t \in Hilos, FinNotificar(t) PROVE Tipos'
    BY <1>15 DEF TypeOK, FinNotificar, Rearmar, Etapas
  <1>16. ASSUME NEW t \in Hilos, NEW c \in Conexiones, LeerFin(t, c) PROVE Tipos'
    <2>1. /\ pc' \in [Hilos -> Etapas]
          /\ con' \in [Hilos -> Conexiones \cup {NULO}]
          /\ ConEnUso'
      BY <1>16 DEF TypeOK, LeerFin, Etapas
    <2>2. aPurgar' \in [Hilos -> SUBSET Nodos]
      <3>1. Pedido[c].nodo \in Nodos
        BY PedidoTipo
      <3>2. aPurgar' = [aPurgar EXCEPT ![t] = {Pedido[c].nodo}] \/ UNCHANGED aPurgar
        BY <1>16 DEF LeerFin
      <3>3. CASE UNCHANGED aPurgar
        BY <3>3 DEF TypeOK
      <3>4. CASE aPurgar' = [aPurgar EXCEPT ![t] = {Pedido[c].nodo}]
        <4>1. {Pedido[c].nodo} \in SUBSET Nodos
          BY <3>1
        <4>2. QED
          BY <3>4, <4>1 DEF TypeOK
      <3>5. QED
        BY <3>2, <3>3, <3>4
    <2>3. QED
      BY <1>16, <2>1, <2>2 DEF TypeOK, LeerFin
  <1>17. ASSUME NEW t \in Hilos, NEW E \in SUBSET Expirables, Expirar(t, E) PROVE Tipos'
    BY <1>17 DEF TypeOK, Expirar, Etapas
  <1>18. ASSUME NEW t \in Hilos, Desvincular(t) PROVE Tipos'
    <2>1. DelNodo(EnPurga(t)) \subseteq JobIds
      BY DEF DelNodo
    <2>2. nodoJob' \in [JobIds -> Nodos \cup {NULO}]
      BY <1>18 DEF TypeOK, Desvincular
    <2>3. recReservados' \in [JobIds -> [TipoRecurso -> Nat]]
      BY <1>18 DEF TypeOK, Desvincular, SinUnidades
    <2>4. lista' \in [Hilos -> SUBSET JobIds]
      BY <1>18, <2>1 DEF TypeOK, Desvincular
    <2>5. borrados' \in [Hilos -> [JobIds -> [TipoRecurso -> Nat]]]
      BY <1>18 DEF TypeOK, Desvincular, SinUnidades
    <2>6. /\ rec' \in [Hilos -> TipoRecurso]
          /\ pc' \in [Hilos -> Etapas]
          /\ ConEnUso'
      BY <1>18 DEF TypeOK, Desvincular, Etapas, TipoRecurso
    <2>7. QED
      BY <1>18, <2>2, <2>3, <2>4, <2>5, <2>6 DEF TypeOK, Desvincular
  <1>19. ASSUME NEW t \in Hilos, Limpiar(t) PROVE Tipos'
    <2>1. cola' \in [TipoRecurso -> Seq(Conexiones)]
      BY <1>19, SinNodoTipo DEF TypeOK, Limpiar
    <2>2. /\ rec' \in [Hilos -> TipoRecurso]
          /\ pc' \in [Hilos -> Etapas]
          /\ ConEnUso'
      BY ZenonT(40), <1>19 DEF TypeOK, Limpiar, Siguiente, TipoRecurso, Etapas
    <2>3. QED
      BY <1>19, <2>1, <2>2 DEF TypeOK, Limpiar
  <1>20. ASSUME NEW t \in Hilos, Reponer(t) PROVE Tipos'
    <2>1. EnReposicion(t) \in JobIds
      BY <1>20 DEF TypeOK, Reponer, EnReposicion
    <2>2. cantDisp' \in [TipoRecurso -> Nat]
      BY <1>20, <2>1 DEF TypeOK, Reponer
    <2>3. borrados' \in [Hilos -> [JobIds -> [TipoRecurso -> Nat]]]
      BY <1>20, <2>1 DEF TypeOK, Reponer
    <2>4. rec' \in [Hilos -> TipoRecurso]
      BY <1>20 DEF TypeOK, Reponer, Siguiente, TipoRecurso
    <2>5. lista' \in [Hilos -> SUBSET JobIds]
      <3>1. \/ UNCHANGED lista
            \/ lista' = [lista EXCEPT ![t] = @ \ {EnReposicion(t)}]
        BY <1>20 DEF Reponer
      <3>2. lista[t] \ {EnReposicion(t)} \in SUBSET JobIds
        BY DEF TypeOK
      <3>3. CASE UNCHANGED lista
        BY <3>3 DEF TypeOK
      <3>4. CASE lista' = [lista EXCEPT ![t] = @ \ {EnReposicion(t)}]
        BY <3>2, <3>4 DEF TypeOK
      <3>5. QED
        BY <3>1, <3>3, <3>4
    <2>6. QED
      BY <1>20, <2>2, <2>3, <2>4, <2>5 DEF TypeOK, Reponer
  <1>21. ASSUME NEW t \in Hilos, FinPurga(t) PROVE Tipos'
    BY <1>21 DEF TypeOK, FinPurga, Etapas
  <1>22. ASSUME NEW t \in Hilos, Cerrar(t) PROVE Tipos'
    BY <1>22 DEF TypeOK, Cerrar, Etapas
  <1>23. CASE UNCHANGED vars
    BY <1>23 DEF TypeOK, vars
  <1>24. QED
    BY <1>1, <1>2, <1>3, <1>4, <1>5, <1>6, <1>7, <1>8, <1>9, <1>10, <1>11, <1>12,
       <1>13, <1>14, <1>15, <1>16, <1>17, <1>18, <1>19, <1>20, <1>21, <1>22, <1>23
       DEF Next, Avanzar, Atender

\* Every variable keeps its type in every state of every execution.
THEOREM TiposCorrectos == Spec => []TypeOK
  <1>1. Tipos /\ [Next]_vars => Tipos'
    BY TiposPaso
  <1>2. Tipos => TypeOK
    BY DEF Tipos
  <1>3. QED
    BY TiposInit, <1>1, <1>2, PTL DEF Spec

-----------------------------------------------------------------------------
(* The queues *)

\* Every queue holds requests for its own resource.
LEMMA ColaPropiaInit == Init => ColaPropia
  BY DEF Init, ColaPropia

\* No step puts a request in the queue of another resource.
LEMMA ColaPropiaPaso ==
    ASSUME Tipos, ColaPropia, [Next]_vars
    PROVE  ColaPropia'
  <1> SUFFICES ASSUME NEW r \in TipoRecurso PROVE cola'[r] \in Seq(DelRecurso(r))
    BY DEF ColaPropia
  <1>1. cola[r] \in Seq(DelRecurso(r)) /\ cola \in [TipoRecurso -> Seq(Conexiones)]
    BY DEF ColaPropia, Tipos, TypeOK
  <1>2. UNCHANGED cola => cola'[r] \in Seq(DelRecurso(r))
    BY <1>1
  <1>3. ASSUME NEW t \in Hilos, Encolar(t) PROVE cola'[r] \in Seq(DelRecurso(r))
    <2> DEFINE c == con[t]
    <2>1. c \in Conexiones /\ cola' = [cola EXCEPT ![Pedido[c].rec] = Append(@, c)]
      BY <1>3 DEF Encolar, EntraAReservar, Tipos, ConEnUso
    <2> HIDE DEF c
    <2>2. CASE Pedido[c].rec = r
      <3>1. c \in DelRecurso(r)
        BY <2>1, <2>2 DEF DelRecurso
      <3>2. Append(cola[r], c) \in Seq(DelRecurso(r))
        BY <1>1, <3>1
      <3>3. QED
        BY <1>1, <2>1, <2>2, <3>2
    <2>3. CASE Pedido[c].rec # r
      BY <1>1, <2>1, <2>3
    <2>4. QED
      BY <2>2, <2>3
  <1>4. ASSUME NEW t \in Hilos, Promover(t) PROVE cola'[r] \in Seq(DelRecurso(r))
    <2>1. cola' = [cola EXCEPT ![rec[t]] = Tail(@)] /\ cola[rec[t]] # <<>>
      BY <1>4 DEF Promover, Desencolar, ColaAgotada
    <2>2. rec[t] = r => Tail(cola[r]) \in Seq(DelRecurso(r))
      BY <1>1, <2>1, CabezaYResto
    <2>3. QED
      BY <1>1, <2>1, <2>2
  <1>5. ASSUME NEW t \in Hilos, Limpiar(t) PROVE cola'[r] \in Seq(DelRecurso(r))
    <2> DEFINE I == {i \in DOMAIN cola[r] : Pedido[cola[r][i]].nodo # EnPurga(t)}
    <2>1. cola'[r] = cola[r] \/ cola'[r] = EnPosiciones(cola[r], I)
      BY <1>1, <1>5 DEF Limpiar, SinNodo
    <2>2. I \in SUBSET DOMAIN cola[r]
      OBVIOUS
    <2> HIDE DEF I
    <2>3. EnPosiciones(cola[r], I) \in Seq(DelRecurso(r))
      BY <1>1, <2>2, EnPosicionesSeq
    <2>4. QED
      BY <1>1, <2>1, <2>3
  <1>6. QED
    BY ZenonT(40), <1>2, <1>3, <1>4, <1>5
       DEF Next, Avanzar, Atender, vars, Aceptar, ParLibera, ParCae, Anunciar,
           LeerReserve, Conceder, Denegar, Responder, LeerRelease, Devolver,
           FinPromover, Notificar, FinNotificar, LeerFin, Expirar, Desvincular,
           Reponer, FinPurga, Cerrar

-----------------------------------------------------------------------------
(* Where the units in transit are *)

\* No step breaks the order in which a RELEASE and a purge hold units: only the
\* acting thread's own units, entries and place change.
LEMMA OrdenPaso == Tipos /\ PurgaOrdenada /\ [Next]_vars => PurgaOrdenada'
  <1> SUFFICES ASSUME Tipos, PurgaOrdenada, [Next]_vars PROVE PurgaOrdenada'
    OBVIOUS
  <1> DEFINE Marco == UNCHANGED <<monto, rec, lista, borrados>>
  <1>0. /\ pc \in [Hilos -> Etapas]
        /\ rec \in [Hilos -> TipoRecurso]
        /\ monto \in [Hilos -> Nat]
        /\ lista \in [Hilos -> SUBSET JobIds]
        /\ borrados \in [Hilos -> [JobIds -> [TipoRecurso -> Nat]]]
    BY DEF Tipos, TypeOK
  <1>1. ASSUME Marco, NEW t \in Hilos, NEW e,
               pc[t] \notin {"limpiar", "reponer", "devolver"},
               e # "reponer", pc' = [pc EXCEPT ![t] = e]
        PROVE  PurgaOrdenada'
    BY <1>0, <1>1 DEF PurgaOrdenada, EnReposicion
  <1>2. ASSUME Marco, UNCHANGED pc PROVE PurgaOrdenada'
    BY <1>0, <1>2 DEF PurgaOrdenada, EnReposicion
  <1>3. ASSUME NEW t \in Hilos, NEW c \in Conexiones, Atender(t, c) PROVE PurgaOrdenada'
    <2>1. CASE Aceptar(t, c)
      BY <2>1, <1>2 DEF Aceptar, purga
    <2>2. CASE LeerReserve(t, c)
      <3>1. Marco /\ pc[t] = "espera"
        BY <2>2 DEF LeerReserve, Entregable, purga
      <3>2. pc' = [pc EXCEPT ![t] = "reservar"] \/ UNCHANGED pc
        BY <2>2 DEF LeerReserve
      <3>3. QED
        BY <3>1, <3>2, <1>1, <1>2
    <2>3. CASE LeerRelease(t, c)
      <3>1. pc[t] = "espera" /\ UNCHANGED <<lista, borrados>>
        BY <2>3 DEF LeerRelease, Entregable, purga
      <3>2. CASE UNCHANGED <<monto, rec, pc, con>>
        BY <3>1, <3>2, <1>2
      <3>3. CASE \E r, n : /\ monto' = [monto EXCEPT ![t] = n]
                           /\ rec' = [rec EXCEPT ![t] = r]
                           /\ pc' = [pc EXCEPT ![t] = "devolver"]
        BY <3>1, <3>3, <1>0 DEF PurgaOrdenada, EnReposicion
      <3>4. QED
        BY <2>3, <3>2, <3>3 DEF LeerRelease
    <2>4. CASE LeerFin(t, c)
      <3>1. Marco /\ pc[t] = "espera"
        BY <2>4 DEF LeerFin, Entregable
      <3>2. pc' = [pc EXCEPT ![t] = "desvincular"] \/ pc' = [pc EXCEPT ![t] = "cerrar"]
        BY <2>4 DEF LeerFin
      <3>3. QED
        BY <3>1, <3>2, <1>1
    <2>5. QED
      BY <1>3, <2>1, <2>2, <2>3, <2>4 DEF Atender
  <1>4. ASSUME NEW t \in Hilos,
               Conceder(t) \/ Encolar(t) \/ Denegar(t) \/ Responder(t) \/ Promover(t)
               \/ FinPromover(t) \/ Notificar(t) \/ FinNotificar(t) \/ Cerrar(t)
        PROVE  PurgaOrdenada'
    <2>1. CASE Conceder(t)
      BY <2>1, <1>1 DEF Conceder, EntraAReservar, purga
    <2>2. CASE Encolar(t)
      BY <2>2, <1>1 DEF Encolar, EntraAReservar, purga
    <2>3. CASE Denegar(t)
      BY <2>3, <1>1 DEF Denegar, EntraAReservar, purga
    <2>4. CASE Responder(t)
      BY <2>4, <1>1 DEF Responder, purga
    <2>5. CASE Promover(t)
      BY <2>5, <1>2 DEF Promover, purga
    <2>6. CASE FinPromover(t)
      BY <2>6, <1>1 DEF FinPromover, purga
    <2>7. CASE Notificar(t)
      BY <2>7, <1>2 DEF Notificar, purga
    <2>8. CASE FinNotificar(t)
      BY <2>8, <1>1 DEF FinNotificar, purga
    <2>9. CASE Cerrar(t)
      BY <2>9, <1>1 DEF Cerrar, purga
    <2>10. QED
      BY <1>4, <2>1, <2>2, <2>3, <2>4, <2>5, <2>6, <2>7, <2>8, <2>9
  <1>5. ASSUME NEW t \in Hilos, Devolver(t) PROVE PurgaOrdenada'
    BY <1>0, <1>5 DEF Devolver, purga, PurgaOrdenada, EnReposicion
  <1>6. ASSUME NEW t \in Hilos, Desvincular(t) PROVE PurgaOrdenada'
    <2> DEFINE suyos == DelNodo(EnPurga(t))
    <2>1. /\ pc[t] = "desvincular"
          /\ UNCHANGED monto
          /\ rec' = [rec EXCEPT ![t] = "cpu"]
          /\ pc' = [pc EXCEPT ![t] = "limpiar"]
          /\ lista' = [lista EXCEPT ![t] = suyos]
          /\ borrados' = [borrados EXCEPT ![t] =
               [j \in JobIds |-> IF j \in suyos THEN recReservados[j] ELSE SinUnidades]]
      BY <1>6 DEF Desvincular
    <2> HIDE DEF suyos
    <2>2. QED
      BY <1>0, <2>1 DEF PurgaOrdenada, EnReposicion
  <1>7. ASSUME NEW t \in Hilos, Limpiar(t) PROVE PurgaOrdenada'
    <2>1. /\ pc[t] = "limpiar"
          /\ UNCHANGED <<monto, lista, borrados>>
          /\ \/ /\ pc' = [pc EXCEPT ![t] = "reponer"]
                /\ rec' = [rec EXCEPT ![t] = "cpu"]
             \/ /\ rec' = [rec EXCEPT ![t] = Siguiente(@)]
                /\ UNCHANGED pc
      BY <1>7 DEF Limpiar, purga
    <2>2. QED
      BY <1>0, <2>1 DEF PurgaOrdenada, EnReposicion
  <1>8. ASSUME NEW t \in Hilos, Reponer(t) PROVE PurgaOrdenada'
    <2> DEFINE j == EnReposicion(t)
    <2>1. j \in lista[t] /\ j \in JobIds
      BY <1>0, <1>8 DEF Reponer, EnReposicion
    <2>2. /\ pc[t] = "reponer"
          /\ UNCHANGED <<monto, pc>>
          /\ borrados' = [borrados EXCEPT ![t][j][rec[t]] = 0]
          /\ \/ /\ rec[t] = "gpu"
                /\ lista' = [lista EXCEPT ![t] = @ \ {j}]
                /\ rec' = [rec EXCEPT ![t] = "cpu"]
             \/ /\ rec[t] # "gpu"
                /\ rec' = [rec EXCEPT ![t] = Siguiente(@)]
                /\ UNCHANGED lista
      BY <1>8 DEF Reponer
    <2> HIDE DEF j
    <2>3. ASSUME NEW h \in Hilos, h # t
          PROVE  /\ rec'[h] = rec[h] /\ lista'[h] = lista[h]
                 /\ borrados'[h] = borrados[h]
      BY <1>0, <2>2, <2>3
    <2>4. CASE rec[t] = "gpu"
      <3>1. \A x \in JobIds \ lista'[t] : borrados'[t][x] = SinUnidades
        <4>1. borrados'[t] = [borrados[t] EXCEPT ![j]["gpu"] = 0]
          BY <1>0, <2>2, <2>4
        <4>2. ASSUME NEW x \in JobIds, x \notin lista[t] PROVE borrados'[t][x] = SinUnidades
          BY <1>0, <2>1, <4>1, <4>2 DEF PurgaOrdenada
        <4>3. borrados[t][j]["cpu"] = 0 /\ borrados[t][j]["mem"] = 0
          BY <2>1, <2>2, <2>4 DEF PurgaOrdenada, j
        <4>4. borrados'[t][j] = [borrados[t][j] EXCEPT !["gpu"] = 0]
          BY <1>0, <2>1, <4>1
        <4>5. borrados'[t][j] = SinUnidades
          BY <1>0, <2>1, <4>3, <4>4 DEF SinUnidades, TipoRecurso
        <4>6. lista'[t] = lista[t] \ {j}
          BY <1>0, <2>2, <2>4
        <4>7. QED
          BY <4>2, <4>5, <4>6
      <3>2. QED
        BY <1>0, <2>2, <2>3, <2>4, <3>1 DEF PurgaOrdenada, EnReposicion
    <2>5. CASE rec[t] # "gpu"
      <3>1. /\ rec[t] = "cpu" => rec'[t] = "mem"
            /\ rec[t] = "mem" => rec'[t] = "gpu"
            /\ rec[t] = "cpu" \/ rec[t] = "mem"
            /\ lista'[t] = lista[t]
        BY <1>0, <2>2, <2>5 DEF Siguiente, TipoRecurso
      <3>2. \A x \in JobIds \ lista'[t] : borrados'[t][x] = SinUnidades
        BY <1>0, <2>1, <2>2, <3>1 DEF PurgaOrdenada
      <3>3. /\ rec'[t] # "cpu" => borrados'[t][j]["cpu"] = 0
            /\ rec'[t] = "gpu" => borrados'[t][j]["mem"] = 0
        BY <1>0, <2>1, <2>2, <3>1 DEF PurgaOrdenada, j, TipoRecurso
      <3>4. EnReposicion(t)' = j
        BY <3>1 DEF EnReposicion, j
      <3>5. QED
        BY <1>0, <2>2, <2>3, <3>1, <3>2, <3>3, <3>4 DEF PurgaOrdenada, EnReposicion
    <2>6. QED
      BY <2>4, <2>5
  <1>9. ASSUME NEW t \in Hilos, FinPurga(t) PROVE PurgaOrdenada'
    <2>1. /\ pc[t] = "reponer" /\ lista[t] = {} /\ Marco
          /\ \E e \in {"desvincular", "cerrar", "espera"} : pc' = [pc EXCEPT ![t] = e]
      BY <1>9 DEF FinPurga
    <2>2. QED
      BY <1>0, <2>1 DEF PurgaOrdenada, EnReposicion
  <1>10. ASSUME NEW t \in Hilos, NEW E \in SUBSET Expirables, Expirar(t, E) PROVE PurgaOrdenada'
    BY <1>10, <1>1 DEF Expirar
  <1>11. ASSUME NEW t \in Hilos, NEW n \in Nodos, Anunciar(t, n) PROVE PurgaOrdenada'
    BY <1>11, <1>2 DEF Anunciar, purga
  <1>12. ASSUME NEW c \in Conexiones, ParLibera(c) \/ ParCae(c) PROVE PurgaOrdenada'
    BY <1>12, <1>2 DEF ParLibera, ParCae, purga
  <1>13. CASE UNCHANGED vars
    BY <1>13, <1>2 DEF vars
  <1>14. QED
    BY <1>3, <1>4, <1>5, <1>6, <1>7, <1>8, <1>9, <1>10, <1>11, <1>12, <1>13
       DEF Next, Avanzar

-----------------------------------------------------------------------------
(* The units of a resource *)

\* The sums are natural numbers.
LEMMA SumasNat ==
    ASSUME Tipos, NEW r \in TipoRecurso
    PROVE  /\ cantDisp[r] \in Nat
           /\ EnTabla(r) \in Nat
           /\ EnDevolucion(r) \in Nat
           /\ \A t \in Hilos : DeHilo(t, r) \in Nat
           /\ EnPurgas(r) \in Nat
  <1> USE ConjuntosAssumption
  <1>1. cantDisp[r] \in Nat
    BY DEF Tipos, TypeOK
  <1>2. EnTabla(r) \in Nat
    <2>1. \A j \in JobIds : recReservados[j][r] \in Nat
      BY DEF Tipos, TypeOK
    <2>2. QED
      BY <2>1, SumaNat DEF EnTabla
  <1>3. EnDevolucion(r) \in Nat
    <2>1. \A t \in Hilos : (IF rec[t] = r THEN monto[t] ELSE 0) \in Nat
      BY DEF Tipos, TypeOK
    <2>2. QED
      BY <2>1, SumaNat DEF EnDevolucion
  <1>4. ASSUME NEW t \in Hilos PROVE DeHilo(t, r) \in Nat
    <2>1. \A j \in JobIds : borrados[t][j][r] \in Nat
      BY DEF Tipos, TypeOK
    <2>2. QED
      BY <2>1, SumaNat DEF DeHilo
  <1>5. EnPurgas(r) \in Nat
    <2>1. \A t \in Hilos : DeHilo(t, r) \in Nat
      BY <1>4
    <2> HIDE <1>4
    <2>2. QED
      BY <2>1, SumaNat DEF EnPurgas
  <1>6. QED
    BY <1>1, <1>2, <1>3, <1>4, <1>5

\* A grant moves units from the pool to the table.
LEMMA MueveConcesion ==
    ASSUME Tipos, Tipos', NEW c \in Conexiones, Cabe(c), Descontar(c), Insertar(c),
           NEW r \in TipoRecurso
    PROVE  cantDisp'[r] + EnTabla(r)' = cantDisp[r] + EnTabla(r)
  <1> DEFINE j == Pedido[c].jobId
             f == [x \in JobIds |-> recReservados[x][r]]
             g == [x \in JobIds |-> recReservados'[x][r]]
  <1>1. j \in JobIds /\ Pedido[c].rec \in TipoRecurso /\ Pedido[c].cant \in Nat
    BY PedidoTipo
  <1>2. \A x \in JobIds : f[x] \in Nat /\ g[x] \in Nat
    BY DEF Tipos, TypeOK
  <1>3. \A x \in JobIds \ {j} : g[x] = f[x]
    BY <1>1 DEF Tipos, TypeOK, Insertar
  <1>4. g[j] = f[j] + (IF r = Pedido[c].rec THEN Pedido[c].cant ELSE 0)
    BY <1>1 DEF Tipos, TypeOK, Insertar
  <1>5. cantDisp'[r] = cantDisp[r] - (IF r = Pedido[c].rec THEN Pedido[c].cant ELSE 0)
    BY <1>1 DEF Tipos, TypeOK, Descontar
  <1>6. EnTabla(r) = Suma(JobIds, f) /\ EnTabla(r)' = Suma(JobIds, g)
    BY DEF EnTabla
  <1>7. cantDisp[r] \in Nat /\ EnTabla(r) \in Nat
    BY SumasNat
  <1> HIDE DEF f, g, j
  <1>8. Suma(JobIds, g) \in Nat
    BY <1>2, SumaNat, ConjuntosAssumption
  <1>9. Suma(JobIds, g) + f[j] = Suma(JobIds, f) + g[j]
    BY <1>1, <1>2, <1>3, ConjuntosAssumption, SumaCambio
  <1>10. QED
    BY <1>1, <1>2, <1>4, <1>5, <1>6, <1>7, <1>8, <1>9

\* A thread that has no units of a RELEASE in hand may look at any resource.
LEMMA MismaDevolucion ==
    ASSUME Tipos, Tipos', UNCHANGED monto, NEW t \in Hilos, monto[t] = 0,
           \A h \in Hilos \ {t} : rec'[h] = rec[h],
           NEW r \in TipoRecurso
    PROVE  EnDevolucion(r)' = EnDevolucion(r)
  <1> DEFINE f == [h \in Hilos |-> IF rec[h] = r THEN monto[h] ELSE 0]
             g == [h \in Hilos |-> IF rec'[h] = r THEN monto'[h] ELSE 0]
  <1>1. \A h \in Hilos : f[h] = g[h]
    OBVIOUS
  <1>2. EnDevolucion(r) = Suma(Hilos, f) /\ EnDevolucion(r)' = Suma(Hilos, g)
    BY DEF EnDevolucion
  <1> HIDE DEF f, g
  <1>3. Suma(Hilos, f) = Suma(Hilos, g)
    BY <1>1, SumaIgual
  <1>4. QED
    BY <1>2, <1>3

\* What the purge of one thread holds is what all of them hold, but for the others.
LEMMA UnaPurga ==
    ASSUME Tipos, Tipos', NEW t \in Hilos, NEW r \in TipoRecurso,
           \A h \in Hilos \ {t} : borrados'[h] = borrados[h]
    PROVE  /\ EnPurgas(r)' + DeHilo(t, r) = EnPurgas(r) + DeHilo(t, r)'
           /\ EnPurgas(r)' \in Nat
           /\ DeHilo(t, r)' \in Nat
  <1> DEFINE F(h) == [j \in JobIds |-> borrados[h][j][r]]
             G(h) == [j \in JobIds |-> borrados'[h][j][r]]
             f == [h \in Hilos |-> Suma(JobIds, F(h))]
             g == [h \in Hilos |-> Suma(JobIds, G(h))]
  <1>1. ASSUME NEW h \in Hilos PROVE f[h] \in Nat /\ g[h] \in Nat
    <2>1. \A j \in JobIds : F(h)[j] \in Nat /\ G(h)[j] \in Nat
      BY DEF Tipos, TypeOK
    <2>2. f[h] = Suma(JobIds, F(h)) /\ g[h] = Suma(JobIds, G(h))
      OBVIOUS
    <2> HIDE DEF F, G, f, g
    <2>3. QED
      BY <2>1, <2>2, SumaNat, ConjuntosAssumption
  <1>2. ASSUME NEW h \in Hilos \ {t} PROVE g[h] = f[h]
    <2>1. F(h) = G(h)
      OBVIOUS
    <2>2. QED
      BY <2>1
  <1>3. /\ EnPurgas(r) = Suma(Hilos, f)
        /\ EnPurgas(r)' = Suma(Hilos, g)
        /\ DeHilo(t, r) = f[t]
        /\ DeHilo(t, r)' = g[t]
    BY DEF EnPurgas, DeHilo
  <1> HIDE DEF f, g
  <1>4. Suma(Hilos, g) + f[t] = Suma(Hilos, f) + g[t]
    BY <1>1, <1>2, ConjuntosAssumption, SumaCambio
  <1>5. Suma(Hilos, g) \in Nat
    BY <1>1, ConjuntosAssumption, SumaNat
  <1>6. QED
    BY <1>1, <1>3, <1>4, <1>5

\* A RELEASE takes units from the table into its thread's hands.
LEMMA MueveRelease ==
    ASSUME Tipos, Tipos', PurgaOrdenada, NEW t \in Hilos, NEW c \in Conexiones,
           LeerRelease(t, c), NEW r \in TipoRecurso
    PROVE  EnTabla(r)' + EnDevolucion(r)' = EnTabla(r) + EnDevolucion(r)
  <1> DEFINE m == Head(canal[c]).rec
             j == Pedido[c].jobId
             f == [x \in JobIds |-> recReservados[x][r]]
             g == [x \in JobIds |-> recReservados'[x][r]]
             u == [h \in Hilos |-> IF rec[h] = r THEN monto[h] ELSE 0]
             v == [h \in Hilos |-> IF rec'[h] = r THEN monto'[h] ELSE 0]
  <1>1. j \in JobIds
    BY PedidoTipo
  <1>2. pc[t] = "espera" /\ monto[t] = 0
    BY DEF LeerRelease, Entregable, PurgaOrdenada
  <1>3. /\ EnTabla(r) = Suma(JobIds, f) /\ EnTabla(r)' = Suma(JobIds, g)
        /\ EnDevolucion(r) = Suma(Hilos, u) /\ EnDevolucion(r)' = Suma(Hilos, v)
    BY DEF EnTabla, EnDevolucion
  <1>4. /\ \A x \in JobIds : f[x] \in Nat /\ g[x] \in Nat
        /\ \A h \in Hilos : u[h] \in Nat /\ v[h] \in Nat
    BY DEF Tipos, TypeOK
  <1>5. \/ UNCHANGED <<recReservados, monto, rec>>
        \/ /\ m \in TipoRecurso
           /\ recReservados' = [recReservados EXCEPT ![j] = QuitarRec(j, m)]
           /\ \/ recReservados[j][m] = 0 /\ UNCHANGED <<monto, rec>>
              \/ /\ monto' = [monto EXCEPT ![t] = recReservados[j][m]]
                 /\ rec' = [rec EXCEPT ![t] = m]
    <2>1. CASE m \notin TipoRecurso
      BY <2>1 DEF LeerRelease, tabla
    <2>2. CASE m \in TipoRecurso
      <3>1. recReservados[j][m] \in Nat
        <4>1. \A x \in TipoRecurso : recReservados[j][x] \in Nat
          BY <1>1 DEF Tipos, TypeOK
        <4>2. QED
          BY <2>2, <4>1
      <3>2. recReservados[j][m] = 0 \/ recReservados[j][m] > 0
        BY <3>1
      <3>3. QED
        BY <2>2, <3>2 DEF LeerRelease
    <2>3. QED
      BY <2>1, <2>2
  <1> HIDE DEF m, j
  <1>0. /\ recReservados \in [JobIds -> [TipoRecurso -> Nat]]
        /\ monto \in [Hilos -> Nat]
        /\ rec \in [Hilos -> TipoRecurso]
    BY DEF Tipos, TypeOK
  <1>6. /\ \A x \in JobIds \ {j} : g[x] = f[x]
        /\ \A h \in Hilos \ {t} : v[h] = u[h]
        /\ u[t] = 0
        /\ g[j] + v[t] = f[j]
    <2>1. CASE UNCHANGED <<recReservados, monto, rec>>
      BY <1>1, <1>2, <2>1 DEF Tipos, TypeOK
    <2>2. CASE /\ m \in TipoRecurso
               /\ recReservados' = [recReservados EXCEPT ![j] = QuitarRec(j, m)]
               /\ recReservados[j][m] = 0 /\ UNCHANGED <<monto, rec>>
      <3>1. recReservados'[j] = [recReservados[j] EXCEPT ![m] = 0]
        BY <1>0, <1>1, <2>2 DEF QuitarRec
      <3>2. recReservados'[j][r] = recReservados[j][r]
        BY <1>0, <1>1, <2>2, <3>1
      <3>3. \A x \in JobIds \ {j} : recReservados'[x] = recReservados[x]
        BY <1>0, <2>2
      <3>4. QED
        BY <1>0, <1>1, <1>2, <2>2, <3>2, <3>3
    <2>3. CASE /\ m \in TipoRecurso
               /\ recReservados' = [recReservados EXCEPT ![j] = QuitarRec(j, m)]
               /\ monto' = [monto EXCEPT ![t] = recReservados[j][m]]
               /\ rec' = [rec EXCEPT ![t] = m]
      <3>1. recReservados'[j] = [recReservados[j] EXCEPT ![m] = 0]
        BY <1>0, <1>1, <2>3 DEF QuitarRec
      <3>2. /\ r = m => recReservados'[j][r] = 0
            /\ r # m => recReservados'[j][r] = recReservados[j][r]
        BY <1>0, <1>1, <2>3, <3>1
      <3>3. \A x \in JobIds \ {j} : recReservados'[x] = recReservados[x]
        BY <1>0, <2>3
      <3>4. v[t] = IF r = m THEN recReservados[j][m] ELSE 0
        BY <1>0, <2>3
      <3>5. \A h \in Hilos \ {t} : v[h] = u[h]
        BY <1>0, <2>3
      <3>6. u[t] = 0
        BY <1>2
      <3>7. g[j] + v[t] = f[j]
        BY <1>0, <1>1, <3>2, <3>4
      <3>8. QED
        BY <3>3, <3>5, <3>6, <3>7
    <2>4. QED
      BY <1>5, <2>1, <2>2, <2>3
  <1> HIDE DEF f, g, u, v
  <1>7. Suma(JobIds, g) + f[j] = Suma(JobIds, f) + g[j]
    BY <1>1, <1>4, <1>6, ConjuntosAssumption, SumaCambio
  <1>8. Suma(Hilos, v) + u[t] = Suma(Hilos, u) + v[t]
    BY <1>4, <1>6, ConjuntosAssumption, SumaCambio
  <1>9. /\ Suma(JobIds, f) \in Nat /\ Suma(JobIds, g) \in Nat
        /\ Suma(Hilos, u) \in Nat /\ Suma(Hilos, v) \in Nat
    BY <1>4, ConjuntosAssumption, SumaNat
  <1>10. QED
    BY <1>1, <1>3, <1>4, <1>6, <1>7, <1>8, <1>9

\* liberar_recurso puts them back in the pool.
LEMMA MueveDevolver ==
    ASSUME Tipos, Tipos', NEW t \in Hilos, Devolver(t), NEW r \in TipoRecurso
    PROVE  cantDisp'[r] + EnDevolucion(r)' = cantDisp[r] + EnDevolucion(r)
  <1> DEFINE u == [h \in Hilos |-> IF rec[h] = r THEN monto[h] ELSE 0]
             v == [h \in Hilos |-> IF rec'[h] = r THEN monto'[h] ELSE 0]
  <1>1. EnDevolucion(r) = Suma(Hilos, u) /\ EnDevolucion(r)' = Suma(Hilos, v)
    BY DEF EnDevolucion
  <1>2. \A h \in Hilos : u[h] \in Nat /\ v[h] \in Nat
    BY DEF Tipos, TypeOK
  <1>3. /\ \A h \in Hilos \ {t} : v[h] = u[h]
        /\ v[t] = 0
        /\ cantDisp'[r] = cantDisp[r] + u[t]
    BY DEF Tipos, TypeOK, Devolver
  <1>4. cantDisp[r] \in Nat
    BY DEF Tipos, TypeOK
  <1> HIDE DEF u, v
  <1>5. Suma(Hilos, v) + u[t] = Suma(Hilos, u) + v[t]
    BY <1>2, <1>3, ConjuntosAssumption, SumaCambio
  <1>6. Suma(Hilos, u) \in Nat /\ Suma(Hilos, v) \in Nat
    BY <1>2, ConjuntosAssumption, SumaNat
  <1>7. QED
    BY <1>1, <1>2, <1>3, <1>4, <1>5, <1>6

\* The purge of a node takes units from the table into its thread's hands,
\* which held none.
LEMMA MueveDesvincular ==
    ASSUME Tipos, Tipos', PurgaOrdenada, NEW t \in Hilos, Desvincular(t),
           NEW r \in TipoRecurso
    PROVE  EnTabla(r)' + EnPurgas(r)' = EnTabla(r) + EnPurgas(r)
  <1> DEFINE suyos == DelNodo(EnPurga(t))
             f == [x \in JobIds |-> recReservados[x][r]]
             g == [x \in JobIds |-> recReservados'[x][r]]
             h == [x \in JobIds |-> borrados'[t][x][r]]
             z == [x \in JobIds |-> borrados[t][x][r]]
  <1>1. /\ recReservados' = [x \in JobIds |->
                IF x \in suyos THEN SinUnidades ELSE recReservados[x]]
        /\ borrados' = [borrados EXCEPT ![t] = [x \in JobIds |->
                IF x \in suyos THEN recReservados[x] ELSE SinUnidades]]
        /\ pc[t] = "desvincular"
    BY DEF Desvincular
  <1> HIDE DEF suyos
  <1>2. \A x \in JobIds : /\ g[x] \in Nat /\ h[x] \in Nat
                          /\ \/ g[x] = 0 /\ f[x] = h[x]
                             \/ h[x] = 0 /\ f[x] = g[x]
    BY SMTT(20), <1>1 DEF Tipos, TypeOK, SinUnidades
  <1>3. \A x \in JobIds : z[x] = 0
    <2>1. lista[t] = {}
      BY <1>1 DEF PurgaOrdenada
    <2>2. \A x \in JobIds : borrados[t][x] = SinUnidades
      BY <2>1 DEF PurgaOrdenada
    <2>3. QED
      BY <2>2 DEF SinUnidades
  <1>4. /\ EnTabla(r) = Suma(JobIds, f) /\ EnTabla(r)' = Suma(JobIds, g)
        /\ DeHilo(t, r) = Suma(JobIds, z) /\ DeHilo(t, r)' = Suma(JobIds, h)
    BY DEF EnTabla, DeHilo
  <1>5. \A k \in Hilos \ {t} : borrados'[k] = borrados[k]
    BY <1>1 DEF Tipos, TypeOK
  <1> HIDE DEF f, g, h, z
  <1>6. Suma(JobIds, f) = Suma(JobIds, g) + Suma(JobIds, h)
    BY <1>2, ConjuntosAssumption, SumaParticion
  <1>7. Suma(JobIds, z) = 0
    BY <1>3, SumaCero
  <1>8. EnPurgas(r)' + DeHilo(t, r) = EnPurgas(r) + DeHilo(t, r)' /\ EnPurgas(r)' \in Nat
    BY <1>5, UnaPurga
  <1>9. /\ Suma(JobIds, g) \in Nat /\ Suma(JobIds, h) \in Nat
        /\ EnPurgas(r) \in Nat
    BY <1>2, ConjuntosAssumption, SumaNat, SumasNat
  <1>10. QED
    BY <1>4, <1>6, <1>7, <1>8, <1>9

\* liberar_recursos_reservados puts them back in the pool, one resource of one
\* entry at a time.
LEMMA MueveReponer ==
    ASSUME Tipos, Tipos', NEW t \in Hilos, Reponer(t), NEW r \in TipoRecurso
    PROVE  cantDisp'[r] + EnPurgas(r)' = cantDisp[r] + EnPurgas(r)
  <1> DEFINE j == EnReposicion(t)
             z == [x \in JobIds |-> borrados[t][x][r]]
             h == [x \in JobIds |-> borrados'[t][x][r]]
             n == IF r = rec[t] THEN borrados[t][j][r] ELSE 0
  <1>1. j \in JobIds
    BY DEF Tipos, TypeOK, Reponer, EnReposicion
  <1>2. /\ borrados' = [borrados EXCEPT ![t][j][rec[t]] = 0]
        /\ cantDisp' = [cantDisp EXCEPT ![rec[t]] = @ + borrados[t][j][rec[t]]]
    BY DEF Reponer
  <1> HIDE DEF j
  <1>3. /\ \A x \in JobIds : z[x] \in Nat /\ h[x] \in Nat
        /\ \A x \in JobIds \ {j} : h[x] = z[x]
        /\ n \in Nat
        /\ h[j] + n = z[j]
    <2>1. /\ borrados[t] \in [JobIds -> [TipoRecurso -> Nat]]
          /\ borrados'[t] \in [JobIds -> [TipoRecurso -> Nat]]
          /\ rec[t] \in TipoRecurso
      BY DEF Tipos, TypeOK
    <2>2. borrados'[t] = [borrados[t] EXCEPT ![j][rec[t]] = 0]
      BY <1>2 DEF Tipos, TypeOK
    <2>3. borrados'[t][j] = [borrados[t][j] EXCEPT ![rec[t]] = 0]
      BY <1>1, <2>1, <2>2
    <2>4. \A x \in JobIds : z[x] \in Nat /\ h[x] \in Nat
      BY <2>1
    <2>5. \A x \in JobIds \ {j} : h[x] = z[x]
      BY <2>1, <2>2
    <2>6. h[j] = IF r = rec[t] THEN 0 ELSE z[j]
      BY <1>1, <2>1, <2>3
    <2>7. n = IF r = rec[t] THEN z[j] ELSE 0
      BY <1>1
    <2>8. QED
      BY <1>1, <2>4, <2>5, <2>6, <2>7
  <1>4. cantDisp[r] \in Nat /\ cantDisp'[r] = cantDisp[r] + n
    <2>1. cantDisp \in [TipoRecurso -> Nat] /\ rec[t] \in TipoRecurso
      BY DEF Tipos, TypeOK
    <2>2. cantDisp'[r] = IF r = rec[t] THEN cantDisp[r] + borrados[t][j][r]
                         ELSE cantDisp[r]
      BY <1>2, <2>1
    <2>3. cantDisp[r] \in Nat
      BY <2>1
    <2>4. QED
      BY <2>2, <2>3
  <1>5. DeHilo(t, r) = Suma(JobIds, z) /\ DeHilo(t, r)' = Suma(JobIds, h)
    BY DEF DeHilo
  <1>6. \A k \in Hilos \ {t} : borrados'[k] = borrados[k]
    BY <1>2 DEF Tipos, TypeOK
  <1> HIDE DEF z, h, n
  <1>7. Suma(JobIds, h) + z[j] = Suma(JobIds, z) + h[j]
    BY <1>1, <1>3, ConjuntosAssumption, SumaCambio
  <1>8. EnPurgas(r)' + DeHilo(t, r) = EnPurgas(r) + DeHilo(t, r)' /\ EnPurgas(r)' \in Nat
    BY <1>6, UnaPurga
  <1>9. /\ Suma(JobIds, z) \in Nat /\ Suma(JobIds, h) \in Nat
        /\ EnPurgas(r) \in Nat
    BY <1>3, ConjuntosAssumption, SumaNat, SumasNat
  <1>10. DeHilo(t, r) = DeHilo(t, r)' + n /\ DeHilo(t, r)' \in Nat
    BY <1>1, <1>3, <1>5, <1>7, <1>9
  <1>11. QED
    BY <1>3, <1>4, <1>8, <1>9, <1>10

\* No step loses or makes up a unit: the actions that touch none, then the ones
\* that move some.
LEMMA ConservacionPaso ==
    ASSUME Tipos, Tipos', PurgaOrdenada, Conservacion, [Next]_vars
    PROVE  Conservacion'
  <1> SUFFICES ASSUME NEW r \in TipoRecurso
               PROVE  cantDisp'[r] + EnTabla(r)' + EnDevolucion(r)' + EnPurgas(r)'
                        = Capacidad[r]
    BY DEF Conservacion
  <1> DEFINE Meta == cantDisp'[r] + EnTabla(r)' + EnDevolucion(r)' + EnPurgas(r)'
                       = Capacidad[r]
             Pool == UNCHANGED cantDisp
             Tabla == EnTabla(r)' = EnTabla(r)
             Devol == EnDevolucion(r)' = EnDevolucion(r)
             Purgas == EnPurgas(r)' = EnPurgas(r)
  <1>1. cantDisp[r] + EnTabla(r) + EnDevolucion(r) + EnPurgas(r) = Capacidad[r]
    BY DEF Conservacion
  <1>2. /\ cantDisp[r] \in Nat /\ cantDisp'[r] \in Nat
        /\ EnTabla(r) \in Nat /\ EnDevolucion(r) \in Nat /\ EnPurgas(r) \in Nat
    BY SumasNat DEF Tipos, TypeOK
  <1>3. EnTabla(r)' \in Nat /\ EnDevolucion(r)' \in Nat /\ EnPurgas(r)' \in Nat
    <2>1. \A j \in JobIds : recReservados'[j][r] \in Nat
      BY DEF Tipos, TypeOK
    <2>2. EnTabla(r)' \in Nat
      BY <2>1, SumaNat, ConjuntosAssumption DEF EnTabla
    <2>3. \A t \in Hilos : (IF rec'[t] = r THEN monto'[t] ELSE 0) \in Nat
      BY DEF Tipos, TypeOK
    <2>4. EnDevolucion(r)' \in Nat
      BY <2>3, SumaNat, ConjuntosAssumption DEF EnDevolucion
    <2>5. ASSUME NEW t \in Hilos PROVE DeHilo(t, r)' \in Nat
      <3>1. \A j \in JobIds : borrados'[t][j][r] \in Nat
        BY DEF Tipos, TypeOK
      <3>2. QED
        BY <3>1, SumaNat, ConjuntosAssumption DEF DeHilo
    <2>6. EnPurgas(r)' \in Nat
      BY <2>5, SumaNat, ConjuntosAssumption DEF EnPurgas
    <2>7. QED
      BY <2>2, <2>4, <2>6
  <1>4. UNCHANGED recReservados => Tabla
    BY DEF EnTabla
  <1>5. UNCHANGED <<rec, monto>> => Devol
    BY DEF EnDevolucion
  <1>6. UNCHANGED borrados => Purgas
    BY DEF EnPurgas, DeHilo
  <1>7. ASSUME Pool, Tabla, Devol, Purgas PROVE Meta
    BY <1>1, <1>7
  <1>8. UNCHANGED <<cantDisp, recReservados, rec, monto, borrados>> => Meta
    BY <1>4, <1>5, <1>6, <1>7
  <1> HIDE DEF Meta, Tabla, Devol, Purgas
  <1>9. ASSUME NEW t \in Hilos, NEW c \in Conexiones, Atender(t, c) PROVE Meta
    <2>1. CASE LeerRelease(t, c)
      <3>1. Pool /\ Purgas
        BY <2>1, <1>6 DEF LeerRelease, purga
      <3>2. EnTabla(r)' + EnDevolucion(r)' = EnTabla(r) + EnDevolucion(r)
        BY <2>1, MueveRelease
      <3>3. QED
        BY <1>1, <1>2, <1>3, <3>1, <3>2 DEF Meta, Purgas
    <2>2. CASE Aceptar(t, c)
      BY <2>2, <1>8 DEF Aceptar, tabla, purga
    <2>3. CASE LeerReserve(t, c)
      BY <2>3, <1>8 DEF LeerReserve, tabla, purga
    <2>4. CASE LeerFin(t, c)
      BY <2>4, <1>8 DEF LeerFin, tabla
    <2>5. QED
      BY <1>9, <2>1, <2>2, <2>3, <2>4 DEF Atender
  <1>10. ASSUME NEW t \in Hilos, Conceder(t) PROVE Meta
    <2>1. con[t] \in Conexiones
      BY <1>10 DEF Conceder, EntraAReservar, Tipos, ConEnUso
    <2>2. cantDisp'[r] + EnTabla(r)' = cantDisp[r] + EnTabla(r)
      BY <1>10, <2>1, MueveConcesion DEF Conceder
    <2>3. Devol /\ Purgas
      BY <1>10, <1>5, <1>6 DEF Conceder, purga
    <2>4. QED
      BY <1>1, <1>2, <1>3, <2>2, <2>3 DEF Meta, Devol, Purgas
  <1>11. ASSUME NEW t \in Hilos, Promover(t) PROVE Meta
    <2> DEFINE c == Head(cola[rec[t]])
    <2>1. cola[rec[t]] \in Seq(Conexiones) /\ cola[rec[t]] # <<>> /\ Cabe(c)
      BY <1>11 DEF Tipos, TypeOK, Promover, ColaAgotada
    <2>2. c \in Conexiones
      BY <2>1, CabezaYResto
    <2>3. cantDisp'[r] + EnTabla(r)' = cantDisp[r] + EnTabla(r)
      BY <1>11, <2>1, <2>2, MueveConcesion DEF Promover
    <2>4. Devol /\ Purgas
      BY <1>11, <1>5, <1>6 DEF Promover, purga
    <2>5. QED
      BY <1>1, <1>2, <1>3, <2>3, <2>4 DEF Meta, Devol, Purgas
  <1>12. ASSUME NEW t \in Hilos, Devolver(t) PROVE Meta
    <2>1. cantDisp'[r] + EnDevolucion(r)' = cantDisp[r] + EnDevolucion(r)
      BY <1>12, MueveDevolver
    <2>2. Tabla /\ Purgas
      BY <1>12, <1>4, <1>6 DEF Devolver, tabla, purga
    <2>3. QED
      BY <1>1, <1>2, <1>3, <2>1, <2>2 DEF Meta, Tabla, Purgas
  <1>13. ASSUME NEW t \in Hilos, Desvincular(t) PROVE Meta
    <2>1. EnTabla(r)' + EnPurgas(r)' = EnTabla(r) + EnPurgas(r)
      BY <1>13, MueveDesvincular
    <2>2. Devol
      <3>1. UNCHANGED monto /\ monto[t] = 0 /\ rec' = [rec EXCEPT ![t] = "cpu"]
        BY <1>13 DEF Desvincular, PurgaOrdenada
      <3>2. \A h \in Hilos \ {t} : rec'[h] = rec[h]
        BY <3>1 DEF Tipos, TypeOK
      <3>3. QED
        BY <3>1, <3>2, MismaDevolucion DEF Devol
    <2>3. Pool
      BY <1>13 DEF Desvincular
    <2>4. QED
      BY <1>1, <1>2, <1>3, <2>1, <2>2, <2>3 DEF Meta, Devol
  <1>14. ASSUME NEW t \in Hilos, Limpiar(t) PROVE Meta
    <2>1. Pool /\ Tabla /\ Purgas
      BY <1>14, <1>4, <1>6 DEF Limpiar, tabla, purga
    <2>2. Devol
      <3>1. UNCHANGED monto /\ monto[t] = 0
        BY <1>14 DEF Limpiar, PurgaOrdenada
      <3>2. \A h \in Hilos \ {t} : rec'[h] = rec[h]
        BY <1>14 DEF Limpiar, Tipos, TypeOK
      <3>3. QED
        BY <3>1, <3>2, MismaDevolucion DEF Devol
    <2>3. QED
      BY <2>1, <2>2, <1>7 DEF Tabla, Devol, Purgas
  <1>15. ASSUME NEW t \in Hilos, Reponer(t) PROVE Meta
    <2>1. cantDisp'[r] + EnPurgas(r)' = cantDisp[r] + EnPurgas(r)
      BY <1>15, MueveReponer
    <2>2. Tabla
      BY <1>15, <1>4 DEF Reponer, tabla
    <2>3. Devol
      <3>1. UNCHANGED monto /\ monto[t] = 0
        BY <1>15 DEF Reponer, PurgaOrdenada
      <3>2. \A h \in Hilos \ {t} : rec'[h] = rec[h]
        BY ZenonT(40), <1>15 DEF Reponer, Tipos, TypeOK
      <3>3. QED
        BY <3>1, <3>2, MismaDevolucion DEF Devol
    <2>4. QED
      BY <1>1, <1>2, <1>3, <2>1, <2>2, <2>3 DEF Meta, Tabla, Devol
  <1>16. ASSUME NEW t \in Hilos,
                Encolar(t) \/ Denegar(t) \/ Responder(t) \/ FinPromover(t)
                \/ Notificar(t) \/ FinNotificar(t) \/ FinPurga(t) \/ Cerrar(t)
         PROVE  Meta
    BY <1>16, <1>8 DEF Encolar, Denegar, Responder, FinPromover, Notificar,
                       FinNotificar, FinPurga, Cerrar, tabla, purga
  <1>17. ASSUME NEW t \in Hilos, NEW E \in SUBSET Expirables, Expirar(t, E) PROVE Meta
    BY <1>17, <1>8 DEF Expirar, tabla
  <1>18. ASSUME NEW t \in Hilos, NEW n \in Nodos, Anunciar(t, n) PROVE Meta
    BY <1>18, <1>8 DEF Anunciar, tabla, purga
  <1>19. ASSUME NEW c \in Conexiones, ParLibera(c) \/ ParCae(c) PROVE Meta
    BY <1>19, <1>8 DEF ParLibera, ParCae, tabla, purga
  <1>20. ASSUME UNCHANGED vars PROVE Meta
    <2>1. UNCHANGED <<cantDisp, recReservados, rec, monto, borrados>>
      BY <1>20 DEF vars
    <2>2. QED
      BY <2>1, <1>8
  <1>21. Meta
    <2>1. ASSUME NEW t \in Hilos, Avanzar(t) PROVE Meta
      BY <2>1, <1>10, <1>11, <1>12, <1>13, <1>14, <1>15, <1>16 DEF Avanzar
    <2>2. QED
      BY <2>1, <1>9, <1>17, <1>18, <1>19, <1>20 DEF Next
  <1>22. QED
    BY <1>21 DEF Meta

\* At start everything is free.
LEMMA ConservacionInit == Init => PurgaOrdenada /\ Conservacion
  <1> SUFFICES ASSUME Init PROVE PurgaOrdenada /\ Conservacion
    OBVIOUS
  <1>1. PurgaOrdenada
    BY DEF Init, PurgaOrdenada
  <1>2. ASSUME NEW r \in TipoRecurso
        PROVE  cantDisp[r] + EnTabla(r) + EnDevolucion(r) + EnPurgas(r) = Capacidad[r]
    <2>1. EnTabla(r) = 0
      <3>1. \A j \in JobIds : recReservados[j][r] = 0
        BY DEF Init, SinUnidades
      <3>2. QED
        BY <3>1, SumaCero DEF EnTabla
    <2>2. EnDevolucion(r) = 0
      <3>1. \A t \in Hilos : (IF rec[t] = r THEN monto[t] ELSE 0) = 0
        BY DEF Init
      <3>2. QED
        BY <3>1, SumaCero DEF EnDevolucion
    <2>3. EnPurgas(r) = 0
      <3>1. ASSUME NEW t \in Hilos PROVE DeHilo(t, r) = 0
        <4>1. \A j \in JobIds : borrados[t][j][r] = 0
          BY DEF Init, SinUnidades
        <4>2. QED
          BY <4>1, SumaCero DEF DeHilo
      <3>2. QED
        BY <3>1, SumaCero DEF EnPurgas
    <2>4. cantDisp[r] = Capacidad[r] /\ Capacidad[r] \in Nat
      BY CapacidadAssumption DEF Init
    <2>5. QED
      BY <2>1, <2>2, <2>3, <2>4
  <1>3. QED
    BY <1>1, <1>2 DEF Conservacion

\* The inductive invariant: it holds at start and every step keeps it.
LEMMA IInvInit == Init => IInv
  BY TiposInit, ColaPropiaInit, ConservacionInit DEF IInv, Tipos

\* Its parts are kept together: each one needs the ones before it.
LEMMA IInvPaso == IInv /\ [Next]_vars => IInv'
  <1> SUFFICES ASSUME IInv, [Next]_vars PROVE IInv'
    OBVIOUS
  <1>1. Tipos
    BY DEF IInv, Tipos
  <1>2. Tipos'
    BY <1>1, TiposPaso
  <1>3. ColaPropia'
    BY <1>1, <1>2, ColaPropiaPaso DEF IInv
  <1>4. PurgaOrdenada'
    BY <1>1, OrdenPaso DEF IInv
  <1>5. Conservacion'
    BY <1>1, <1>2, ConservacionPaso DEF IInv
  <1>6. QED
    BY <1>2, <1>3, <1>4, <1>5 DEF IInv, Tipos

\* The units of every resource are conserved in every execution, for any number
\* of threads, connections and nodes and however their critical sections
\* interleave: recursos.c and tablajobs.c lose none between them.
THEOREM ConservacionSiempre == Spec => []Conservacion
  <1>1. IInv => Conservacion
    BY DEF IInv
  <1>2. QED
    BY IInvInit, IInvPaso, <1>1, PTL DEF Spec

-----------------------------------------------------------------------------
(* The order of arrival *)

\* Units leave the pool only for the head of a queue, or for a newcomer that
\* finds it empty: reservar_recurso and liberar_recurso let no request overtake
\* one queued before it, in any execution.
THEOREM OrdenDeLlegada == Spec => SinAdelantamiento
  <1> DEFINE Toma(r) == \/ cola[r] = <<>> /\ cola'[r] = <<>>
                        \/ cola[r] # <<>> /\ cola'[r] = Tail(cola[r])
             Orden == \A r \in TipoRecurso : cantDisp'[r] < cantDisp[r] => Toma(r)
  <1>1. ASSUME IInv, [Next]_vars PROVE Orden
    <2> SUFFICES ASSUME NEW r \in TipoRecurso, cantDisp'[r] < cantDisp[r] PROVE Toma(r)
      OBVIOUS
    <2>1. cantDisp \in [TipoRecurso -> Nat] /\ cola \in [TipoRecurso -> Seq(Conexiones)]
      BY <1>1 DEF IInv, TypeOK
    <2>2. cantDisp' # cantDisp
      BY <2>1
    <2>3. ASSUME NEW t \in Hilos, Conceder(t) PROVE Toma(r)
      <3>1. Pedido[con[t]].rec \in TipoRecurso
        BY <1>1, <2>3, PedidoTipo DEF IInv, ConEnUso, Conceder, EntraAReservar
      <3>2. r = Pedido[con[t]].rec
        BY <2>1, <2>3, <3>1 DEF Conceder, Descontar
      <3>3. QED
        BY <2>3, <3>2 DEF Conceder, NadieEspera
    <2>4. ASSUME NEW t \in Hilos, Promover(t) PROVE Toma(r)
      <3> DEFINE c == Head(cola[rec[t]])
      <3>1. /\ cantDisp' = [cantDisp EXCEPT ![Pedido[c].rec] = @ - Pedido[c].cant]
            /\ cola' = [cola EXCEPT ![rec[t]] = Tail(@)]
            /\ cola[rec[t]] # <<>>
        BY <2>4 DEF Promover, Desencolar, Descontar, ColaAgotada
      <3>2. Pedido[c].rec = rec[t] /\ rec[t] \in TipoRecurso
        <4>1. cola[rec[t]] \in Seq(DelRecurso(rec[t])) /\ rec[t] \in TipoRecurso
          BY <1>1 DEF IInv, TypeOK, ColaPropia
        <4>2. c \in DelRecurso(rec[t])
          BY <3>1, <4>1, CabezaYResto
        <4>3. QED
          BY <4>1, <4>2 DEF DelRecurso
      <3>3. QED
        <4>1. r = rec[t]
          BY <2>1, <3>1, <3>2
        <4>2. QED
          BY <2>1, <3>1, <4>1
    <2>5. ASSUME NEW t \in Hilos, Devolver(t) PROVE FALSE
      BY <1>1, <2>1, <2>5 DEF Devolver, IInv, TypeOK
    <2>6. ASSUME NEW t \in Hilos, Reponer(t) PROVE FALSE
      <3>1. EnReposicion(t) \in JobIds
        BY <1>1, <2>6 DEF IInv, TypeOK, Reponer, EnReposicion
      <3>2. borrados[t][EnReposicion(t)][rec[t]] \in Nat
        BY <1>1, <3>1 DEF IInv, TypeOK
      <3>3. QED
        BY <2>1, <2>6, <3>2 DEF Reponer
    <2>7. QED
      BY ZenonT(40), <1>1, <2>2, <2>3, <2>4, <2>5, <2>6
         DEF Next, Avanzar, Atender, vars, Aceptar, ParLibera, ParCae, Anunciar,
             LeerReserve, Encolar, Denegar, Responder, LeerRelease, FinPromover,
             Notificar, FinNotificar, LeerFin, Expirar, Desvincular, Limpiar,
             FinPurga, Cerrar
  <1>2. IInv /\ [Next]_vars => [Orden]_vars
    BY <1>1
  <1>3. QED
    BY IInvInit, IInvPaso, <1>2, PTL DEF Spec, SinAdelantamiento

-----------------------------------------------------------------------------
(* The abstract pool *)

\* A grant of reservar_recurso is one of the pool.
LEMMA PasoConceder ==
    ASSUME IInv, NEW t \in Hilos, Conceder(t)
    PROVE  Fondo!Reservar(con[t])
  <1>1. con[t] \in Conexiones
    BY DEF IInv, ConEnUso, Conceder, EntraAReservar
  <1>2. QED
    BY <1>1, PedidoTipo
       DEF Conceder, NadieEspera, Cabe, Descontar, Fondo!Reservar, Fondo!Rec, Fondo!Cant,
           IInv, TypeOK

\* A request that reservar_recurso queues goes last in the pool's queue.
LEMMA PasoEncolar ==
    ASSUME IInv, NEW t \in Hilos, Encolar(t)
    PROVE  con[t] \in Conexiones /\ Fondo!Formar(con[t])
  <1>1. con[t] \in Conexiones
    BY DEF IInv, ConEnUso, Encolar, EntraAReservar
  <1>2. QED
    BY SMTT(40), <1>1, PedidoTipo
       DEF Encolar, NadieEspera, Cabe, Fondo!Formar, Fondo!Rec, Fondo!Cant, IInv, TypeOK

\* A turn of the promotion loop serves the head of the pool's queue.
LEMMA PasoPromover ==
    ASSUME IInv, NEW t \in Hilos, Promover(t)
    PROVE  Fondo!Atender(rec[t])
  <1> DEFINE c == Head(cola[rec[t]])
  <1>1. rec[t] \in TipoRecurso /\ cola[rec[t]] \in Seq(DelRecurso(rec[t]))
    BY DEF IInv, TypeOK, ColaPropia
  <1>2. cola[rec[t]] # <<>> /\ Cabe(c) /\ Descontar(c)
        /\ cola' = [cola EXCEPT ![rec[t]] = Tail(@)]
    BY DEF Promover, ColaAgotada, Desencolar
  <1>3. c \in DelRecurso(rec[t])
    BY <1>1, <1>2, CabezaYResto
  <1>4. Pedido[c].rec = rec[t]
    BY <1>3 DEF DelRecurso
  <1>5. QED
    BY <1>2, <1>4 DEF Cabe, Descontar, Fondo!Atender, Fondo!Cant

\* The pool never has more units than the machine.
SinSobra == \A r \in TipoRecurso : cantDisp[r] <= Capacidad[r]

LEMMA NadaSobra == IInv => SinSobra
  <1> SUFFICES ASSUME IInv, NEW r \in TipoRecurso PROVE cantDisp[r] <= Capacidad[r]
    BY DEF SinSobra
  <1>1. /\ cantDisp[r] \in Nat /\ EnTabla(r) \in Nat
        /\ EnDevolucion(r) \in Nat /\ EnPurgas(r) \in Nat
    BY SumasNat DEF IInv, Tipos
  <1>2. cantDisp[r] + EnTabla(r) + EnDevolucion(r) + EnPurgas(r) = Capacidad[r]
    BY DEF IInv, Conservacion
  <1>3. QED
    BY <1>1, <1>2

\* Units that come back were out.
LEMMA HayLugar ==
    ASSUME IInv, SinSobra', NEW r \in TipoRecurso, NEW n \in Nat,
           cantDisp' = [cantDisp EXCEPT ![r] = @ + n], UNCHANGED cola
    PROVE  Fondo!Devolver(r) \/ UNCHANGED <<cantDisp, cola>>
  <1>1. cantDisp \in [TipoRecurso -> Nat] /\ Capacidad[r] \in Nat
    BY CapacidadAssumption DEF IInv, TypeOK
  <1>2. cantDisp'[r] <= Capacidad[r]
    BY DEF SinSobra
  <1>3. cantDisp'[r] = cantDisp[r] + n
    BY <1>1
  <1>4. CASE n = 0
    BY <1>1, <1>4
  <1>5. CASE n > 0
    <2>1. n \in 1..(Capacidad[r] - cantDisp[r])
      BY <1>1, <1>2, <1>3, <1>5
    <2>2. QED
      BY <2>1 DEF Fondo!Devolver
  <1>6. QED
    BY <1>4, <1>5

\* The pool's subsequences are the agent's.
LEMMA MismasPosiciones ==
    ASSUME NEW s, NEW I
    PROVE  Fondo!EnPosiciones(s, I) = EnPosiciones(s, I)
  BY DEF Fondo!EnPosiciones, EnPosiciones, Fondo!Rango, Rango, Fondo!Cardinality, Cardinality

\* A purge takes requests out of one queue and keeps the order of the others.
LEMMA PasoLimpiar ==
    ASSUME IInv, NEW t \in Hilos, Limpiar(t)
    PROVE  \E S \in SUBSET Conexiones : Fondo!Retirar(rec[t], S)
  <1> DEFINE n == EnPurga(t)
             S == {c \in Conexiones : Pedido[c].nodo = n}
             s == cola[rec[t]]
  <1>1. rec[t] \in TipoRecurso /\ s \in Seq(Conexiones) /\ cola \in [TipoRecurso -> Seq(Conexiones)]
    BY DEF IInv, TypeOK
  <1>2. {i \in DOMAIN s : Pedido[s[i]].nodo # n} = {i \in DOMAIN s : s[i] \notin S}
    BY <1>1
  <1>3. cola' = [cola EXCEPT ![rec[t]] = EnPosiciones(s, {i \in DOMAIN s : s[i] \notin S})]
    BY <1>2 DEF Limpiar, SinNodo
  <1>4. Fondo!EnPosiciones(s, {i \in DOMAIN s : s[i] \notin S})
        = EnPosiciones(s, {i \in DOMAIN s : s[i] \notin S})
    BY MismasPosiciones
  <1>5. UNCHANGED cantDisp /\ S \in SUBSET Conexiones
    BY DEF Limpiar
  <1>6. Fondo!Retirar(rec[t], S)
    BY <1>3, <1>4, <1>5 DEF Fondo!Retirar
  <1>7. QED
    BY <1>5, <1>6

\* Every step of the agent is one of the pool, or changes nothing of it.
LEMMA PasoDelFondo ==
    ASSUME IInv, SinSobra', [Next]_vars
    PROVE  [Fondo!Next]_<<cantDisp, cola>>
  <1> DEFINE Meta == Fondo!Next \/ UNCHANGED <<cantDisp, cola>>
  <1>1. rec \in [Hilos -> TipoRecurso]
    BY DEF IInv, TypeOK
  <1>2. ASSUME NEW t \in Hilos, Conceder(t) PROVE Meta
    BY <1>2, PasoConceder DEF Fondo!Next, IInv, ConEnUso, Conceder, EntraAReservar
  <1>3. ASSUME NEW t \in Hilos, Encolar(t) PROVE Meta
    BY <1>3, PasoEncolar DEF Fondo!Next
  <1>4. ASSUME NEW t \in Hilos, Promover(t) PROVE Meta
    BY <1>1, <1>4, PasoPromover DEF Fondo!Next
  <1>5. ASSUME NEW t \in Hilos, Devolver(t) PROVE Meta
    <2>1. monto[t] \in Nat /\ cantDisp' = [cantDisp EXCEPT ![rec[t]] = @ + monto[t]]
          /\ UNCHANGED cola
      BY <1>5 DEF IInv, TypeOK, Devolver
    <2>2. QED
      BY <1>1, <2>1, HayLugar DEF Fondo!Next
  <1>6. ASSUME NEW t \in Hilos, Reponer(t) PROVE Meta
    <2> DEFINE n == borrados[t][EnReposicion(t)][rec[t]]
    <2>1. EnReposicion(t) \in JobIds
      BY <1>6 DEF IInv, TypeOK, Reponer, EnReposicion
    <2>2. n \in Nat
      BY <1>1, <2>1 DEF IInv, TypeOK
    <2>3. cantDisp' = [cantDisp EXCEPT ![rec[t]] = @ + n] /\ UNCHANGED cola
      BY <1>6 DEF Reponer
    <2> HIDE DEF n
    <2>4. QED
      BY <1>1, <2>2, <2>3, HayLugar DEF Fondo!Next
  <1>7. ASSUME NEW t \in Hilos, Limpiar(t) PROVE Meta
    BY <1>1, <1>7, PasoLimpiar DEF Fondo!Next
  <1>8. QED
    BY ZenonT(40), <1>2, <1>3, <1>4, <1>5, <1>6, <1>7
       DEF Next, Avanzar, Atender, vars, Aceptar, ParLibera, ParCae, Anunciar,
           LeerReserve, Denegar, Responder, LeerRelease, FinPromover, Notificar,
           FinNotificar, LeerFin, Expirar, Desvincular, FinPurga, Cerrar

\* The agent implements the pool: recursos.c, called from any number of threads
\* in the middle of whatever purges, keeps the promise of recursos.h.
THEOREM AgenteEsFondo == Spec => ImplementaFondo
  <1>1. Init => Fondo!Init
    BY DEF Init, Fondo!Init
  <1>2. IInv /\ SinSobra' /\ [Next]_vars => [Fondo!Next]_Fondo!vars
    BY PasoDelFondo DEF Fondo!vars
  <1>3. QED
    BY IInvInit, IInvPaso, NadaSobra, <1>1, <1>2, PTL DEF Spec, ImplementaFondo, Fondo!Spec
=============================================================================
