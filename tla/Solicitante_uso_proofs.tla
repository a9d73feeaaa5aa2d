----------------------- MODULE Solicitante_uso_proofs -----------------------
(***************************************************************************)
(* A job that runs has what it asked for: where every GRANTED comes from,  *)
(* and why all are there when the planner is told.                         *)
(***************************************************************************)
EXTENDS Solicitante_proofs

-----------------------------------------------------------------------------
(* The invariant *)

\* What was reserved for c, and is still or was taken back by the provider.
Firme(c) == <<c, Trabajo(c)>> \in tomada \/ c \in revocadas

\* The contexts of one JOB_REQUEST.
Hermanas(c, d) == Trabajo(c) = Trabajo(d) /\ c[2] = d[2]

\* What is at the providers, or on its way back, is of the job of its socket,
\* and a GRANTED was preceded by a reservation.
Reservas == \A r \in espera \cup tomada : r[2] = Trabajo(r[1]) \/ r[2] \in cruzados
Carta(c, m) ==
    /\ m.job = Trabajo(c) \/ m.job \in cruzados
    /\ m.clase = "GRANTED" /\ m.job = Trabajo(c) => Firme(c)
Cartas == \A c \in Contextos : \A m \in ToSet(buzon[c]) : Carta(c, m)

\* A GRANTED is in the hands of the thread that has its connection.
EnMano(t) == trab[t] \in cruzados \/ (Trabajo(con[t]) = trab[t] /\ Firme(con[t]))
Manos == \A t \in Hilos : pc[t] \in {"marcar", "mirar", "avisar"} => EnMano(t)

\* An entry is marked for a reservation.
Marcadas ==
    \A c \in Contextos : entrada[c] = "concedida" => Firme(c) \/ Perturbado(Trabajo(c))

\* The line a thread goes through: every context of the request once, first the
\* ones that are left to create.
Recorrido ==
    \A t \in Hilos : pc[t] \in {"pedir", "armar"} =>
        /\ \A c \in Contextos :
              Trabajo(c) = trab[t] /\ c[2] = intento[trab[t]] => c \in ToSet(lista[t])
        /\ IsInjective(lista[t])
        /\ \A i, k \in DOMAIN lista[t] :
              i < k /\ tipo[lista[t][k]] = "sin_crear" => tipo[lista[t][i]] = "sin_crear"
        /\ \A c \in ToSet(lista[t]) :
              tipo[c] # "sin_crear" => entrada[c] # "no" \/ c \in olvidadas

\* The entries of a request are there together, but for what a purge removed.
Juntas ==
    \A c, d \in Contextos :
        Hermanas(c, d) /\ entrada[c] # "no" /\ tipo[d] # "sin_crear" =>
            entrada[d] # "no" \/ d \in olvidadas

\* A request is incomplete only while a thread goes through its line.
Completas ==
    \A c, d \in Contextos :
        Hermanas(c, d) /\ tipo[c] # "sin_crear" /\ tipo[d] = "sin_crear" =>
            \E t \in Hilos :
                pc[t] = "pedir" /\ trab[t] = Trabajo(c) /\ c[2] = intento[trab[t]]

\* The planner is about to be told that the job of a connection has all.
Avisos ==
    \A t \in Hilos : pc[t] = "avisar" =>
        \/ entrada[con[t]] = "no"
        \/ Perturbado(trab[t])
        \/ \A c \in Contextos : Hermanas(c, con[t]) => Firme(c)

UInv ==
    /\ IInv /\ Reservas /\ Cartas /\ Manos /\ Marcadas /\ Recorrido /\ Juntas /\ Completas
    /\ Avisos /\ UsaLoReservado


-----------------------------------------------------------------------------
(* What only grows *)

\* The histories of the job only grow, and what is reserved stays so until a
\* provider takes it back.
LEMMA Crecen ==
    ASSUME IInv, [Next]_vars
    PROVE  /\ revocadas \subseteq revocadas' /\ olvidadas \subseteq olvidadas'
           /\ tardias \subseteq tardias' /\ cruzados \subseteq cruzados'
           /\ \A r \in tomada : r \in tomada' \/ r[1] \in revocadas'
  <1>1. CASE PasoExterno
    <2>1. ASSUME NEW n, SinHost(n),
                 revocadas' = revocadas \cup
                     {r[1] : r \in (espera \cup tomada) \ (espera' \cup tomada')}
          PROVE  \A r \in tomada : r \in tomada' \/ r[1] \in revocadas'
      BY <2>1 DEF SinHost
    <2>2. ASSUME NEW c \in Contextos, ProvCierra(c)
          PROVE  \A r \in tomada : r \in tomada' \/ r[1] \in revocadas'
      BY <2>1, <2>2 DEF ProvCierra
    <2>3. ASSUME NEW n \in Caidas, ProvCae(n)
          PROVE  \A r \in tomada : r \in tomada' \/ r[1] \in revocadas'
      BY <2>1, <2>3 DEF ProvCae
    <2>4. /\ revocadas \subseteq revocadas'
          /\ UNCHANGED <<olvidadas, tardias, cruzados>>
      BY <1>1 DEF PasoExterno, Pedir, Soltar, ProvCierra, ProvConcede, ProvDeniega, ProvCae,
                  historia
    <2>5. ASSUME ~ \E c \in Contextos : ProvCierra(c), ~ \E n \in Caidas : ProvCae(n)
          PROVE  tomada \subseteq tomada'
      BY <1>1, <2>5 DEF PasoExterno, Pedir, Soltar, ProvConcede, ProvDeniega, proveedor
    <2>6. QED
      BY <2>2, <2>3, <2>4, <2>5
  <1>2. ASSUME NEW t \in Hilos, PasoLinea(t)
        PROVE  UNCHANGED <<revocadas, olvidadas, tardias, cruzados, tomada>>
    BY <1>2 DEF PasoLinea, AtenderPlanificador, TomarPedido, TomarLiberacion,
                LiberacionVacia, Registrar, Armar, Cortar, historia, proveedor
  <1>3. ASSUME NEW t \in Hilos, PasoConexion(t)
        PROVE  /\ UNCHANGED <<revocadas, tomada>> /\ olvidadas \subseteq olvidadas'
               /\ tardias \subseteq tardias' /\ cruzados \subseteq cruzados'
    BY <1>3 DEF PasoConexion, Salida, Leer, Marcar, Mirar, Avisar, Rearmar, Purgar, Cerrar,
                Evento, FinDeVecino, AnotarTardia, AnotarCruce, BorrarPorNodo, historia,
                proveedor
  <1>4. CASE UNCHANGED vars
    BY <1>4 DEF vars, historia, proveedor
  <1>5. QED
    BY <1>1, <1>2, <1>3, <1>4, Casos

\* A context that has its reservation, and a disturbed job, remain so.
LEMMA FirmeSigue ==
    ASSUME IInv, [Next]_vars
    PROVE  /\ \A c \in Contextos : Firme(c) => Firme(c)'
           /\ \A j \in Trabajos : Perturbado(j) => Perturbado(j)'
  <1>1. /\ revocadas \subseteq revocadas' /\ olvidadas \subseteq olvidadas'
        /\ tardias \subseteq tardias' /\ cruzados \subseteq cruzados'
        /\ \A r \in tomada : r \in tomada' \/ r[1] \in revocadas'
    BY Crecen
  <1>2. ASSUME NEW c \in Contextos, Firme(c) PROVE Firme(c)'
    <2>1. CASE <<c, Trabajo(c)>> \in tomada
      BY <1>1, <2>1 DEF Firme
    <2>2. CASE c \in revocadas
      BY <1>1, <2>2 DEF Firme
    <2>3. QED
      BY <1>2, <2>1, <2>2 DEF Firme
  <1>3. QED
    BY <1>1, <1>2 DEF Perturbado

\* A thread does not leave the table's entry of a context but by forgetting it,
\* and marks one only in Marcar.
LEMMA EntradasConexion ==
    ASSUME IInv, NEW t \in Hilos, PasoConexion(t), NEW c \in Contextos
    PROVE  /\ entrada[c] # "no" => entrada'[c] # "no" \/ c \in olvidadas'
           /\ entrada'[c] = "concedida" => entrada[c] = "concedida" \/ Marcar(t)
  <1>0. TypeOK
    BY DEF IInv
  <1>1. CASE Marcar(t)
    BY <1>0, <1>1 DEF Marcar, EntradaDe, EntradasDe, TypeOK
  <1>2. CASE Purgar(t) \/ \E n \in Vecinos : FinDeVecino(t, n)
    <2>1. (\E n : BorrarPorNodo(n)) \/ UNCHANGED <<entrada, olvidadas>>
      BY <1>2 DEF Purgar, FinDeVecino
    <2>2. QED
      BY <2>1 DEF BorrarPorNodo
  <1>3. CASE ~ Marcar(t) /\ ~ Purgar(t) /\ ~ \E n \in Vecinos : FinDeVecino(t, n)
    BY <1>3 DEF PasoConexion, Salida, Leer, Mirar, Avisar, Rearmar, Cerrar, Evento
  <1>4. QED
    BY <1>1, <1>2, <1>3

\* Handling a line touches the entries only to make one or to take all of a job.
LEMMA EntradasLinea ==
    ASSUME NEW t \in Hilos, PasoLinea(t), ~ Registrar(t)
    PROVE  \/ UNCHANGED entrada
           \/ \E j : entrada' = [c \in Contextos |->
                                   IF c \in EntradasDe(j) THEN "no" ELSE entrada[c]]
  <1>1. CASE TomarLiberacion(t)
    BY <1>1 DEF TomarLiberacion
  <1>2. CASE ~ TomarLiberacion(t)
    BY <1>2 DEF PasoLinea, AtenderPlanificador, TomarPedido, LiberacionVacia, Armar, Cortar
  <1>3. QED
    BY <1>1, <1>2

\* A GRANTED comes into the hands of a thread by reading it.
LEMMA EnManoDe ==
    ASSUME IInv, [Next]_vars, NEW h \in Hilos, pc'[h] \in {"marcar", "mirar", "avisar"}
    PROVE  \/ pc'[h] = pc[h] /\ con'[h] = con[h] /\ trab'[h] = trab[h]
           \/ Leer(h) /\ pc'[h] = "marcar" /\ con'[h] = con[h]
           \/ Marcar(h) /\ con'[h] = con[h] /\ trab'[h] = trab[h]
           \/ Mirar(h) /\ con'[h] = con[h] /\ trab'[h] = trab[h]
  <1> USE DEF Ir, Volver, EnConexion
  <1>0. TypeOK
    BY DEF IInv
  <1>1. CASE PasoExterno
    BY <1>1, MarcoExterno
  <1>2. ASSUME NEW t \in Hilos, PasoLinea(t)
        PROVE  pc'[h] = pc[h] /\ con'[h] = con[h] /\ trab'[h] = trab[h]
    BY <1>2, MarcoLinea
  <1>3. ASSUME NEW t \in Hilos, PasoConexion(t), t # h
        PROVE  pc'[h] = pc[h] /\ con'[h] = con[h] /\ trab'[h] = trab[h]
    BY <1>3, MarcoHilo
  <1>4. CASE Leer(h)
    <2>1. \E m \in {"marcar", "negar", "rearmar", "purgar"} : pc' = [pc EXCEPT ![h] = m]
      BY <1>4 DEF Leer
    <2>2. QED
      BY <1>0, <1>4, <2>1 DEF Leer, TypeOK
  <1>5. CASE Marcar(h) \/ Mirar(h)
    BY <1>5 DEF Marcar, Mirar, hilo
  <1>6. CASE Salida(h) \/ Avisar(h) \/ Rearmar(h) \/ Purgar(h) \/ Cerrar(h)
    <2>1. \E m \in {"rearmar", "cerrar", "libre"} : pc' = [pc EXCEPT ![h] = m]
      BY <1>6 DEF Salida, Avisar, Rearmar, Purgar, Cerrar
    <2>2. QED
      BY <1>0, <2>1 DEF TypeOK
  <1>7. CASE \E f \in Descriptores : Evento(h, f)
    <2>1. \E m \in {"salida", "leer"} : pc' = [pc EXCEPT ![h] = m]
      BY <1>7 DEF Evento
    <2>2. QED
      BY <1>0, <2>1 DEF TypeOK
  <1>8. CASE \E n \in Vecinos : FinDeVecino(h, n)
    BY <1>8 DEF FinDeVecino, hilo
  <1>9. CASE UNCHANGED vars
    BY <1>9 DEF vars, hilo
  <1>10. QED
    BY <1>1, <1>2, <1>3, <1>4, <1>5, <1>6, <1>7, <1>8, <1>9, Casos DEF PasoConexion

-----------------------------------------------------------------------------
(* Requests and answers *)

\* A line on a socket is of the job of its context, or was noted.
LEMMA ReservasSiguen ==
    ASSUME IInv, Reservas, [Next]_vars
    PROVE  Reservas'
  <1>0. cruzados \subseteq cruzados'
    BY Crecen
  <1>1. ASSUME NEW t \in Hilos, Salida(t), ~ (espera' \cup tomada' \subseteq espera \cup tomada)
        PROVE  Reservas'
    <2>1. PICK s : s = EnchufeDe(con[t])
      OBVIOUS
    <2>2. /\ espera' = espera \cup {<<s, Trabajo(con[t])>>} /\ tomada' = tomada
          /\ AnotarCruce(s, con[t], Trabajo(con[t]))
      BY <1>1, <2>1 DEF Salida
    <2>3. con[t] # s => Trabajo(con[t]) \in cruzados'
      BY <2>2 DEF AnotarCruce
    <2>4. QED
      BY <1>0, <2>2, <2>3 DEF Reservas
  <1>2. ASSUME ~ \E t \in Hilos : Salida(t)
        PROVE  espera' \cup tomada' \subseteq espera \cup tomada
    <2>1. CASE PasoExterno
      BY <2>1 DEF PasoExterno, Pedir, Soltar, ProvCierra, ProvConcede, ProvDeniega, ProvCae,
                  SinHost, proveedor
    <2>2. ASSUME NEW t \in Hilos, PasoLinea(t) PROVE UNCHANGED <<espera, tomada>>
      BY <2>2 DEF PasoLinea, AtenderPlanificador, TomarPedido, TomarLiberacion,
                  LiberacionVacia, Registrar, Armar, Cortar, proveedor
    <2>3. ASSUME NEW t \in Hilos, PasoConexion(t) PROVE UNCHANGED <<espera, tomada>>
      BY <1>2, <2>3 DEF PasoConexion, Leer, Marcar, Mirar, Avisar, Rearmar, Purgar, Cerrar,
                        Evento, FinDeVecino, proveedor
    <2>4. CASE UNCHANGED vars
      BY <2>4 DEF vars, proveedor
    <2>5. QED
      BY <2>1, <2>2, <2>3, <2>4, Casos
  <1>3. QED
    BY <1>0, <1>1, <1>2 DEF Reservas

\* Closing a number, or reading from it, leaves no new answers.
LEMMA CartasCerrar ==
    ASSUME TypeOK, NEW n, CerrarFd(n), NEW c \in Contextos
    PROVE  ToSet(buzon'[c]) \subseteq ToSet(buzon[c])
  <1>1. CASE n \in Descriptores /\ enchufe[n] # Nulo
    <2>1. buzon'[c] = buzon[c] \/ buzon'[c] = <<>>
      BY <1>1 DEF CerrarFd, TypeOK
    <2>2. ToSet(<<>>) = {}
      BY DEF ToSet
    <2>3. QED
      BY <2>1, <2>2
  <1>2. CASE ~ (n \in Descriptores /\ enchufe[n] # Nulo)
    BY <1>2 DEF CerrarFd
  <1>3. QED
    BY <1>1, <1>2

\* The answers a thread leaves on a socket were there.
LEMMA CartasHilo ==
    ASSUME IInv, NEW t \in Hilos, PasoLinea(t) \/ PasoConexion(t), NEW c \in Contextos
    PROVE  ToSet(buzon'[c]) \subseteq ToSet(buzon[c])
  <1>0. TypeOK
    BY DEF IInv
  <1>1. CASE Leer(t)
    <2>1. PICK s : s = EnchufeDe(con[t])
      OBVIOUS
    <2>2. CASE HayLinea(s) /\ buzon' = [buzon EXCEPT ![s] = Tail(@)]
      <3>1. buzon[c] \in Seq([clase : {"GRANTED", "DENIED"}, job : Trabajos])
        BY <1>0 DEF TypeOK
      <3>2. CASE c = s
        <4>1. buzon'[c] = Tail(buzon[c]) /\ buzon[c] # <<>>
          BY <1>0, <2>2, <3>2 DEF TypeOK, HayLinea
        <4>2. \A i \in DOMAIN Tail(buzon[c]) :
                 i + 1 \in DOMAIN buzon[c] /\ Tail(buzon[c])[i] = buzon[c][i + 1]
          BY <3>1, <4>1, RestoDeLineas
        <4>3. QED
          BY <4>1, <4>2 DEF ToSet
      <3>3. CASE c # s
        BY <1>0, <2>2, <3>3 DEF TypeOK
      <3>4. QED
        BY <3>2, <3>3
    <2>3. CASE UNCHANGED buzon
      BY <2>3
    <2>4. QED
      BY <1>1, <2>1, <2>2, <2>3 DEF Leer
  <1>2. CASE Cortar(t) \/ Cerrar(t)
    <2>1. \E n : CerrarFd(n)
      BY <1>2 DEF Cortar, Cerrar
    <2>2. QED
      BY <1>0, <2>1, CartasCerrar
  <1>3. CASE ~ Leer(t) /\ ~ Cortar(t) /\ ~ Cerrar(t)
    <2>1. UNCHANGED buzon
      BY <1>3 DEF PasoLinea, AtenderPlanificador, TomarPedido, TomarLiberacion,
                  LiberacionVacia, Registrar, Armar, PasoConexion, Salida, Marcar, Mirar,
                  Avisar, Rearmar, Purgar, Evento, FinDeVecino
    <2>2. QED
      BY <2>1
  <1>4. QED
    BY <1>1, <1>2, <1>3

\* An answer stays in order.
LEMMA CartaSigue ==
    ASSUME IInv, [Next]_vars, NEW c \in Contextos, NEW m, Carta(c, m)
    PROVE  Carta(c, m)'
  BY Crecen, FirmeSigue DEF Carta

\* Whatever is on its way back was asked for, and a GRANTED was reserved.
LEMMA CartasSiguen ==
    ASSUME IInv, Reservas, Cartas, [Next]_vars
    PROVE  Cartas'
  <1>0. TypeOK
    BY DEF IInv
  <1>1. ASSUME NEW c \in Contextos, ToSet(buzon'[c]) \subseteq ToSet(buzon[c]),
               NEW m \in ToSet(buzon'[c])
        PROVE  Carta(c, m)'
    BY <1>1, CartaSigue DEF Cartas
  <1>2. ASSUME NEW c \in Contextos, NEW j \in Trabajos, NEW k, Responder(c, j, k),
               Carta(c, Msg(k, j))'
        PROVE  Cartas'
    <2>1. SUFFICES ASSUME NEW d \in Contextos, NEW m \in ToSet(buzon'[d]) PROVE Carta(d, m)'
      BY DEF Cartas
    <2>2. CASE d = c /\ buzon' = [buzon EXCEPT ![c] = Append(@, Msg(k, j))]
      <3>1. buzon'[d] = Append(buzon[d], Msg(k, j))
            /\ buzon[d] \in Seq([clase : {"GRANTED", "DENIED"}, job : Trabajos])
        BY <1>0, <2>2 DEF TypeOK
      <3>2. m \in ToSet(buzon[d]) \/ m = Msg(k, j)
        BY <3>1 DEF ToSet
      <3>3. QED
        BY <1>2, <2>2, <3>2, CartaSigue DEF Cartas
    <2>3. CASE ~ (d = c /\ buzon' = [buzon EXCEPT ![c] = Append(@, Msg(k, j))])
      <3>1. buzon'[d] = buzon[d]
        BY <1>0, <1>2, <2>3 DEF Responder, TypeOK
      <3>2. QED
        BY <1>1, <3>1
    <2>4. QED
      BY <2>2, <2>3
  <1>3. ASSUME NEW c \in Contextos, NEW j \in Trabajos, <<c, j>> \in espera
        PROVE  j = Trabajo(c) \/ j \in cruzados
    BY <1>3 DEF Reservas
  <1>4. ASSUME NEW c \in Contextos, NEW j \in Trabajos, ProvConcede(c, j) PROVE Cartas'
    <2>1. <<c, j>> \in espera /\ tomada' = tomada \cup {<<c, j>>} /\ cruzados' = cruzados
          /\ Responder(c, j, "GRANTED")
      BY <1>4 DEF ProvConcede, historia
    <2>2. Carta(c, Msg("GRANTED", j))'
      BY <1>3, <2>1 DEF Carta, Msg, Firme
    <2>3. QED
      BY <1>2, <2>1, <2>2
  <1>5. ASSUME NEW c \in Contextos, NEW j \in Trabajos, ProvDeniega(c, j) PROVE Cartas'
    <2>1. <<c, j>> \in espera /\ cruzados' = cruzados /\ Responder(c, j, "DENIED")
      BY <1>5 DEF ProvDeniega, historia
    <2>2. Carta(c, Msg("DENIED", j))'
      BY <1>3, <2>1 DEF Carta, Msg
    <2>3. QED
      BY <1>2, <2>1, <2>2
  <1>6. CASE \/ \E j \in Trabajos : Pedir(j) \/ Soltar(j)
             \/ \E c \in Contextos : ProvCierra(c)
             \/ \E n \in Caidas : ProvCae(n)
    <2>1. UNCHANGED buzon
      BY <1>6 DEF Pedir, Soltar, ProvCierra, ProvCae
    <2>2. QED
      BY <1>1, <2>1 DEF Cartas
  <1>7. ASSUME NEW t \in Hilos, PasoLinea(t) \/ PasoConexion(t) PROVE Cartas'
    BY <1>1, <1>7, CartasHilo DEF Cartas
  <1>8. CASE UNCHANGED vars
    BY <1>1, <1>8 DEF Cartas, vars
  <1>9. QED
    BY <1>4, <1>5, <1>6, <1>7, <1>8, Casos DEF PasoExterno

\* A GRANTED that is read was reserved on the connection it is read from.
LEMMA ManosSiguen ==
    ASSUME IInv, Cartas, Manos, [Next]_vars
    PROVE  Manos'
  <1>0. TypeOK /\ ConEnUso
    BY DEF IInv
  <1> SUFFICES ASSUME NEW h \in Hilos, pc'[h] \in {"marcar", "mirar", "avisar"}
               PROVE  EnMano(h)'
    BY DEF Manos
  <1>a. cruzados \subseteq cruzados'
    BY Crecen
  <1>1. CASE Leer(h) /\ pc'[h] = "marcar" /\ con'[h] = con[h]
    <2>1. PICK s : s = EnchufeDe(con[h])
      OBVIOUS
    <2>2. pc[h] = "leer" /\ con[h] \in Contextos
      BY <1>0, <1>1 DEF Leer, ConEnUso, EnConexion, TypeOK
    <2>3. HayLinea(s)
      BY <1>0, <1>1, <2>1 DEF Leer, Ir, TypeOK
    <2>4. PICK m : m = Head(buzon[s])
      OBVIOUS
    <2>5. /\ trab' = [trab EXCEPT ![h] = m.job] /\ AnotarCruce(s, con[h], m.job)
          /\ pc' = [pc EXCEPT ![h] = IF m.clase = "GRANTED" THEN "marcar" ELSE "negar"]
      BY <1>1, <2>1, <2>3, <2>4 DEF Leer, Ir
    <2>6. trab'[h] = m.job /\ m.clase = "GRANTED"
      BY <1>0, <1>1, <2>5 DEF TypeOK
    <2>7. CASE s # con[h]
      <3>1. m.job \in cruzados'
        BY <2>5, <2>7 DEF AnotarCruce
      <3>2. QED
        BY <2>6, <3>1 DEF EnMano
    <2>8. CASE s = con[h]
      <3>1. /\ buzon[s] \in Seq([clase : {"GRANTED", "DENIED"}, job : Trabajos])
            /\ buzon[s] # <<>>
        BY <1>0, <2>3 DEF TypeOK, HayLinea
      <3>2. m \in ToSet(buzon[s])
        BY <2>4, <3>1, RestoDeLineas DEF ToSet
      <3>3. Carta(s, m)'
        BY <2>2, <2>8, <3>2, CartaSigue DEF Cartas
      <3>4. QED
        BY <1>1, <2>6, <2>8, <3>3 DEF Carta, EnMano
    <2>9. QED
      BY <2>7, <2>8
  <1>2. CASE /\ pc[h] \in {"marcar", "mirar", "avisar"} /\ con'[h] = con[h]
             /\ trab'[h] = trab[h]
    <2>1. EnMano(h) /\ con[h] \in Contextos
      BY <1>0, <1>2 DEF Manos, ConEnUso, EnConexion, TypeOK
    <2>2. PICK c \in Contextos : c = con[h]
      BY <2>1
    <2>3. Firme(c) => Firme(c)'
      BY FirmeSigue
    <2>4. QED
      BY <1>2, <1>a, <2>1, <2>2, <2>3 DEF EnMano
  <1>3. QED
    BY <1>1, <1>2, EnManoDe DEF Marcar, Mirar

\* An entry that is marked has its reservation.
LEMMA MarcadasSiguen ==
    ASSUME IInv, Manos, Marcadas, [Next]_vars
    PROVE  Marcadas'
  <1>0. TypeOK /\ Creacion /\ ConEnUso
    BY DEF IInv
  <1>a. /\ \A c \in Contextos : Trabajo(c) \in Trabajos
        /\ \A c \in Contextos : Firme(c) \/ Perturbado(Trabajo(c)) =>
              Firme(c)' \/ Perturbado(Trabajo(c))'
    BY PartesDeContexto, FirmeSigue
  <1>1. ASSUME \A c \in Contextos : entrada'[c] = "concedida" => entrada[c] = "concedida"
        PROVE  Marcadas'
    BY <1>1, <1>a DEF Marcadas
  <1>2. CASE PasoExterno
    BY <1>1, <1>2, MarcoExterno
  <1>3. ASSUME NEW t \in Hilos, PasoLinea(t) PROVE Marcadas'
    <2>1. CASE Registrar(t)
      <3>1. \E x : entrada' = [entrada EXCEPT ![x] = "pedida"]
        BY <2>1 DEF Registrar
      <3>2. QED
        BY <1>0, <1>1, <3>1 DEF TypeOK
    <2>2. CASE ~ Registrar(t)
      BY <1>1, <1>3, <2>2, EntradasLinea
    <2>3. QED
      BY <2>1, <2>2
  <1>4. ASSUME NEW t \in Hilos, Marcar(t) PROVE Marcadas'
    <2>1. pc[t] = "marcar" /\ con[t] \in Contextos /\ EnMano(t)
      BY <1>0, <1>4 DEF Marcar, ConEnUso, EnConexion, Manos, TypeOK
    <2>2. CASE EntradaDe(trab[t], con[t]) = {}
      BY <1>1, <1>4, <2>2 DEF Marcar
    <2>3. ASSUME NEW x \in EntradaDe(trab[t], con[t]),
                 entrada' = [entrada EXCEPT ![x] = "concedida"]
          PROVE  Marcadas'
      <3>1. /\ x \in Contextos /\ entrada[x] # "no" /\ Trabajo(x) = trab[t]
            /\ Destino(x) = Destino(con[t])
        BY <2>3 DEF EntradaDe, EntradasDe
      <3>2. Firme(x)' \/ Perturbado(Trabajo(x))'
        <4>1. CASE trab[t] \in cruzados
          BY <1>a, <3>1, <4>1 DEF Perturbado
        <4>2. CASE entrada[con[t]] = "no"
          <5>1. trab[t] \in tardias'
            BY <1>4, <2>1, <4>2 DEF Marcar, AnotarTardia
          <5>2. QED
            BY <3>1, <5>1 DEF Perturbado
        <4>3. CASE trab[t] \notin cruzados /\ entrada[con[t]] # "no"
          <5>1. Trabajo(con[t]) = Trabajo(x) /\ Firme(con[t])
            BY <2>1, <3>1, <4>3 DEF EnMano
          <5>2. con[t][2] = x[2]
            BY <1>0, <2>1, <3>1, <4>3, <5>1 DEF Creacion
          <5>3. con[t] = x
            BY <2>1, <3>1, <5>1, <5>2, PartesDeContexto
          <5>4. QED
            BY <1>a, <3>1, <5>1, <5>3
        <4>4. QED
          BY <4>1, <4>2, <4>3
      <3>3. \A c \in Contextos : c # x => entrada'[c] = entrada[c]
        BY <1>0, <2>3 DEF TypeOK
      <3>4. QED
        BY <1>a, <3>2, <3>3 DEF Marcadas
    <2>4. QED
      BY <1>4, <2>2, <2>3 DEF Marcar
  <1>5. ASSUME NEW t \in Hilos, PasoConexion(t) PROVE Marcadas'
    BY <1>1, <1>4, <1>5, EntradasConexion
  <1>6. CASE UNCHANGED vars
    BY <1>1, <1>6 DEF vars
  <1>7. QED
    BY <1>2, <1>3, <1>5, <1>6, Casos

-----------------------------------------------------------------------------
(* The line a thread goes through *)

\* Two lists with the same elements are of the same set.
LEMMA MismosElementos ==
    ASSUME NEW r, NEW s, \A i \in DOMAIN s : \E k \in DOMAIN r : s[i] = r[k],
           \A i \in DOMAIN r : \E k \in DOMAIN s : r[i] = s[k]
    PROVE  ToSet(r) = ToSet(s)
  BY DEF ToSet

\* The list after one turn: the first context is the last.
LEMMA Vuelta ==
    ASSUME NEW s \in Seq(Contextos), s # <<>>, NEW r, r = Append(Tail(s), Head(s))
    PROVE  /\ Len(s) \in Nat \ {0} /\ DOMAIN s = 1..Len(s) /\ DOMAIN r = 1..Len(s)
           /\ r[Len(s)] = s[1]
           /\ \A i \in DOMAIN r : i # Len(s) => i + 1 \in DOMAIN s /\ r[i] = s[i + 1]
           /\ ToSet(r) = ToSet(s)
           /\ IsInjective(s) => IsInjective(r)
  <1>1. /\ Tail(s) \in Seq(Contextos) /\ Head(s) = s[1] /\ Head(s) \in Contextos
        /\ Len(s) \in Nat \ {0} /\ DOMAIN s = 1..Len(s) /\ Len(Tail(s)) = Len(s) - 1
        /\ \A i \in DOMAIN Tail(s) : Tail(s)[i] = s[i + 1]
    BY RestoDeLineas, HeadTailProperties
  <1>2. DOMAIN r = 1..Len(s) /\ r[Len(s)] = s[1]
    BY <1>1
  <1>3. \A i \in DOMAIN r : i # Len(s) => i + 1 \in DOMAIN s /\ r[i] = s[i + 1]
    <2>1. SUFFICES ASSUME NEW i \in DOMAIN r, i # Len(s)
                   PROVE  i + 1 \in DOMAIN s /\ r[i] = s[i + 1]
      OBVIOUS
    <2>2. i \in 1..(Len(s) - 1)
      BY <1>1, <1>2, <2>1
    <2>3. i \in DOMAIN Tail(s) /\ r[i] = Tail(s)[i]
      BY <1>1, <2>2
    <2>4. QED
      BY <1>1, <2>2, <2>3
  <1>4. ToSet(r) = ToSet(s)
    <2>1. \A i \in DOMAIN s : i = 1 \/ (i - 1 \in DOMAIN r /\ i - 1 # Len(s) /\ (i - 1) + 1 = i)
      BY <1>1, <1>2
    <2>2. ASSUME NEW i \in DOMAIN s PROVE \E k \in DOMAIN r : s[i] = r[k]
      <3>1. CASE i = 1
        <4>1. Len(s) \in DOMAIN r
          BY <1>1, <1>2
        <4>2. QED
          BY <1>2, <3>1, <4>1
      <3>2. CASE i # 1
        <4>1. i - 1 \in DOMAIN r /\ r[i - 1] = s[i]
          BY <1>3, <2>1, <3>2
        <4>2. QED
          BY <4>1
      <3>3. QED
        BY <3>1, <3>2
    <2>3. \A i \in DOMAIN r : \E k \in DOMAIN s : r[i] = s[k]
      BY <1>1, <1>2, <1>3
    <2>4. QED
      BY <2>2, <2>3, MismosElementos
  <1>5. ASSUME IsInjective(s) PROVE IsInjective(r)
    <2>1. SUFFICES ASSUME NEW a \in DOMAIN r, NEW b \in DOMAIN r, r[a] = r[b] PROVE a = b
      BY DEF IsInjective
    <2>2. a \in Nat \ {0} /\ b \in Nat \ {0} /\ 1 \in DOMAIN s
      BY <1>1, <1>2
    <2>3. ASSUME NEW i \in DOMAIN s, NEW k \in DOMAIN s, s[i] = s[k] PROVE i = k
      BY <1>5, <2>3 DEF IsInjective
    <2>4. \A i \in DOMAIN r : \E k \in DOMAIN s :
             r[i] = s[k] /\ k = IF i = Len(s) THEN 1 ELSE i + 1
      BY <1>2, <1>3, <2>2
    <2>5. PICK k \in DOMAIN s : r[a] = s[k] /\ k = IF a = Len(s) THEN 1 ELSE a + 1
      BY <2>4
    <2>6. PICK m \in DOMAIN s : r[b] = s[m] /\ m = IF b = Len(s) THEN 1 ELSE b + 1
      BY <2>4
    <2>7. k = m
      BY <2>1, <2>3, <2>5, <2>6
    <2>8. QED
      BY <1>1, <2>2, <2>5, <2>6, <2>7
  <1>6. QED
    BY <1>1, <1>2, <1>3, <1>4, <1>5

\* The contexts of a line are all the contexts of the request, once.
LEMMA PedidoCompleto ==
    ASSUME NEW l, l.job \in Trabajos, l.intento \in 1..Intentos[l.job]
    PROVE  /\ IsInjective(Dependencias(l))
           /\ \A c \in Contextos : Trabajo(c) = l.job /\ c[2] = l.intento =>
                 c \in ToSet(Dependencias(l))
  <1>1. PICK p : p = Pide[l.job]
    OBVIOUS
  <1>2. p \in Seq(Destinos) /\ IsInjective(p)
    BY <1>1, PideAssumption
  <1>3. Dependencias(l) = [i \in DOMAIN p |-> <<l.job, l.intento, p[i]>>]
    BY <1>1 DEF Dependencias
  <1>4. IsInjective(Dependencias(l))
    BY <1>2, <1>3 DEF IsInjective
  <1>5. ASSUME NEW c \in Contextos, Trabajo(c) = l.job, c[2] = l.intento
        PROVE  c \in ToSet(Dependencias(l))
    <2>1. Destino(c) \in ToSet(p) /\ c = <<l.job, l.intento, Destino(c)>>
      BY <1>1, <1>5, PartesDeContexto
    <2>2. PICK i \in DOMAIN p : p[i] = Destino(c)
      BY <2>1 DEF ToSet
    <2>3. QED
      BY <1>3, <2>1, <2>2 DEF ToSet
  <1>6. QED
    BY <1>4, <1>5

\* Recorrido for one thread and its job.
RecorridoBien(t, j) ==
    /\ \A c \in Contextos : Trabajo(c) = j /\ c[2] = intento[j] => c \in ToSet(lista[t])
    /\ IsInjective(lista[t])
    /\ \A i, k \in DOMAIN lista[t] :
          i < k /\ tipo[lista[t][k]] = "sin_crear" => tipo[lista[t][i]] = "sin_crear"
    /\ \A c \in ToSet(lista[t]) :
          tipo[c] # "sin_crear" => entrada[c] # "no" \/ c \in olvidadas

\* Recorrido, thread by thread.
LEMMA RecorridoUnoAUno ==
    /\ EnCreacion /\ Recorrido =>
          \A t \in Hilos : pc[t] \in {"pedir", "armar"} =>
              \E j \in Trabajos : trab[t] = j /\ RecorridoBien(t, j)
    /\ (\A t \in Hilos : pc'[t] \in {"pedir", "armar"} =>
              \E j \in Trabajos : trab'[t] = j /\ RecorridoBien(t, j)')
          => Recorrido'
  BY DEF EnCreacion, Recorrido, RecorridoBien

\* A step that leaves lists, contexts and attempts alone, and forgets no entry
\* but by a purge.
LEMMA RecorridoIgual ==
    ASSUME TypeOK, NEW t \in Hilos, NEW j \in Trabajos, RecorridoBien(t, j),
           lista'[t] = lista[t], intento'[j] = intento[j],
           \A c \in Contextos : tipo'[c] = "sin_crear" <=> tipo[c] = "sin_crear",
           \A c \in Contextos : entrada[c] # "no" => entrada'[c] # "no" \/ c \in olvidadas',
           olvidadas \subseteq olvidadas'
    PROVE  RecorridoBien(t, j)'
  <1>1. lista[t] \in Seq(Contextos)
    BY DEF TypeOK
  <1>2. \A i \in DOMAIN lista[t] : lista[t][i] \in Contextos
    BY <1>1
  <1>3. ToSet(lista[t]) \subseteq Contextos
    BY <1>2 DEF ToSet
  <1>4. QED
    BY <1>2, <1>3 DEF RecorridoBien

\* Every step keeps the line a thread goes through in order.
LEMMA RecorridoSigue ==
    ASSUME IInv, Recorrido, [Next]_vars
    PROVE  Recorrido'
  <1>0. TypeOK /\ UnaLinea /\ EnCreacion
    BY DEF IInv
  <1>a. \A t \in Hilos : pc[t] \in {"pedir", "armar"} =>
           \E j \in Trabajos : trab[t] = j /\ RecorridoBien(t, j)
    BY <1>0, RecorridoUnoAUno
  <1>b. olvidadas \subseteq olvidadas'
    BY Crecen
  <1>1. ASSUME UNCHANGED <<entrada, tipo, pc, trab, lista>>,
               \A t \in Hilos : pc[t] \in {"pedir", "armar"} =>
                   intento'[trab[t]] = intento[trab[t]]
        PROVE  Recorrido'
    <2>1. ASSUME NEW t \in Hilos, pc'[t] \in {"pedir", "armar"}
          PROVE  \E j \in Trabajos : trab'[t] = j /\ RecorridoBien(t, j)'
      <3>1. PICK j \in Trabajos : trab[t] = j /\ RecorridoBien(t, j)
        BY <1>1, <1>a, <2>1
      <3>2. intento'[j] = intento[j]
        BY <1>1, <2>1, <3>1
      <3>3. RecorridoBien(t, j)'
        BY <1>0, <1>1, <1>b, <3>1, <3>2, RecorridoIgual
      <3>4. QED
        BY <1>1, <3>1, <3>3
    <2>2. QED
      BY <2>1, RecorridoUnoAUno
  <1>2. CASE PasoExterno
    <2>1. UNCHANGED <<entrada, tipo, pc, trab, lista>>
      BY <1>2, MarcoExterno
    <2>2. ASSUME NEW t \in Hilos, pc[t] \in {"pedir", "armar"}
          PROVE  intento'[trab[t]] = intento[trab[t]]
      <3>1. CASE \E k \in Trabajos : Pedir(k)
        <4>1. PICK k \in Trabajos : Pedir(k)
          BY <3>1
        <4>2. trab[t] # k
          BY <2>2, <4>1 DEF Pedir, SinLineasDe
        <4>3. intento' = [intento EXCEPT ![k] = @ + 1]
          BY <4>1 DEF Pedir
        <4>4. QED
          BY <1>0, <4>2, <4>3 DEF TypeOK
      <3>2. CASE ~ \E k \in Trabajos : Pedir(k)
        <4>1. UNCHANGED intento
          BY <1>2, <3>2 DEF PasoExterno, Soltar, ProvCierra, ProvConcede, ProvDeniega,
                            ProvCae, planif
        <4>2. QED
          BY <4>1
      <3>3. QED
        BY <3>1, <3>2
    <2>3. QED
      BY <1>1, <2>1, <2>2
  <1>3. ASSUME NEW h \in Hilos, PasoConexion(h) PROVE Recorrido'
    <2>1. /\ UNCHANGED <<intento, lista>> /\ pc'[h] \notin {"pedir", "armar"}
          /\ \A t \in Hilos \ {h} : pc'[t] = pc[t] /\ trab'[t] = trab[t]
      BY <1>3, MarcoHilo DEF EnLinea
    <2>2. ASSUME NEW t \in Hilos, pc'[t] \in {"pedir", "armar"}
          PROVE  \E j \in Trabajos : trab'[t] = j /\ RecorridoBien(t, j)'
      <3>1. PICK j \in Trabajos : trab[t] = j /\ RecorridoBien(t, j)
        BY <1>a, <2>1, <2>2
      <3>2. RecorridoBien(t, j)'
        BY <1>0, <1>3, <1>b, <2>1, <3>1, RecorridoIgual, MarcoDatos, EntradasConexion
      <3>3. QED
        BY <2>1, <2>2, <3>1, <3>2
    <2>3. QED
      BY <2>2, RecorridoUnoAUno
  <1>4. ASSUME NEW t \in Hilos, TomarPedido(t) PROVE Recorrido'
    <2>1. PICK l : l = Head(lineas)
      OBVIOUS
    <2>2. PICK j : j = l.job
      OBVIOUS
    <2>3. LeerLinea(t, "JOB_REQUEST") /\ UNCHANGED <<intento, tipo, entrada>>
      BY <1>4 DEF TomarPedido, contexto
    <2>4. /\ j \in Trabajos /\ l.intento = intento[j] /\ l.intento \in 1..Intentos[j]
          /\ Nuevo(j)
      BY <2>1, <2>2, <2>3, PedidoLeido DEF IInv
    <2>5. /\ Dependencias(l) \in Seq(Contextos) /\ IsInjective(Dependencias(l))
          /\ \A c \in ToSet(Dependencias(l)) :
                c \in Contextos /\ Trabajo(c) = j /\ c[2] = intento[j]
          /\ \A c \in Contextos :
                Trabajo(c) = j /\ c[2] = intento[j] => c \in ToSet(Dependencias(l))
      BY <2>2, <2>4, ContextosDePedido, PedidoCompleto
    <2>6. /\ pc' = [pc EXCEPT ![t] = "pedir"] /\ trab' = [trab EXCEPT ![t] = j]
          /\ lista' = [lista EXCEPT ![t] = Dependencias(l)]
      BY <1>4, <2>1, <2>2 DEF TomarPedido, Ir
    <2>7. /\ lista'[t] = Dependencias(l) /\ trab'[t] = j
          /\ \A h \in Hilos : h # t => pc'[h] \notin {"pedir", "armar"}
      BY <1>0, <2>3, <2>6 DEF TypeOK, UnaLinea, LeerLinea, EnLinea
    <2>8. \A c \in ToSet(Dependencias(l)) : tipo'[c] = "sin_crear"
      BY <2>3, <2>4, <2>5 DEF Nuevo
    <2>9. \A i \in DOMAIN Dependencias(l) : tipo'[Dependencias(l)[i]] = "sin_crear"
      BY <2>8 DEF ToSet
    <2>10. RecorridoBien(t, j)'
      BY <2>3, <2>5, <2>7, <2>8, <2>9 DEF RecorridoBien
    <2>11. QED
      BY <2>4, <2>7, <2>10, RecorridoUnoAUno
  <1>5. ASSUME NEW t \in Hilos, TomarLiberacion(t) \/ LiberacionVacia(t) PROVE Recorrido'
    <2>1. /\ erlang
          /\ pc' = [pc EXCEPT ![t] = "cortar"] \/ pc' = pc
      BY <1>5 DEF TomarLiberacion, LiberacionVacia, LeerLinea, hilo, Ir
    <2>2. QED
      BY <1>0, <2>1 DEF Recorrido, UnaLinea, EnLinea, TypeOK
  <1>6. ASSUME NEW t \in Hilos, Registrar(t) PROVE Recorrido'
    <2>1. PICK x : x = Head(lista[t])
      OBVIOUS
    <2>2. /\ x \in Contextos /\ pc[t] = "pedir" /\ tipo[x] = "sin_crear"
          /\ tipo' = [tipo EXCEPT ![x] = "saliente"]
      BY <1>6, <2>1, TipoLinea DEF PasoLinea
    <2>3. PICK j \in Trabajos : trab[t] = j /\ RecorridoBien(t, j)
      BY <1>a, <2>2
    <2>4. PICK s \in Seq(Contextos) : s = lista[t]
      BY <1>0 DEF TypeOK
    <2>5. s # <<>>
      BY <1>0, <2>2, <2>4 DEF UnaLinea, EnLinea
    <2>6. PICK r : r = Append(Tail(s), Head(s))
      OBVIOUS
    <2>7. /\ UNCHANGED <<intento, trab, olvidadas>>
          /\ entrada' = [entrada EXCEPT ![x] = "pedida"]
          /\ lista' = [lista EXCEPT ![t] = Append(Tail(lista[t]), x)]
          /\ \E m : pc' = [pc EXCEPT ![t] = m]
      BY <1>6, <2>1 DEF Registrar, planif, historia, Ir
    <2>8. /\ lista'[t] = r /\ trab'[t] = j /\ s[1] = x
          /\ \A h \in Hilos : h # t => pc'[h] \notin {"pedir", "armar"}
      <3>1. lista'[t] = r
        BY <1>0, <2>1, <2>4, <2>6, <2>7 DEF TypeOK
      <3>2. s[1] = x
        BY <2>1, <2>4, <2>5
      <3>3. \A h \in Hilos : h # t => pc'[h] \notin {"pedir", "armar"}
        BY <1>0, <2>2, <2>7 DEF TypeOK, UnaLinea, EnLinea
      <3>4. QED
        BY <2>3, <2>7, <3>1, <3>2, <3>3
    <2>9. /\ \A c \in Contextos : c # x => tipo'[c] = tipo[c] /\ entrada'[c] = entrada[c]
          /\ tipo'[x] = "saliente" /\ entrada'[x] = "pedida"
      BY <1>0, <2>2, <2>7 DEF TypeOK
    <2>10. /\ Len(s) \in Nat \ {0} /\ DOMAIN s = 1..Len(s) /\ DOMAIN r = 1..Len(s)
           /\ r[Len(s)] = s[1]
           /\ \A i \in DOMAIN r : i # Len(s) => i + 1 \in DOMAIN s /\ r[i] = s[i + 1]
           /\ ToSet(r) = ToSet(s)
           /\ IsInjective(s) => IsInjective(r)
      BY <2>5, <2>6, Vuelta
    <2>11. /\ IsInjective(s)
           /\ \A c \in Contextos : Trabajo(c) = j /\ c[2] = intento[j] => c \in ToSet(s)
           /\ \A i, k \in DOMAIN s :
                 i < k /\ tipo[s[k]] = "sin_crear" => tipo[s[i]] = "sin_crear"
           /\ \A c \in ToSet(s) : tipo[c] # "sin_crear" => entrada[c] # "no" \/ c \in olvidadas
      BY <2>3, <2>4 DEF RecorridoBien
    <2>12. ASSUME NEW i \in DOMAIN r, NEW k \in DOMAIN r, i < k, tipo'[r[k]] = "sin_crear"
           PROVE  tipo'[r[i]] = "sin_crear"
      <3>1. k # Len(s) /\ i # Len(s)
        BY <2>8, <2>9, <2>10, <2>12
      <3>2. i + 1 \in DOMAIN s /\ k + 1 \in DOMAIN s /\ r[i] = s[i + 1] /\ r[k] = s[k + 1]
        BY <2>10, <3>1
      <3>3. i + 1 < k + 1 /\ i + 1 # 1 /\ k + 1 # 1 /\ 1 \in DOMAIN s
        BY <2>10, <2>12
      <3>4. s[i + 1] # s[1] /\ s[k + 1] # s[1]
        BY <2>11, <3>2, <3>3 DEF IsInjective
      <3>5. s[i + 1] \in Contextos /\ s[k + 1] \in Contextos
        BY <3>2
      <3>6. tipo[s[k + 1]] = "sin_crear"
        BY <2>8, <2>9, <2>12, <3>2, <3>4, <3>5
      <3>7. tipo[s[i + 1]] = "sin_crear"
        BY <2>11, <3>2, <3>3, <3>6
      <3>8. QED
        BY <2>8, <2>9, <3>2, <3>4, <3>5, <3>7
    <2>13. ASSUME NEW c \in ToSet(r), tipo'[c] # "sin_crear"
           PROVE  entrada'[c] # "no" \/ c \in olvidadas'
      <3>1. c \in ToSet(s)
        BY <2>10
      <3>2. c \in Contextos
        BY <3>1 DEF ToSet
      <3>3. QED
        BY <2>7, <2>9, <2>11, <2>13, <3>1, <3>2
    <2>14. RecorridoBien(t, j)'
      BY <2>7, <2>8, <2>10, <2>11, <2>12, <2>13 DEF RecorridoBien
    <2>15. QED
      BY <2>3, <2>8, <2>14, RecorridoUnoAUno
  <1>7. ASSUME NEW t \in Hilos, Armar(t) \/ Cortar(t) PROVE Recorrido'
    <2>1. /\ pc[t] \in EnLinea
          /\ pc' = [pc EXCEPT ![t] = "libre"] \/ (pc' = pc /\ pc[t] = "cortar")
      BY <1>7 DEF Armar, Cortar, FinLinea, Volver, Ir, EnLinea
    <2>2. QED
      BY <1>0, <2>1 DEF Recorrido, UnaLinea, EnLinea, TypeOK
  <1>8. CASE UNCHANGED vars
    <2>1. UNCHANGED <<intento, entrada, tipo, pc, trab, lista>>
      BY <1>8 DEF vars, planif, contexto, hilo
    <2>2. QED
      BY <1>1, <2>1
  <1>9. QED
    BY <1>2, <1>3, <1>4, <1>5, <1>6, <1>7, <1>8, Casos
    DEF PasoLinea, AtenderPlanificador

\* What is left of the line once one context is created: the contexts of the
\* request are in it, and the ones to create come first.
LEMMA TrasRegistrar ==
    ASSUME IInv, Recorrido, [Next]_vars, NEW t \in Hilos, Registrar(t)
    PROVE  \E x \in Contextos :
             /\ pc[t] = "pedir" /\ trab[t] \in Trabajos
             /\ Trabajo(x) = trab[t] /\ x[2] = intento[trab[t]]
             /\ UNCHANGED <<intento, trab, olvidadas>>
             /\ tipo'[x] # "sin_crear" /\ entrada'[x] # "no"
             /\ \A c \in Contextos : c # x => tipo'[c] = tipo[c] /\ entrada'[c] = entrada[c]
             /\ \A c \in Contextos : Trabajo(c) = trab[t] /\ c[2] = intento[trab[t]] =>
                   /\ tipo[c] # "sin_crear" => entrada[c] # "no" \/ c \in olvidadas
                   /\ tipo'[c] = "sin_crear" => pc'[t] = "pedir"
  <1>0. TypeOK /\ UnaLinea /\ EnCreacion
    BY DEF IInv
  <1>1. PICK x : x = Head(lista[t])
    OBVIOUS
  <1>2. /\ x \in Contextos /\ pc[t] = "pedir" /\ tipo[x] = "sin_crear"
        /\ tipo' = [tipo EXCEPT ![x] = "saliente"]
    BY <1>1, TipoLinea DEF PasoLinea
  <1>3. /\ UNCHANGED <<intento, trab, olvidadas>>
        /\ entrada' = [entrada EXCEPT ![x] = "pedida"]
        /\ lista' = [lista EXCEPT ![t] = Append(Tail(lista[t]), x)]
        /\ pc' = [pc EXCEPT ![t] = IF tipo'[Head(lista'[t])] = "sin_crear"
                                   THEN "pedir" ELSE "armar"]
    BY <1>1 DEF Registrar, planif, historia, Ir
  <1>4. /\ \A c \in Contextos : c # x => tipo'[c] = tipo[c] /\ entrada'[c] = entrada[c]
        /\ tipo'[x] = "saliente" /\ entrada'[x] = "pedida"
    BY <1>0, <1>2, <1>3 DEF TypeOK
  <1>5. lista[t] \in Seq(Contextos) /\ lista[t] # <<>>
    BY <1>0, <1>2 DEF UnaLinea, EnLinea, TypeOK
  <1>6. /\ trab[t] \in Trabajos
        /\ \A c \in ToSet(lista[t]) : Trabajo(c) = trab[t] /\ c[2] = intento[trab[t]]
    BY <1>0, <1>2 DEF EnCreacion
  <1>7. x \in ToSet(lista[t])
    BY <1>1, <1>5, RestoDeLineas DEF ToSet
  <1>8. PICK r \in Seq(Contextos) : r = lista'[t]
    BY Tipos DEF TypeOK
  <1>9. ToSet(r) = ToSet(lista[t]) /\ r # <<>> /\ Head(r) = r[1]
    <2>1. r = Append(Tail(lista[t]), Head(lista[t]))
      BY <1>0, <1>1, <1>3, <1>8 DEF TypeOK
    <2>2. ToSet(r) = ToSet(lista[t]) /\ DOMAIN r = 1..Len(lista[t])
          /\ Len(lista[t]) \in Nat \ {0}
      BY <1>5, <2>1, Vuelta
    <2>3. r # <<>>
      BY <2>2
    <2>4. QED
      BY <1>8, <2>2, <2>3, RestoDeLineas
  <1>10. pc'[t] \in {"pedir", "armar"}
         /\ (pc'[t] = "pedir" <=> tipo'[r[1]] = "sin_crear")
    BY <1>0, <1>3, <1>8, <1>9 DEF TypeOK
  <1>11. ASSUME NEW c \in Contextos, c \in ToSet(lista[t]), tipo'[c] = "sin_crear"
         PROVE  pc'[t] = "pedir"
    <2>1. PICK k \in DOMAIN r : r[k] = c
      BY <1>9, <1>11 DEF ToSet
    <2>2. Recorrido'
      BY RecorridoSigue
    <2>3. \A i, m \in DOMAIN r :
             i < m /\ tipo'[r[m]] = "sin_crear" => tipo'[r[i]] = "sin_crear"
      BY <1>8, <1>10, <2>2 DEF Recorrido
    <2>4. 1 \in DOMAIN r /\ (k = 1 \/ 1 < k)
      BY <1>9
    <2>5. tipo'[r[1]] = "sin_crear"
      BY <1>11, <2>1, <2>3, <2>4
    <2>6. QED
      BY <1>10, <2>5
  <1>12. \A c \in Contextos : Trabajo(c) = trab[t] /\ c[2] = intento[trab[t]] =>
            /\ c \in ToSet(lista[t])
            /\ tipo[c] # "sin_crear" => entrada[c] # "no" \/ c \in olvidadas
    BY <1>2 DEF Recorrido
  <1>13. QED
    BY <1>2, <1>3, <1>4, <1>6, <1>7, <1>11, <1>12

\* The entries of a request come and go together, but for a purge.
LEMMA JuntasSiguen ==
    ASSUME IInv, Recorrido, Juntas, [Next]_vars
    PROVE  Juntas'
  <1>0. TypeOK /\ olvidadas \subseteq olvidadas'
    BY Crecen DEF IInv
  <1>1. ASSUME UNCHANGED <<entrada, tipo>> PROVE Juntas'
    BY <1>0, <1>1 DEF Juntas, Hermanas
  <1>2. CASE PasoExterno
    BY <1>1, <1>2, MarcoExterno
  <1>3. ASSUME NEW t \in Hilos, PasoConexion(t) PROVE Juntas'
    <2>1. \A c \in Contextos :
             /\ entrada'[c] # "no" => entrada[c] # "no"
             /\ tipo'[c] = "sin_crear" <=> tipo[c] = "sin_crear"
             /\ entrada[c] # "no" => entrada'[c] # "no" \/ c \in olvidadas'
      BY <1>3, MarcoDatos, EntradasConexion
    <2>2. QED
      BY <1>0, <2>1 DEF Juntas, Hermanas
  <1>4. ASSUME NEW t \in Hilos, PasoLinea(t), ~ Registrar(t) PROVE Juntas'
    <2>1. UNCHANGED tipo
      BY <1>4, TipoLinea
    <2>2. CASE UNCHANGED entrada
      BY <1>1, <2>1, <2>2
    <2>3. ASSUME NEW j, entrada' = [c \in Contextos |->
                                      IF c \in EntradasDe(j) THEN "no" ELSE entrada[c]]
          PROVE  Juntas'
      <3>1. \A c \in Contextos : entrada'[c] = IF Trabajo(c) = j THEN "no" ELSE entrada[c]
        BY <2>3 DEF EntradasDe
      <3>2. QED
        BY <1>0, <2>1, <3>1 DEF Juntas, Hermanas
    <2>4. QED
      BY <1>4, <2>2, <2>3, EntradasLinea
  <1>5. ASSUME NEW t \in Hilos, Registrar(t) PROVE Juntas'
    <2>1. PICK x \in Contextos :
             /\ Trabajo(x) = trab[t] /\ x[2] = intento[trab[t]]
             /\ UNCHANGED olvidadas
             /\ tipo'[x] # "sin_crear" /\ entrada'[x] # "no"
             /\ \A c \in Contextos : c # x => tipo'[c] = tipo[c] /\ entrada'[c] = entrada[c]
             /\ \A c \in Contextos : Trabajo(c) = trab[t] /\ c[2] = intento[trab[t]] =>
                   (tipo[c] # "sin_crear" => entrada[c] # "no" \/ c \in olvidadas)
      BY <1>5, TrasRegistrar
    <2>2. QED
      BY <2>1 DEF Juntas, Hermanas
  <1>6. CASE UNCHANGED vars
    BY <1>1, <1>6 DEF vars, contexto
  <1>7. QED
    BY <1>2, <1>3, <1>4, <1>5, <1>6, Casos

\* A request that is incomplete has a thread at work on its line.
EnObra(t, c) == pc[t] = "pedir" /\ trab[t] = Trabajo(c) /\ c[2] = intento[trab[t]]

\* Every step leaves an incomplete request to its thread.
LEMMA CompletasSiguen ==
    ASSUME IInv, Recorrido, Completas, [Next]_vars
    PROVE  Completas'
  <1>0. TypeOK /\ UnaLinea
    BY DEF IInv
  <1>a. \A c, d \in Contextos :
           Hermanas(c, d) /\ tipo[c] # "sin_crear" /\ tipo[d] = "sin_crear" =>
               \E t \in Hilos : EnObra(t, c)
    BY DEF Completas, EnObra
  <1>b. ASSUME \A c, d \in Contextos :
                  Hermanas(c, d) /\ tipo'[c] # "sin_crear" /\ tipo'[d] = "sin_crear" =>
                      \E t \in Hilos : EnObra(t, c)'
        PROVE  Completas'
    BY <1>b DEF Completas, EnObra, Hermanas
  <1>1. ASSUME \A c \in Contextos : tipo'[c] = "sin_crear" <=> tipo[c] = "sin_crear",
               \A t \in Hilos, c \in Contextos : EnObra(t, c) => EnObra(t, c)'
        PROVE  Completas'
    BY <1>1, <1>a, <1>b
  <1>2. CASE PasoExterno
    <2>1. UNCHANGED <<tipo, pc, trab>>
      BY <1>2, MarcoExterno
    <2>2. ASSUME NEW t \in Hilos, NEW c \in Contextos, EnObra(t, c) PROVE EnObra(t, c)'
      <3>1. CASE \E k \in Trabajos : Pedir(k)
        <4>1. PICK k \in Trabajos : Pedir(k)
          BY <3>1
        <4>2. trab[t] # k
          BY <2>2, <4>1 DEF Pedir, SinLineasDe, EnObra
        <4>3. intento' = [intento EXCEPT ![k] = @ + 1]
          BY <4>1 DEF Pedir
        <4>4. intento'[trab[t]] = intento[trab[t]]
          BY <1>0, <4>2, <4>3 DEF TypeOK
        <4>5. QED
          BY <2>1, <2>2, <4>4 DEF EnObra
      <3>2. CASE ~ \E k \in Trabajos : Pedir(k)
        <4>1. UNCHANGED intento
          BY <1>2, <3>2 DEF PasoExterno, Soltar, ProvCierra, ProvConcede, ProvDeniega,
                            ProvCae, planif
        <4>2. QED
          BY <2>1, <2>2, <4>1 DEF EnObra
      <3>3. QED
        BY <3>1, <3>2
    <2>3. QED
      BY <1>1, <2>1, <2>2
  <1>3. ASSUME NEW h \in Hilos, PasoConexion(h) PROVE Completas'
    <2>1. /\ UNCHANGED intento /\ pc[h] # "pedir"
          /\ \A t \in Hilos \ {h} : pc'[t] = pc[t] /\ trab'[t] = trab[t]
          /\ \A c \in Contextos : tipo'[c] = "sin_crear" <=> tipo[c] = "sin_crear"
      BY <1>3, MarcoHilo, MarcoDatos DEF EnLinea
    <2>2. \A t \in Hilos, c \in Contextos : EnObra(t, c) => EnObra(t, c)'
      BY <2>1 DEF EnObra
    <2>3. QED
      BY <1>1, <2>1, <2>2
  <1>4. ASSUME NEW h \in Hilos, PasoLinea(h), ~ Registrar(h) PROVE Completas'
    <2>1. UNCHANGED tipo
      BY <1>4, TipoLinea
    <2>2. \A t \in Hilos : pc[t] # "pedir"
      <3>1. CASE AtenderPlanificador(h)
        BY <1>0, <3>1 DEF AtenderPlanificador, TomarPedido, TomarLiberacion,
                          LiberacionVacia, LeerLinea, UnaLinea, EnLinea
      <3>2. CASE Armar(h) \/ Cortar(h)
        <4>1. pc[h] \in EnLinea /\ pc[h] # "pedir"
          BY <3>2 DEF Armar, Cortar, EnLinea
        <4>2. QED
          BY <1>0, <4>1 DEF UnaLinea, EnLinea
      <3>3. QED
        BY <1>4, <3>1, <3>2 DEF PasoLinea
    <2>3. QED
      BY <1>1, <2>1, <2>2 DEF EnObra
  <1>5. ASSUME NEW h \in Hilos, Registrar(h) PROVE Completas'
    <2>1. PICK x \in Contextos :
             /\ pc[h] = "pedir"
             /\ Trabajo(x) = trab[h] /\ x[2] = intento[trab[h]]
             /\ UNCHANGED <<intento, trab>>
             /\ tipo'[x] # "sin_crear"
             /\ \A c \in Contextos : c # x => tipo'[c] = tipo[c]
             /\ \A c \in Contextos : Trabajo(c) = trab[h] /\ c[2] = intento[trab[h]] =>
                   (tipo'[c] = "sin_crear" => pc'[h] = "pedir")
      BY <1>5, TrasRegistrar
    <2>2. \A t \in Hilos : pc[t] = "pedir" => t = h
      BY <1>0, <2>1 DEF UnaLinea, EnLinea
    <2>3. ASSUME NEW c \in Contextos, NEW d \in Contextos, Hermanas(c, d),
                 tipo'[c] # "sin_crear", tipo'[d] = "sin_crear"
          PROVE  EnObra(h, c)'
      <3>1. d # x /\ tipo[d] = "sin_crear"
        BY <2>1, <2>3
      <3>2. Trabajo(c) = trab[h] /\ c[2] = intento[trab[h]]
        <4>1. CASE c = x
          BY <2>1, <4>1
        <4>2. CASE c # x
          <5>1. tipo[c] # "sin_crear"
            BY <2>1, <2>3, <4>2
          <5>2. PICK t \in Hilos : EnObra(t, c)
            BY <1>a, <2>3, <3>1, <5>1
          <5>3. QED
            BY <2>2, <5>2 DEF EnObra
        <4>3. QED
          BY <4>1, <4>2
      <3>3. pc'[h] = "pedir"
        BY <2>1, <2>3, <3>2 DEF Hermanas
      <3>4. QED
        BY <2>1, <3>2, <3>3 DEF EnObra
    <2>4. QED
      BY <1>b, <2>3
  <1>6. CASE UNCHANGED vars
    <2>1. UNCHANGED <<intento, tipo, pc, trab>>
      BY <1>6 DEF vars, planif, contexto, hilo
    <2>2. QED
      BY <1>1, <2>1 DEF EnObra
  <1>7. QED
    BY <1>2, <1>3, <1>4, <1>5, <1>6, Casos

-----------------------------------------------------------------------------
(* The planner is told when all is there *)

\* When every entry of a job is marked, its request is complete, and every
\* context of it has its reservation, or the job was disturbed.
LEMMA TodoFirme ==
    ASSUME IInv, Manos, Marcadas, Recorrido, Juntas, Completas,
           NEW t \in Hilos, pc[t] = "mirar", TodoConcedido(trab[t]), entrada[con[t]] # "no"
    PROVE  Perturbado(trab[t]) \/ \A c \in Contextos : Hermanas(c, con[t]) => Firme(c)
  <1>0. TypeOK /\ ConEnUso /\ Creacion /\ EnCreacion
    BY DEF IInv
  <1>1. con[t] \in Contextos /\ EnMano(t) /\ tipo[con[t]] # "sin_crear"
    <2>1. con[t] # Nulo /\ con[t] \in Contextos \cup {Nulo}
      BY <1>0 DEF ConEnUso, EnConexion, TypeOK
    <2>2. QED
      BY <1>0, <2>1 DEF Manos, ConEnUso
  <1>2. SUFFICES ASSUME ~ Perturbado(trab[t]), NEW c \in Contextos, Hermanas(c, con[t])
                 PROVE  Firme(c)
    OBVIOUS
  <1>3. Trabajo(con[t]) = trab[t] /\ Trabajo(c) = trab[t] /\ c[2] = con[t][2]
    BY <1>1, <1>2 DEF EnMano, Perturbado, Hermanas
  <1>4. \A h \in Hilos : ~ EnObra(h, con[t])
    <2>1. SUFFICES ASSUME NEW h \in Hilos, EnObra(h, con[t]) PROVE FALSE
      OBVIOUS
    <2>2. con[t] \in ToSet(lista[h])
      BY <1>1, <2>1 DEF EnObra, Recorrido
    <2>3. SinManos(con[t])
      BY <1>0, <2>1, <2>2 DEF EnObra, EnCreacion
    <2>4. QED
      BY <2>3 DEF SinManos
  <1>5. tipo[c] # "sin_crear"
    BY <1>1, <1>3, <1>4 DEF Completas, EnObra, Hermanas
  <1>6. entrada[c] # "no"
    <2>1. entrada[c] # "no" \/ c \in olvidadas
      BY <1>1, <1>2, <1>5 DEF Juntas, Hermanas
    <2>2. QED
      BY <1>2, <1>3, <2>1 DEF Perturbado
  <1>7. entrada[c] = "concedida"
    BY <1>3, <1>6 DEF TodoConcedido, EntradasDe
  <1>8. QED
    BY <1>2, <1>3, <1>7 DEF Marcadas

\* No entry comes for a context that exists.
LEMMA SinEntradaSigue ==
    ASSUME IInv, [Next]_vars, NEW c \in Contextos, tipo[c] # "sin_crear", entrada[c] = "no"
    PROVE  entrada'[c] = "no"
  <1>0. TypeOK
    BY DEF IInv
  <1>1. CASE PasoExterno
    BY <1>1, MarcoExterno
  <1>2. ASSUME NEW t \in Hilos, PasoLinea(t) PROVE entrada'[c] = "no"
    <2>1. CASE Registrar(t)
      <3>1. PICK x : x = Head(lista[t])
        OBVIOUS
      <3>2. x # c /\ entrada' = [entrada EXCEPT ![x] = "pedida"]
        BY <1>2, <2>1, <3>1, TipoLinea DEF Registrar
      <3>3. QED
        BY <1>0, <3>2 DEF TypeOK
    <2>2. CASE ~ Registrar(t)
      BY <1>2, <2>2, EntradasLinea
    <2>3. QED
      BY <2>1, <2>2
  <1>3. ASSUME NEW t \in Hilos, PasoConexion(t) PROVE entrada'[c] = "no"
    <2>1. entrada' \in [Contextos -> {"no", "pedida", "concedida"}]
      BY Tipos DEF TypeOK
    <2>2. QED
      BY <1>3, <2>1, MarcoDatos
  <1>4. CASE UNCHANGED vars
    BY <1>4 DEF vars
  <1>5. QED
    BY <1>1, <1>2, <1>3, <1>4, Casos

\* Who is about to tell the planner has looked at a complete request.
LEMMA AvisosSiguen ==
    ASSUME IInv, Manos, Marcadas, Recorrido, Juntas, Completas, Avisos, [Next]_vars
    PROVE  Avisos'
  <1>0. TypeOK /\ ConEnUso
    BY DEF IInv
  <1> SUFFICES ASSUME NEW h \in Hilos, pc'[h] = "avisar"
               PROVE  \/ entrada'[con'[h]] = "no"
                      \/ Perturbado(trab[h])'
                      \/ (\A c \in Contextos : Hermanas(c, con[h]) => Firme(c))'
    BY DEF Avisos
  <1>1. /\ con'[h] = con[h] /\ trab'[h] = trab[h]
        /\ pc[h] = "avisar" \/ (pc[h] = "mirar" /\ TodoConcedido(trab[h]))
    <2>1. CASE pc'[h] = pc[h] /\ con'[h] = con[h] /\ trab'[h] = trab[h]
      BY <2>1
    <2>2. CASE Mirar(h) /\ con'[h] = con[h] /\ trab'[h] = trab[h]
      BY <1>0, <2>2 DEF Mirar, Ir, TypeOK
    <2>3. CASE Marcar(h)
      BY <1>0, <2>3 DEF Marcar, Ir, TypeOK
    <2>4. QED
      BY <2>1, <2>2, <2>3, EnManoDe
  <1>2. PICK d \in Contextos : d = con[h] /\ tipo[d] # "sin_crear"
    <2>1. con[h] # Nulo /\ con[h] \in Contextos \cup {Nulo}
      BY <1>0, <1>1 DEF ConEnUso, EnConexion, TypeOK
    <2>2. QED
      BY <1>0, <2>1 DEF ConEnUso
  <1>3. PICK j : j = trab[h]
    OBVIOUS
  <1>4. \/ entrada[d] = "no"
        \/ Perturbado(j)
        \/ \A c \in Contextos : Hermanas(c, d) => Firme(c)
    <2>1. CASE pc[h] = "avisar"
      BY <1>2, <1>3, <2>1 DEF Avisos
    <2>2. CASE pc[h] = "mirar" /\ TodoConcedido(trab[h])
      BY <1>2, <1>3, <2>2, TodoFirme
    <2>3. QED
      BY <1>1, <2>1, <2>2
  <1>5. entrada[d] = "no" => entrada'[d] = "no"
    BY <1>2, SinEntradaSigue
  <1>6. Perturbado(j) => Perturbado(j)'
    BY Crecen DEF Perturbado
  <1>7. \A c \in Contextos : Firme(c) => Firme(c)'
    BY FirmeSigue
  <1>8. QED
    BY <1>1, <1>2, <1>3, <1>4, <1>5, <1>6, <1>7 DEF Hermanas

\* UsaLoReservado for one context.
Respaldo(c) ==
    estado[Trabajo(c)] = "usando" /\ c[2] = intento[Trabajo(c)] =>
        Firme(c) \/ Perturbado(Trabajo(c))

\* UsaLoReservado, context by context.
LEMMA RespaldoUnoAUno ==
    /\ UsaLoReservado <=> \A c \in Contextos : Respaldo(c)
    /\ UsaLoReservado' <=> \A c \in Contextos : Respaldo(c)'
  BY DEF UsaLoReservado, Respaldo, Firme

\* The planner is told of a job whose last request has all it asked for.
LEMMA RespaldoAlAvisar ==
    ASSUME IInv, Manos, Avisos, NEW t \in Hilos, Avisar(t), pc[t] = "avisar",
           [Next]_vars, NEW c \in Contextos, Trabajo(c) = trab[t],
           c[2] = intento[trab[t]]
    PROVE  Firme(c)' \/ Perturbado(Trabajo(c))'
  <1>0. TypeOK /\ ConEnUso /\ Creacion
    BY DEF IInv
  <1>1. con[t] \in Contextos /\ EnMano(t)
    BY <1>0 DEF ConEnUso, EnConexion, TypeOK, Manos
  <1>2. PICK j \in Trabajos : j = Trabajo(c)
    BY PartesDeContexto
  <1>3. CASE entrada[con[t]] = "no"
    <2>1. j \in tardias'
      BY <1>2, <1>3 DEF Avisar, AnotarTardia
    <2>2. QED
      BY <1>2, <2>1 DEF Perturbado
  <1>4. CASE Perturbado(j)
    BY <1>2, <1>4, FirmeSigue
  <1>5. CASE entrada[con[t]] # "no" /\ ~ Perturbado(j)
    <2>1. Trabajo(con[t]) = Trabajo(c)
      BY <1>1, <1>2, <1>5 DEF EnMano, Perturbado
    <2>2. con[t][2] = c[2]
      BY <1>0, <1>1, <1>5, <2>1 DEF Creacion
    <2>3. Firme(c)
      BY <1>2, <1>5, <2>1, <2>2 DEF Avisos, Hermanas
    <2>4. QED
      BY <2>3, FirmeSigue
  <1>6. QED
    BY <1>3, <1>4, <1>5

\* Every step leaves the jobs that run with what they asked for.
LEMMA RespaldoSigue ==
    ASSUME IInv, Manos, Avisos, UsaLoReservado, [Next]_vars
    PROVE  UsaLoReservado'
  <1>0. TypeOK
    BY DEF IInv
  <1>a. \A c \in Contextos : Trabajo(c) \in Trabajos
    BY PartesDeContexto
  <1>b. \A c \in Contextos : Firme(c) \/ Perturbado(Trabajo(c)) =>
           Firme(c)' \/ Perturbado(Trabajo(c))'
    BY <1>a, FirmeSigue
  <1>1. ASSUME NEW c \in Contextos,
               intento'[Trabajo(c)] = intento[Trabajo(c)] \/ estado'[Trabajo(c)] # "usando",
               estado'[Trabajo(c)] = "usando" => estado[Trabajo(c)] = "usando"
        PROVE  Respaldo(c)'
    BY <1>1, <1>b, RespaldoUnoAUno DEF Respaldo
  <1>2. ASSUME NEW k \in Trabajos, Pedir(k) PROVE UsaLoReservado'
    <2>1. /\ estado' = [estado EXCEPT ![k] = "pedido"]
          /\ intento' = [intento EXCEPT ![k] = @ + 1]
      BY <1>2 DEF Pedir
    <2>2. \A j \in Trabajos : /\ intento'[j] = intento[j] \/ estado'[j] # "usando"
                              /\ estado'[j] = "usando" => estado[j] = "usando"
      BY <1>0, <2>1 DEF TypeOK
    <2>3. QED
      BY <1>a, <1>1, <2>2, RespaldoUnoAUno
  <1>3. ASSUME NEW k \in Trabajos, Soltar(k) PROVE UsaLoReservado'
    <2>1. estado' = [estado EXCEPT ![k] = "libre"] /\ intento' = intento
      BY <1>3 DEF Soltar
    <2>2. \A j \in Trabajos : estado'[j] = "usando" => estado[j] = "usando"
      BY <1>0, <2>1 DEF TypeOK
    <2>3. QED
      BY <1>a, <1>1, <2>1, <2>2, RespaldoUnoAUno
  <1>4. ASSUME UNCHANGED <<estado, intento>> PROVE UsaLoReservado'
    BY <1>1, <1>4, RespaldoUnoAUno
  <1>5. CASE PasoExterno
    BY <1>2, <1>3, <1>4, <1>5
    DEF PasoExterno, ProvCierra, ProvConcede, ProvDeniega, ProvCae, planif
  <1>6. ASSUME NEW t \in Hilos, PasoLinea(t) PROVE UsaLoReservado'
    BY <1>4, <1>6, MarcoLinea
  <1>7. ASSUME NEW t \in Hilos, Avisar(t) PROVE UsaLoReservado'
    <2>1. intento' = intento
      BY <1>7 DEF Avisar
    <2>2. PICK m \in {"usando", "negado"} :
             /\ m = "usando" => pc[t] = "avisar"
             /\ \/ estado' = [estado EXCEPT ![trab[t]] = m]
                \/ estado' = estado
      <3>1. estado' = [estado EXCEPT ![trab[t]] =
                          IF estado[trab[t]] # "pedido" THEN estado[trab[t]]
                          ELSE IF pc[t] = "avisar" THEN "usando" ELSE "negado"]
        BY <1>7 DEF Avisar
      <3>2. CASE estado[trab[t]] # "pedido"
        <4>1. estado' = estado
          BY <1>0, <3>1, <3>2 DEF TypeOK
        <4>2. QED
          BY <4>1
      <3>3. CASE estado[trab[t]] = "pedido"
        BY <3>1, <3>3
      <3>4. QED
        BY <3>2, <3>3
    <2>3. ASSUME NEW c \in Contextos PROVE Respaldo(c)'
      <3>1. CASE Trabajo(c) = trab[t] /\ m = "usando" /\ c[2] = intento[trab[t]]
        <4>1. Firme(c)' \/ Perturbado(Trabajo(c))'
          BY <1>7, <2>2, <3>1, RespaldoAlAvisar
        <4>2. QED
          BY <4>1 DEF Respaldo
      <3>2. CASE Trabajo(c) = trab[t] /\ c[2] # intento[trab[t]]
        BY <2>1, <3>2 DEF Respaldo
      <3>3. CASE Trabajo(c) # trab[t] \/ m # "usando"
        <4>1. estado'[Trabajo(c)] = "usando" => estado[Trabajo(c)] = "usando"
          BY <1>0, <1>a, <2>2, <3>3 DEF TypeOK
        <4>2. QED
          BY <1>1, <2>1, <4>1
      <3>4. QED
        BY <3>1, <3>2, <3>3
    <2>4. QED
      BY <2>3, RespaldoUnoAUno
  <1>8. ASSUME NEW t \in Hilos, PasoConexion(t), ~ Avisar(t) PROVE UsaLoReservado'
    BY <1>4, <1>8 DEF PasoConexion, Salida, Leer, Marcar, Mirar, Rearmar, Purgar, Cerrar,
                      Evento, FinDeVecino, planif
  <1>9. CASE UNCHANGED vars
    BY <1>4, <1>9 DEF vars, planif
  <1>10. QED
    BY <1>5, <1>6, <1>7, <1>8, <1>9, Casos

-----------------------------------------------------------------------------
(* The theorem *)

\* Nothing was asked for yet.
LEMMA InicioUInv == Init => UInv
  <1> SUFFICES ASSUME Init PROVE UInv
    OBVIOUS
  <1>1. IInv
    BY InicioIInv
  <1>2. Reservas
    BY DEF Init, Reservas
  <1>3. Cartas
    <2>1. \A c \in Contextos : ToSet(buzon[c]) = {}
      BY DEF Init, ToSet
    <2>2. QED
      BY <2>1 DEF Cartas
  <1>4. Manos /\ Recorrido /\ Avisos
    BY DEF Init, Manos, Recorrido, Avisos
  <1>5. Marcadas /\ Juntas /\ Completas
    BY DEF Init, Marcadas, Juntas, Completas
  <1>6. UsaLoReservado
    <2>1. \A c \in Contextos : estado[Trabajo(c)] = "libre"
      BY PartesDeContexto DEF Init
    <2>2. QED
      BY <2>1 DEF UsaLoReservado
  <1>7. QED
    BY <1>1, <1>2, <1>3, <1>4, <1>5, <1>6 DEF UInv

\* The invariant holds in every state.
LEMMA SiempreUInv == Spec => []UInv
  <1>1. UInv /\ [Next]_vars => UInv'
    <2> SUFFICES ASSUME UInv, [Next]_vars PROVE UInv'
      OBVIOUS
    <2>1. IInv'
      BY PasoIInv DEF UInv
    <2>2. Reservas' /\ Cartas'
      BY ReservasSiguen, CartasSiguen DEF UInv
    <2>3. Manos' /\ Marcadas'
      BY ManosSiguen, MarcadasSiguen DEF UInv
    <2>4. Recorrido' /\ Juntas' /\ Completas'
      BY RecorridoSigue, JuntasSiguen, CompletasSiguen DEF UInv
    <2>5. Avisos' /\ UsaLoReservado'
      BY AvisosSiguen, RespaldoSigue DEF UInv
    <2>6. QED
      BY <2>1, <2>2, <2>3, <2>4, <2>5 DEF UInv
  <1>2. QED
    BY <1>1, InicioUInv, PTL DEF Spec

\* A planner that runs a job holds every resource the job asked for (JOB_GRANTED
\* in manejadores.c), but for what a provider took back, a purge, a late GRANTED
\* and a line through a reused descriptor, for any number of threads, jobs,
\* resources and attempts.
THEOREM UsaLoReservadoSiempre == Spec => []UsaLoReservado
  <1>1. UInv => UsaLoReservado
    BY DEF UInv
  <1>2. QED
    BY <1>1, SiempreUInv, PTL
=============================================================================
