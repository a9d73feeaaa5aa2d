-------------------------- MODULE TablaNodos_proofs --------------------------
(***************************************************************************)
(* Theorems about TablaNodos, for any threads, addresses, hash and memory: *)
(* the inductive invariant, the properties of every state and of every     *)
(* search, and the directory that the table implements.                    *)
(***************************************************************************)
EXTENDS TablaNodos_punteros_proofs

-----------------------------------------------------------------------------
(* The invariant *)

\* Where a thread may be.
Lugares == {"espera", "insertar", "expirar", "purgar", "listar", "enviar", "buscar", "recorrer"}
Consulta == {"expirar", "purgar", "listar", "enviar"}

\* The threads: their types, and where each may be.  Only a search keeps the
\* mutex between steps, and one thread at most serves GET_NODES.
HInv ==
    /\ pc \in [Hilos -> Lugares]
    /\ mutex \in Hilos \cup {NULO}
    /\ ahora \in 0..MaxTiempo
    /\ leido \in [Hilos -> 0..MaxTiempo] /\ \A t \in Hilos : leido[t] <= ahora
    /\ ip \in [Hilos -> Ips \cup {NULO}]
    /\ actual \in [Hilos -> Punteros]
    /\ listado \in Seq(Ips)
    /\ \A t \in Hilos : /\ pc[t] \in {"insertar", "buscar", "recorrer"} => ip[t] \in Ips
                        /\ pc[t] = "recorrer" => mutex = t
    /\ \A t, u \in Hilos : pc[t] \in Consulta /\ pc[u] \in Consulta => t = u

\* The cells to purge.
Pendientes == UNION {ToSet(expirados[t]) : t \in Hilos}
PInv ==
    /\ expirados \in [Hilos -> Seq(Celdas)]
    /\ \A t \in Hilos : /\ Enumera(expirados[t], ToSet(expirados[t]))
                        /\ pc[t] # "purgar" => expirados[t] = <<>>
    /\ \A c \in Pendientes : c \in Celdas /\ tabla.celda[c] # NULO
    /\ Distintas(tabla, Pendientes)

\* The cells in the table are those in use that nobody is to purge.
EnTabla == {c \in Celdas : tabla.celda[c] # NULO /\ c \notin Pendientes}
FInv == Buena(tabla, EnTabla, tabla.cap) /\ 4 * tabla.num < 3 * tabla.cap

\* A search is at the head of its chain.
BInv == \A t \in Hilos : pc[t] = "recorrer" => actual[t] = tabla.casilla[Idx(tabla, ip[t])]

Inv == HInv /\ PInv /\ FInv /\ BInv

-----------------------------------------------------------------------------
(* The threads *)

\* Initially.
LEMMA HInit == Init => HInv
  <1>1. SUFFICES ASSUME Init PROVE HInv
    OBVIOUS
  <1>2. NULO \in Punteros /\ <<>> \in Seq(Ips) /\ 0 \in 0..MaxTiempo
    BY CapAssumption DEF Punteros
  <1>3. QED
    BY <1>1, <1>2 DEF Init, HInv, Lugares, Consulta

\* The times read are in the past.
LEMMA HReloj ==
    HInv /\ Tictac => HInv'
  BY CapAssumption DEF HInv, Tictac

\* A thread takes an address.
LEMMA HEmpiezo ==
    ASSUME HInv, NEW t \in Hilos, NEW i \in Ips, Recibir(t, i) \/ PedirBusqueda(t, i)
    PROVE  HInv'
  <1>1. CASE Recibir(t, i)
    BY <1>1 DEF HInv, Recibir, Lugares, Consulta
  <1>2. CASE PedirBusqueda(t, i)
    BY <1>2 DEF HInv, PedirBusqueda, Lugares, Consulta
  <1>3. QED
    BY <1>1, <1>2

\* A thread begins to serve GET_NODES.
LEMMA HPedirNodos ==
    ASSUME HInv, NEW t \in Hilos, PedirNodos(t)
    PROVE  HInv'
  <1>1. \A u \in Hilos : pc[u] \notin Consulta
    BY DEF PedirNodos, Consulta
  <1>2. leido' \in [Hilos -> 0..MaxTiempo] /\ \A u \in Hilos : leido'[u] <= ahora'
    BY DEF HInv, PedirNodos
  <1>3. /\ pc' \in [Hilos -> Lugares]
        /\ \A u \in Hilos : pc'[u] = IF u = t THEN "expirar" ELSE pc[u]
    BY DEF HInv, PedirNodos, Lugares
  <1>4. \A u, v \in Hilos : pc'[u] \in Consulta /\ pc'[v] \in Consulta => u = v
    BY <1>1, <1>3
  <1>5. \A u \in Hilos : /\ pc'[u] \in {"insertar", "buscar", "recorrer"} => ip'[u] \in Ips
                         /\ pc'[u] = "recorrer" => mutex' = u
    BY <1>3 DEF HInv, PedirNodos
  <1>6. QED
    BY <1>2, <1>3, <1>4, <1>5 DEF HInv, PedirNodos

\* The list names addresses.
LEMMA ListaIps ==
    ASSUME FInv, NEW L, L = Lista(tabla)
    PROVE  /\ L \in Seq(EnTabla) /\ IsInjective(L) /\ ToSet(L) = EnTabla
           /\ \A c \in EnTabla : tabla.celda[c].ip \in Ips
           /\ [k \in DOMAIN L |-> tabla.celda[L[k]].ip] \in Seq(Ips)
  <1>1. PICK T : T = tabla
    OBVIOUS
  <1>2. PICK S : S = EnTabla
    OBVIOUS
  <1>3. PICK n : n = tabla.cap
    OBVIOUS
  <1>4. Buena(T, S, n)
    BY <1>1, <1>2, <1>3 DEF FInv
  <1>5. PICK r, b : FormaLista(T, S, r, b)
    BY <1>4 DEF Buena
  <1>6. L \in Seq(S) /\ IsInjective(L) /\ ToSet(L) = S
    BY <1>1, <1>5, ListaForma
  <1>7. \A c \in S : T.celda[c].ip \in Ips
    BY <1>4, BuenaNodos
  <1>8. DOMAIN L = 1..Len(L) /\ Len(L) \in Nat /\ \A k \in 1..Len(L) : L[k] \in S
    BY <1>6
  <1>9. [k \in DOMAIN L |-> T.celda[L[k]].ip] \in [1..Len(L) -> Ips]
    BY <1>7, <1>8
  <1>10. [k \in DOMAIN L |-> T.celda[L[k]].ip] \in Seq(Ips)
    BY <1>8, <1>9, SeqDef
  <1>11. QED
    BY <1>1, <1>2, <1>6, <1>7, <1>10

\* The steps of an operation.
LEMMA HSigo ==
    ASSUME HInv, PInv, FInv, BInv, NEW t \in Hilos, Avanzar(t)
    PROVE  HInv'
  <1>1. t # NULO
    BY CeldasAssumption
  <1>2. CASE Registrar(t)
    BY <1>2 DEF HInv, Registrar, Lugares, Consulta
  <1>3. CASE BorrarExpirados(t)
    <2>1. /\ pc' = [pc EXCEPT ![t] = "purgar"] /\ pc[t] = "expirar"
          /\ leido' = [leido EXCEPT ![t] = 0]
          /\ UNCHANGED <<mutex, ahora, ip, actual, listado>>
      BY <1>3 DEF BorrarExpirados
    <2>2. leido' \in [Hilos -> 0..MaxTiempo] /\ \A u \in Hilos : leido'[u] <= ahora'
      BY <2>1, CapAssumption DEF HInv
    <2>3. /\ pc' \in [Hilos -> Lugares]
          /\ \A u \in Hilos : pc'[u] = IF u = t THEN "purgar" ELSE pc[u]
      BY <2>1 DEF HInv, Lugares
    <2>4. \A u, v \in Hilos : pc'[u] \in Consulta /\ pc'[v] \in Consulta => u = v
      BY <2>1, <2>3 DEF HInv, Consulta
    <2>5. \A u \in Hilos : /\ pc'[u] \in {"insertar", "buscar", "recorrer"} => ip'[u] \in Ips
                           /\ pc'[u] = "recorrer" => mutex' = u
      BY <2>1, <2>3 DEF HInv
    <2>6. QED
      BY <2>1, <2>2, <2>3, <2>4, <2>5 DEF HInv
  <1>4. CASE Purgar(t)
    BY <1>4 DEF HInv, Purgar, Lugares, Consulta
  <1>5. CASE ObtenerNodos(t)
    <2>1. listado' \in Seq(Ips)
      BY <1>5, ListaIps DEF ObtenerNodos
    <2>2. /\ pc' = [pc EXCEPT ![t] = "enviar"] /\ pc[t] = "listar"
          /\ UNCHANGED <<mutex, ahora, ip, actual, leido>>
      BY <1>5 DEF ObtenerNodos
    <2>3. QED
      BY <2>1, <2>2 DEF HInv, Lugares, Consulta
  <1>6. CASE EnviarNodos(t)
    <2>1. <<>> \in Seq(Ips)
      OBVIOUS
    <2>2. QED
      BY <1>6, <2>1 DEF HInv, EnviarNodos, Lugares, Consulta
  <1>7. CASE EmpezarBusqueda(t)
    <2>1. actual' \in [Hilos -> Punteros]
      <3>1. PICK T : T = tabla
        OBVIOUS
      <3>2. PICK n : n = tabla.cap
        OBVIOUS
      <3>3. n \in Nat \ {0} /\ T \in Tablas(n)
        BY <3>1, <3>2 DEF FInv, Buena
      <3>4. ip[t] \in Ips
        BY <1>7 DEF HInv, EmpezarBusqueda
      <3>5. Idx(T, ip[t]) \in Casillas(n)
        BY <3>3, <3>4, IdxRango
      <3>6. T.casilla[Idx(T, ip[t])] \in Punteros
        BY <3>3, <3>5 DEF Tablas
      <3>7. QED
        BY <1>7, <3>1, <3>6 DEF HInv, EmpezarBusqueda
    <2>2. /\ pc' = [pc EXCEPT ![t] = "recorrer"] /\ pc[t] = "buscar"
          /\ mutex = NULO /\ mutex' = t
          /\ UNCHANGED <<ahora, ip, leido, listado>>
      BY <1>7 DEF EmpezarBusqueda
    <2>3. \A u \in Hilos : pc[u] # "recorrer"
      BY <2>2, CeldasAssumption DEF HInv
    <2>4. QED
      BY <2>1, <2>2, <2>3 DEF HInv, Lugares, Consulta
  <1>8. CASE TerminarBusqueda(t)
    <2>1. NULO \in Punteros
      BY DEF Punteros
    <2>2. /\ pc' = [pc EXCEPT ![t] = "espera"] /\ pc[t] = "recorrer"
          /\ mutex' = NULO /\ ip' = [ip EXCEPT ![t] = NULO]
          /\ actual' = [actual EXCEPT ![t] = NULO]
          /\ UNCHANGED <<ahora, leido, listado>>
      BY <1>8 DEF TerminarBusqueda
    <2>3. \A u \in Hilos : u # t => pc[u] # "recorrer"
      BY <2>2 DEF HInv
    <2>4. QED
      BY <2>1, <2>2, <2>3 DEF HInv, Lugares, Consulta
  <1>9. QED
    BY <1>2, <1>3, <1>4, <1>5, <1>6, <1>7, <1>8 DEF Avanzar

-----------------------------------------------------------------------------
(* Memory *)

\* Cells of distinct addresses are at most as many as the addresses.
LEMMA CuantasIps ==
    ASSUME NEW T, NEW S, Distintas(T, S), NEW J, IsFiniteSet(J),
           \A c \in S : T.celda[c].ip \in J
    PROVE  IsFiniteSet(S) /\ Cardinality(S) <= Cardinality(J)
  <1> DEFINE f == [c \in S |-> T.celda[c].ip]
  <1>1. f \in [S -> J] /\ \A c, d \in S : f[c] = f[d] => c = d
    BY DEF Distintas
  <1> HIDE DEF f
  <1>2. f \in Injection(S, J)
    BY <1>1 DEF Injection, IsInjective
  <1>3. QED
    BY <1>2, FS_Injection

\* malloc finds a cell for an address that is not in the table.
LEMMA HayLibre ==
    ASSUME PInv, FInv, NEW i \in Ips, \A c \in EnTabla : tabla.celda[c].ip # i
    PROVE  \E c \in Celdas : tabla.celda[c] = NULO
  <1>1. SUFFICES ASSUME \A c \in Celdas : tabla.celda[c] # NULO PROVE FALSE
    OBVIOUS
  <1>2. PICK T : T = tabla
    OBVIOUS
  <1>3. PICK n : n = tabla.cap
    OBVIOUS
  <1>4. PICK S : S = EnTabla
    OBVIOUS
  <1>5. PICK P : P = Pendientes
    OBVIOUS
  <1>6. Buena(T, S, n) /\ T \in Tablas(n) /\ Distintas(T, S)
    BY <1>2, <1>3, <1>4 DEF FInv, Buena
  <1>7. P \subseteq Celdas /\ Distintas(T, P)
    BY <1>2, <1>5 DEF PInv
  <1>8. Celdas = S \cup P
    BY <1>1, <1>2, <1>4, <1>5, <1>7 DEF EnTabla
  <1>9. \A c \in Celdas : T.celda[c] \in Nodo /\ T.celda[c].ip \in Ips
    BY <1>1, <1>2, <1>6 DEF Tablas, Nodo
  <1>10. IsFiniteSet(P) /\ Cardinality(P) <= Cardinality(Ips)
    BY <1>7, <1>9, CeldasAssumption, CuantasIps
  <1>11. IsFiniteSet(Ips \ {i}) /\ Cardinality(Ips \ {i}) = Cardinality(Ips) - 1
    BY CeldasAssumption, FS_RemoveElement
  <1>12. \A c \in S : T.celda[c].ip \in Ips \ {i}
    BY <1>2, <1>4, <1>8, <1>9
  <1>13. IsFiniteSet(S) /\ Cardinality(S) <= Cardinality(Ips \ {i})
    BY <1>6, <1>11, <1>12, CuantasIps
  <1>14. /\ Cardinality(S \cup P) = Cardinality(S) + Cardinality(P) - Cardinality(S \cap P)
         /\ IsFiniteSet(S \cap P)
    BY <1>10, <1>13, FS_Union, FS_Intersection
  <1>15. /\ Cardinality(S) \in Nat /\ Cardinality(P) \in Nat /\ Cardinality(S \cap P) \in Nat
         /\ Cardinality(Ips) \in Nat /\ Cardinality(Celdas) \in Nat
    BY <1>10, <1>13, <1>14, CeldasAssumption, FS_CardinalityType
  <1>16. QED
    BY <1>8, <1>10, <1>11, <1>13, <1>14, <1>15, CeldasAssumption

\* The cell c is freed.
Suelta(T, c) == [T EXCEPT !.celda[c] = NULO]

\* Freeing a cell that is not linked.
LEMMA SoltarBuena ==
    ASSUME NEW T, NEW S, NEW n, Buena(T, S, n), NEW c \in Celdas, c \notin S,
           NEW U, U = Suelta(T, c)
    PROVE  /\ Buena(U, S, n) /\ U.cap = T.cap /\ U.num = T.num /\ U.casilla = T.casilla
           /\ U.celda[c] = NULO /\ \A d \in Celdas : d # c => U.celda[d] = T.celda[d]
  <1>1. /\ n \in Nat \ {0} /\ T \in Tablas(n) /\ IsFiniteSet(S) /\ T.num = Cardinality(S)
        /\ Distintas(T, S)
    BY DEF Buena
  <1>2. S \subseteq Celdas /\ \A d \in S : T.celda[d] \in Nodo
    BY BuenaNodos
  <1>3. /\ U \in Tablas(n) /\ U.cap = T.cap /\ U.num = T.num /\ U.primero = T.primero
        /\ U.ultimo = T.ultimo /\ U.casilla = T.casilla
        /\ U.celda[c] = NULO /\ \A d \in Celdas : d # c => U.celda[d] = T.celda[d]
    BY <1>1 DEF Tablas, Suelta
  <1>4. \A d \in S : U.celda[d] = T.celda[d]
    BY <1>2, <1>3
  <1>5. MismaLista(T, U, S) /\ MismasCadenas(T, U, S)
    BY <1>2, <1>3, <1>4 DEF MismaLista, MismasCadenas
  <1>6. Distintas(U, S)
    BY <1>1, <1>4 DEF Distintas
  <1>7. (\E r, b : FormaLista(U, S, r, b)) /\ (\E h, b : FormaCadenas(U, S, h, b))
    BY <1>5, MismaForma, MismaFormaCadenas DEF Buena
  <1>8. QED
    BY <1>1, <1>3, <1>6, <1>7 DEF Buena

-----------------------------------------------------------------------------
(* The table and what is to purge *)

\* Initially.
LEMMA PFBInit == Init => PInv /\ FInv /\ BInv
  <1>1. SUFFICES ASSUME Init PROVE PInv /\ FInv /\ BInv
    OBVIOUS
  <1>2. Pendientes = {}
    BY <1>1 DEF Init, Pendientes, ToSet
  <1>3. PInv
    <2>1. ToSet(<<>>) = {}
      BY DEF ToSet
    <2>2. Enumera(<<>>, {})
      BY <2>1 DEF Enumera, IsInjective
    <2>3. <<>> \in Seq(Celdas)
      OBVIOUS
    <2>4. expirados \in [Hilos -> Seq(Celdas)] /\ \A t \in Hilos : expirados[t] = <<>>
      BY <1>1, <2>3 DEF Init
    <2>5. QED
      BY <1>2, <2>1, <2>2, <2>4 DEF PInv, Distintas
  <1>4. PICK T : T = tabla
    OBVIOUS
  <1>5. /\ T \in Tablas(CapInicial) /\ T.cap = CapInicial /\ T.num = 0
        /\ T.primero = NULO /\ T.ultimo = NULO
        /\ \A k \in Casillas(CapInicial) : T.casilla[k] = NULO
        /\ \A c \in Celdas : T.celda[c] = NULO
    <2>1. [k \in Casillas(CapInicial) |-> NULO] \in [Casillas(CapInicial) -> Punteros]
      BY DEF Punteros
    <2>2. NULO \in Punteros
      BY DEF Punteros
    <2>3. QED
      BY <1>1, <1>4, <2>1, <2>2 DEF Init, Tablas
  <1>6. EnTabla = {}
    BY <1>4, <1>5 DEF EnTabla
  <1>7. PICK r : r = [c \in Celdas |-> 0]
    OBVIOUS
  <1>8. FormaLista(T, {}, r, 0)
    BY <1>5, <1>7 DEF FormaLista
  <1>9. FormaCadenas(T, {}, r, 0)
    BY <1>5, <1>7 DEF FormaCadenas, EsCabeza
  <1>10. Buena(T, {}, CapInicial)
    BY <1>5, <1>8, <1>9, CapAssumption, FS_EmptySet DEF Buena, Distintas
  <1>11. FInv
    BY <1>4, <1>5, <1>6, <1>10, CapAssumption DEF FInv
  <1>12. BInv
    BY <1>1 DEF Init, BInv
  <1>13. QED
    BY <1>3, <1>11, <1>12

\* The steps that leave the table alone.
LEMMA PFMarco ==
    ASSUME PInv, FInv, UNCHANGED <<tabla, expirados>>,
           \A u \in Hilos : pc[u] = "purgar" => pc'[u] = "purgar" \/ expirados[u] = <<>>
    PROVE  PInv' /\ FInv'
  <1>1. Pendientes' = Pendientes /\ EnTabla' = EnTabla
    BY DEF Pendientes, EnTabla
  <1>2. PInv'
    BY <1>1 DEF PInv
  <1>3. FInv'
    BY <1>1 DEF FInv
  <1>4. QED
    BY <1>2, <1>3

\* An announcement.
LEMMA PFRegistrar ==
    ASSUME HInv, PInv, FInv, BInv, NEW t \in Hilos, Registrar(t)
    PROVE  /\ PInv' /\ FInv' /\ BInv'
           /\ \E T, U, S, R : /\ T = tabla /\ U = tabla' /\ S = EnTabla /\ R = EnTabla'
                              /\ Anunciada(T, U, S, R, ip[t])
  <1>1. PICK T : T = tabla
    OBVIOUS
  <1>2. PICK n : n = tabla.cap
    OBVIOUS
  <1>3. PICK S : S = EnTabla
    OBVIOUS
  <1>4. PICK P : P = Pendientes
    OBVIOUS
  <1>5. PICK U : U = tabla'
    OBVIOUS
  <1>6. PICK i : i = ip[t]
    OBVIOUS
  <1>7. i \in Ips /\ ahora \in 0..MaxTiempo
    BY <1>6 DEF HInv, Registrar
  <1>8. Buena(T, S, n) /\ 4 * T.num < 3 * n
    BY <1>1, <1>2, <1>3 DEF FInv
  <1>9. U = Insertar(T, i)
    BY <1>1, <1>5, <1>6 DEF Registrar
  <1>10. (\A d \in S : T.celda[d].ip # i) => \E c \in Celdas : T.celda[c] = NULO
    BY <1>1, <1>3, <1>7, HayLibre
  <1>11. PICK R, m : Buena(U, R, m) /\ 4 * U.num < 3 * m /\ Anunciada(T, U, S, R, i)
    BY <1>7, <1>8, <1>9, <1>10, InsertarBuena
  <1>12. Pendientes' = P /\ expirados' = expirados
    BY <1>4 DEF Pendientes, Registrar
  <1>13. /\ \A c \in P : c \in Celdas /\ T.celda[c] # NULO
         /\ Distintas(T, P)
    BY <1>1, <1>4 DEF PInv
  <1>14. S = {c \in Celdas : T.celda[c] # NULO /\ c \notin P}
    BY <1>1, <1>3, <1>4 DEF EnTabla
  <1>15. \A c \in R : c \in Celdas /\ U.celda[c] # NULO
    BY <1>11, BuenaNodos
  <1>16. EnTabla' = R
    <2>1. EnTabla' = {c \in Celdas : U.celda[c] # NULO /\ c \notin P}
      BY <1>5, <1>12 DEF EnTabla
    <2>2. \A c \in R : c \notin P
      BY <1>11, <1>13, <1>14 DEF Anunciada
    <2>3. \A c \in Celdas : c \notin R => U.celda[c] = NULO \/ c \in P
      BY <1>11, <1>14 DEF Anunciada
    <2>4. QED
      BY <1>15, <2>1, <2>2, <2>3
  <1>17. U.cap = m
    BY <1>11 DEF Buena, Tablas
  <1>18. FInv'
    BY <1>5, <1>11, <1>16, <1>17 DEF FInv
  <1>19. \A c \in P : U.celda[c] # NULO /\ U.celda[c].ip = T.celda[c].ip
    <2>1. SUFFICES ASSUME NEW c \in P PROVE U.celda[c] # NULO /\ U.celda[c].ip = T.celda[c].ip
      OBVIOUS
    <2>2. c \in Celdas /\ T.celda[c] # NULO
      BY <1>13
    <2>3. QED
      BY <1>11, <1>15, <2>2 DEF Anunciada
  <1>20. PInv'
    <2>1. Distintas(U, P)
      BY <1>13, <1>19 DEF Distintas
    <2>2. \A c \in P : c \in Celdas /\ U.celda[c] # NULO
      BY <1>13, <1>19
    <2>3. \A u \in Hilos : pc'[u] # "purgar" => pc[u] # "purgar"
      BY DEF Registrar, HInv
    <2>4. QED
      BY <1>5, <1>12, <2>1, <2>2, <2>3 DEF PInv
  <1>21. BInv'
    <2>1. \A u \in Hilos : pc[u] # "recorrer"
      BY CeldasAssumption DEF HInv, Registrar
    <2>2. \A u \in Hilos : pc'[u] # "recorrer"
      BY <2>1 DEF HInv, Registrar
    <2>3. QED
      BY <2>2 DEF BInv
  <1>22. QED
    BY <1>1, <1>3, <1>5, <1>6, <1>11, <1>16, <1>18, <1>20, <1>21

\* The silent nodes leave the table.
LEMMA PFBorrar ==
    ASSUME HInv, PInv, FInv, BInv, NEW t \in Hilos, BorrarExpirados(t)
    PROVE  /\ PInv' /\ FInv' /\ BInv'
           /\ \E T, U, S, F : /\ T = tabla /\ U = tabla' /\ S = EnTabla
                              /\ F = {c \in S : Callado(T.celda[c], t)}
                              /\ EnTabla' = S \ F /\ MismosDatos(T, U)
  <1>1. PICK T : T = tabla
    OBVIOUS
  <1>2. PICK n : n = tabla.cap
    OBVIOUS
  <1>3. PICK S : S = EnTabla
    OBVIOUS
  <1>4. PICK U : U = tabla'
    OBVIOUS
  <1>5. PICK F : F = {c \in S : Callado(T.celda[c], t)}
    OBVIOUS
  <1>6. PICK B : B = Barrido(t)
    OBVIOUS
  <1>7. Buena(T, S, n) /\ 4 * T.num < 3 * n
    BY <1>1, <1>2, <1>3 DEF FInv
  <1>8. /\ Buena(B.tabla, S \ F, n) /\ MismosDatos(T, B.tabla) /\ Enumera(B.fuera, F)
    BY <1>1, <1>5, <1>6, <1>7, BarridoBuena
  <1>9. /\ U = B.tabla /\ expirados' = [expirados EXCEPT ![t] = B.fuera]
        /\ pc[t] = "expirar" /\ pc' = [pc EXCEPT ![t] = "purgar"] /\ mutex = NULO
    BY <1>4, <1>6 DEF BorrarExpirados
  <1>10. \A u \in Hilos : pc[u] = "purgar" => u = t
    BY <1>9 DEF HInv, Consulta
  <1>11. \A u \in Hilos : expirados[u] = <<>>
    BY <1>9, <1>10 DEF PInv
  <1>12. Pendientes = {}
    BY <1>11 DEF Pendientes, ToSet
  <1>13. PICK s : s = B.fuera
    OBVIOUS
  <1>14. Enumera(s, F) /\ ToSet(s) = F
    BY <1>8, <1>13 DEF Enumera
  <1>15. \A u \in Hilos : expirados'[u] = IF u = t THEN s ELSE <<>>
    BY <1>9, <1>11, <1>13 DEF PInv
  <1>16. expirados' \in [Hilos -> Seq(Celdas)]
    <2>1. s \in Seq(F) /\ F \subseteq Celdas
      BY <1>3, <1>5, <1>14 DEF Enumera, EnTabla
    <2>2. s \in Seq(Celdas)
      BY <2>1
    <2>3. expirados \in [Hilos -> Seq(Celdas)]
      BY DEF PInv
    <2>4. QED
      BY <1>9, <1>13, <2>2, <2>3
  <1>17. ToSet(<<>>) = {} /\ Enumera(<<>>, {})
    BY DEF ToSet, Enumera, IsInjective
  <1>18. Pendientes' = F
    <2>1. \A u \in Hilos : ToSet(expirados'[u]) = IF u = t THEN F ELSE {}
      BY <1>14, <1>15, <1>17
    <2>2. Pendientes' = UNION {ToSet(expirados'[u]) : u \in Hilos}
      BY DEF Pendientes, ToSet
    <2>3. QED
      BY <2>1, <2>2
  <1>19. S = {c \in Celdas : T.celda[c] # NULO}
    BY <1>1, <1>3, <1>12 DEF EnTabla
  <1>20. EnTabla' = S \ F
    <2>1. EnTabla' = {c \in Celdas : U.celda[c] # NULO /\ c \notin F}
      BY <1>4, <1>18 DEF EnTabla
    <2>2. \A c \in Celdas : U.celda[c] = NULO <=> T.celda[c] = NULO
      BY <1>8, <1>9 DEF MismosDatos
    <2>3. QED
      BY <1>19, <2>1, <2>2
  <1>21. FInv'
    <2>1. U.cap = n /\ Buena(U, S \ F, n)
      BY <1>8, <1>9 DEF Buena, Tablas
    <2>2. U.num = Cardinality(S \ F) /\ T.num = Cardinality(S) /\ IsFiniteSet(S)
          /\ n \in Nat
      BY <1>7, <2>1 DEF Buena
    <2>3. S \ F \in SUBSET S
      OBVIOUS
    <2>4. Cardinality(S \ F) <= Cardinality(S) /\ IsFiniteSet(S \ F)
      BY <2>2, <2>3, FS_Subset
    <2>5. Cardinality(S) \in Nat /\ Cardinality(S \ F) \in Nat
      BY <2>2, <2>4, FS_CardinalityType
    <2>6. 4 * U.num < 3 * n
      BY <1>7, <2>2, <2>4, <2>5
    <2>7. QED
      BY <1>4, <1>20, <2>1, <2>6 DEF FInv
  <1>22. PInv'
    <2>1. Distintas(T, F)
      BY <1>5, <1>7 DEF Buena, Distintas
    <2>2. \A c \in F : c \in Celdas /\ T.celda[c] # NULO
      BY <1>5, <1>19
    <2>3. \A c \in F : c \in Celdas /\ U.celda[c] # NULO /\ U.celda[c].ip = T.celda[c].ip
      BY <1>8, <1>9, <2>2 DEF MismosDatos
    <2>4. Distintas(U, F)
      BY <2>1, <2>3 DEF Distintas
    <2>5. \A u \in Hilos : /\ Enumera(expirados'[u], ToSet(expirados'[u]))
                           /\ pc'[u] # "purgar" => expirados'[u] = <<>>
      BY <1>9, <1>14, <1>15, <1>17 DEF HInv
    <2>6. QED
      BY <1>4, <1>16, <1>18, <2>3, <2>4, <2>5 DEF PInv
  <1>23. BInv'
    <2>1. \A u \in Hilos : pc[u] # "recorrer"
      BY <1>9, CeldasAssumption DEF HInv
    <2>2. \A u \in Hilos : pc'[u] # "recorrer"
      BY <1>9, <2>1 DEF HInv
    <2>3. QED
      BY <2>2 DEF BInv
  <1>24. QED
    BY <1>1, <1>3, <1>4, <1>5, <1>8, <1>9, <1>20, <1>21, <1>22, <1>23

\* One node is purged and its cell freed.
LEMMA PFPurgar ==
    ASSUME HInv, PInv, FInv, BInv, NEW t \in Hilos, Purgar(t)
    PROVE  /\ PInv' /\ FInv' /\ BInv' /\ EnTabla' = EnTabla
           /\ \A d \in EnTabla : tabla'.celda[d] = tabla.celda[d]
  <1>1. /\ pc[t] = "purgar"
        /\ UNCHANGED <<mutex, ahora, ip, actual, leido, listado>>
    BY DEF Purgar
  <1>2. CASE expirados[t] = <<>>
    <2>1. pc' = [pc EXCEPT ![t] = "listar"] /\ UNCHANGED <<tabla, expirados>>
      BY <1>2 DEF Purgar
    <2>2. \A u \in Hilos : pc[u] = "purgar" => pc'[u] = "purgar" \/ expirados[u] = <<>>
      BY <1>2, <2>1 DEF HInv
    <2>3. PInv' /\ FInv'
      BY <2>1, <2>2, PFMarco
    <2>4. BInv'
      BY <1>1, <2>1 DEF HInv, BInv, Idx
    <2>5. EnTabla' = EnTabla
      BY <2>1 DEF EnTabla, Pendientes
    <2>6. QED
      BY <2>1, <2>3, <2>4, <2>5
  <1>3. CASE expirados[t] # <<>>
    <2>1. PICK T : T = tabla
      OBVIOUS
    <2>2. PICK n : n = tabla.cap
      OBVIOUS
    <2>3. PICK S : S = EnTabla
      OBVIOUS
    <2>4. PICK U : U = tabla'
      OBVIOUS
    <2>5. PICK P : P = Pendientes
      OBVIOUS
    <2>6. PICK s : s = expirados[t]
      OBVIOUS
    <2>7. PICK c : c = Head(s)
      OBVIOUS
    <2>8. PICK q : q = Tail(s)
      OBVIOUS
    <2>9. Enumera(s, ToSet(s)) /\ s # <<>>
      BY <1>3, <2>6 DEF PInv
    <2>10. Enumera(q, ToSet(s) \ {c}) /\ c \in ToSet(s)
      BY <2>7, <2>8, <2>9, SinPrimero
    <2>11. \A u \in Hilos : u # t => expirados[u] = <<>>
      BY <1>1 DEF HInv, PInv, Consulta
    <2>12. ToSet(<<>>) = {} /\ Enumera(<<>>, {})
      BY DEF ToSet, Enumera, IsInjective
    <2>13. P = ToSet(s)
      <3>1. \A u \in Hilos : ToSet(expirados[u]) = IF u = t THEN P \cap ToSet(s) ELSE {}
        <4>1. \A e \in ToSet(s) : e \in P
          BY <2>5, <2>6 DEF Pendientes
        <4>2. QED
          BY <2>6, <2>11, <2>12, <4>1
      <3>2. P = UNION {ToSet(expirados[u]) : u \in Hilos}
        BY <2>5 DEF Pendientes
      <3>3. QED
        BY <2>6, <3>1, <3>2
    <2>14. /\ U = Suelta(T, c) /\ pc' = pc
           /\ expirados' = [expirados EXCEPT ![t] = q]
      BY <1>3, <2>1, <2>4, <2>6, <2>7, <2>8 DEF Purgar, Suelta
    <2>15. \A e \in P : e \in Celdas /\ T.celda[e] # NULO
      BY <2>1, <2>5 DEF PInv
    <2>16. c \in Celdas /\ c \notin S /\ c \in P
      BY <2>3, <2>5, <2>10, <2>13, <2>15 DEF EnTabla
    <2>17. Buena(T, S, n) /\ 4 * T.num < 3 * n
      BY <2>1, <2>2, <2>3 DEF FInv
    <2>18. /\ Buena(U, S, n) /\ U.cap = T.cap /\ U.num = T.num /\ U.casilla = T.casilla
           /\ U.celda[c] = NULO /\ \A d \in Celdas : d # c => U.celda[d] = T.celda[d]
      BY <2>14, <2>16, <2>17, SoltarBuena
    <2>19. \A u \in Hilos : expirados'[u] = IF u = t THEN q ELSE <<>>
      BY <2>11, <2>14 DEF PInv
    <2>20. ToSet(q) = P \ {c}
      BY <2>10, <2>13 DEF Enumera
    <2>21. Pendientes' = P \ {c}
      <3>1. \A u \in Hilos : ToSet(expirados'[u]) = IF u = t THEN P \ {c} ELSE {}
        BY <2>12, <2>19, <2>20
      <3>2. Pendientes' = UNION {ToSet(expirados'[u]) : u \in Hilos}
        BY DEF Pendientes, ToSet
      <3>3. QED
        BY <3>1, <3>2
    <2>22. S = {d \in Celdas : T.celda[d] # NULO /\ d \notin P}
      BY <2>1, <2>3, <2>5 DEF EnTabla
    <2>23. EnTabla' = S
      <3>1. EnTabla' = {d \in Celdas : U.celda[d] # NULO /\ d \notin P \ {c}}
        BY <2>4, <2>21 DEF EnTabla
      <3>2. QED
        BY <2>16, <2>18, <2>22, <3>1
    <2>24. FInv'
      BY <2>2, <2>4, <2>1, <2>17, <2>18, <2>23 DEF FInv
    <2>25. PInv'
      <3>1. expirados' \in [Hilos -> Seq(Celdas)]
        <4>1. s \in Seq(Celdas)
          BY <2>6 DEF PInv
        <4>2. q \in Seq(Celdas)
          BY <2>8, <2>9, <4>1
        <4>3. QED
          BY <2>14, <4>2 DEF PInv
      <3>2. Distintas(T, P)
        BY <2>1, <2>5 DEF PInv
      <3>3. \A d \in P \ {c} : d \in Celdas /\ U.celda[d] = T.celda[d] /\ U.celda[d] # NULO
        BY <2>15, <2>18
      <3>4. Distintas(U, P \ {c})
        BY <3>2, <3>3 DEF Distintas
      <3>5. \A u \in Hilos : Enumera(expirados'[u], ToSet(expirados'[u]))
        BY <2>10, <2>12, <2>13, <2>19, <2>20
      <3>6. \A u \in Hilos : pc'[u] # "purgar" => expirados'[u] = <<>>
        BY <1>1, <2>14, <2>19
      <3>7. QED
        BY <2>4, <3>1, <2>21, <3>3, <3>4, <3>5, <3>6 DEF PInv
    <2>26. BInv'
      <3>1. \A i : Idx(U, i) = Idx(T, i)
        BY <2>18 DEF Idx
      <3>2. \A u \in Hilos : pc[u] = "recorrer" => actual[u] = T.casilla[Idx(T, ip[u])]
        BY <2>1 DEF BInv
      <3>3. \A u \in Hilos : pc'[u] = "recorrer" => actual'[u] = U.casilla[Idx(U, ip'[u])]
        BY <1>1, <2>14, <2>18, <3>1, <3>2
      <3>4. QED
        BY <2>4, <3>3 DEF BInv
    <2>27. \A d \in S : U.celda[d] = T.celda[d]
      BY <2>16, <2>18, <2>22
    <2>28. QED
      BY <2>1, <2>3, <2>4, <2>23, <2>24, <2>25, <2>26, <2>27
  <1>4. QED
    BY <1>2, <1>3

\* The steps that only move a thread.
LEMMA PFMover ==
    ASSUME HInv, PInv, FInv, BInv, NEW t \in Hilos,
           \/ ObtenerNodos(t) \/ EnviarNodos(t) \/ EmpezarBusqueda(t) \/ TerminarBusqueda(t)
           \/ PedirNodos(t) \/ \E i \in Ips : Recibir(t, i) \/ PedirBusqueda(t, i)
    PROVE  PInv' /\ FInv' /\ BInv' /\ UNCHANGED <<tabla, expirados, ahora>>
  <1>1. /\ UNCHANGED <<tabla, expirados, ahora>> /\ pc[t] # "purgar"
        /\ \E l \in Lugares : pc' = [pc EXCEPT ![t] = l]
    BY DEF ObtenerNodos, EnviarNodos, EmpezarBusqueda, TerminarBusqueda, PedirNodos,
           Recibir, PedirBusqueda, Lugares
  <1>2. \A u \in Hilos : pc[u] = "purgar" => pc'[u] = "purgar"
    BY <1>1 DEF HInv
  <1>3. PInv' /\ FInv'
    BY <1>1, <1>2, PFMarco
  <1>4. CASE ObtenerNodos(t) \/ EnviarNodos(t) \/ PedirNodos(t)
    <2>1. UNCHANGED <<ip, actual>> /\ \A u \in Hilos : pc'[u] = "recorrer" => pc[u] = "recorrer"
      BY <1>4 DEF ObtenerNodos, EnviarNodos, PedirNodos, HInv
    <2>2. QED
      BY <1>1, <1>3, <2>1 DEF BInv, Idx
  <1>5. CASE \E i \in Ips : Recibir(t, i) \/ PedirBusqueda(t, i)
    <2>1. \A u \in Hilos : pc'[u] = "recorrer" =>
                             pc[u] = "recorrer" /\ ip'[u] = ip[u] /\ actual'[u] = actual[u]
      BY <1>5 DEF Recibir, PedirBusqueda, HInv
    <2>2. QED
      BY <1>1, <1>3, <2>1 DEF BInv, Idx
  <1>6. CASE EmpezarBusqueda(t)
    <2>1. \A u \in Hilos : pc'[u] = "recorrer" => u = t
      BY <1>6, CeldasAssumption DEF EmpezarBusqueda, HInv
    <2>2. actual'[t] = tabla.casilla[Idx(tabla, ip[t])] /\ ip' = ip
      BY <1>6 DEF EmpezarBusqueda, HInv
    <2>3. QED
      BY <1>1, <1>3, <2>1, <2>2 DEF BInv, Idx
  <1>7. CASE TerminarBusqueda(t)
    <2>1. \A u \in Hilos : pc'[u] = "recorrer" =>
                             pc[u] = "recorrer" /\ ip'[u] = ip[u] /\ actual'[u] = actual[u]
      BY <1>7 DEF TerminarBusqueda, HInv
    <2>2. QED
      BY <1>1, <1>3, <2>1 DEF BInv, Idx
  <1>8. QED
    BY <1>1, <1>3, <1>4, <1>5, <1>6, <1>7

\* Every step keeps the invariant.
LEMMA Paso == Inv /\ [Next]_vars => Inv'
  <1>1. SUFFICES ASSUME Inv, [Next]_vars PROVE Inv'
    OBVIOUS
  <1>2. HInv /\ PInv /\ FInv /\ BInv
    BY <1>1 DEF Inv
  <1>3. CASE UNCHANGED vars
    BY <1>2, <1>3 DEF Inv, HInv, PInv, FInv, BInv, Pendientes, EnTabla, Idx, vars
  <1>4. CASE Tictac
    <2>1. UNCHANGED <<tabla, mutex, pc, ip, actual, leido, expirados, listado>>
      BY <1>4 DEF Tictac
    <2>2. PInv' /\ FInv'
      BY <1>2, <2>1, PFMarco
    <2>3. BInv'
      BY <1>2, <2>1 DEF BInv, Idx
    <2>4. QED
      BY <1>2, <1>4, <2>2, <2>3, HReloj DEF Inv
  <1>5. CASE \E t \in Hilos : Avanzar(t)
    <2>1. PICK t \in Hilos : Avanzar(t)
      BY <1>5
    <2>2. HInv'
      BY <1>2, <2>1, HSigo
    <2>3. CASE Registrar(t)
      BY <1>2, <2>2, <2>3, PFRegistrar DEF Inv
    <2>4. CASE BorrarExpirados(t)
      BY <1>2, <2>2, <2>4, PFBorrar DEF Inv
    <2>5. CASE Purgar(t)
      BY <1>2, <2>2, <2>5, PFPurgar DEF Inv
    <2>6. CASE ObtenerNodos(t) \/ EnviarNodos(t) \/ EmpezarBusqueda(t) \/ TerminarBusqueda(t)
      BY <1>2, <2>2, <2>6, PFMover DEF Inv
    <2>7. QED
      BY <2>1, <2>3, <2>4, <2>5, <2>6 DEF Avanzar
  <1>6. CASE \E t \in Hilos : PedirNodos(t) \/ \E i \in Ips : Recibir(t, i) \/ PedirBusqueda(t, i)
    <2>1. PICK t \in Hilos : PedirNodos(t) \/ \E i \in Ips : Recibir(t, i) \/ PedirBusqueda(t, i)
      BY <1>6
    <2>2. HInv'
      <3>1. CASE PedirNodos(t)
        BY <1>2, <3>1, HPedirNodos
      <3>2. CASE \E i \in Ips : Recibir(t, i) \/ PedirBusqueda(t, i)
        BY <1>2, <3>2, HEmpiezo
      <3>3. QED
        BY <2>1, <3>1, <3>2
    <2>3. PInv' /\ FInv' /\ BInv'
      BY <1>2, <2>1, PFMover
    <2>4. QED
      BY <2>2, <2>3 DEF Inv
  <1>7. QED
    BY <1>1, <1>3, <1>4, <1>5, <1>6 DEF Next

\* The invariant holds always.
LEMMA InvSiempre == Spec => []Inv
  <1>1. Init => Inv
    BY HInit, PFBInit DEF Inv
  <1>2. QED
    BY <1>1, Paso, PTL DEF Spec
-----------------------------------------------------------------------------
(* What follows *)

\* The shape of the list, in the words of the properties.
LEMMA ListaCoherente ==
    ASSUME FInv, NEW L, L = Lista(tabla)
    PROVE  /\ Len(L) = tabla.num /\ Len(L) \in Nat
           /\ tabla.ultimo = IF L = <<>> THEN NULO ELSE Last(L)
           /\ BienEnlazada(L, "antLista")
           /\ Enlazadas = EnTabla
  <1>1. PICK T : T = tabla
    OBVIOUS
  <1>2. PICK n : n = tabla.cap
    OBVIOUS
  <1>3. PICK S : S = EnTabla
    OBVIOUS
  <1>4. Buena(T, S, n) /\ T.num = Cardinality(S)
    BY <1>1, <1>2, <1>3 DEF FInv, Buena
  <1>5. PICK r, b : FormaLista(T, S, r, b)
    BY <1>4 DEF Buena
  <1>6. /\ L \in Seq(S) /\ Len(L) = Cardinality(S) /\ IsInjective(L) /\ ToSet(L) = S
        /\ L = <<>> <=> T.primero = NULO
        /\ L # <<>> => L[1] = T.primero /\ T.celda[L[Len(L)]].sigLista = NULO
        /\ \A k \in 1..(Len(L) - 1) : T.celda[L[k]].sigLista = L[k + 1]
    BY <1>1, <1>5, ListaForma
  <1>7. PICK m \in Nat : m = Len(L)
    BY <1>6
  <1>8. DOMAIN L = 1..m /\ \A k \in 1..m : L[k] \in S /\ L[k] # NULO /\ EnLista(T, S, r, L[k])
    <2>1. DOMAIN L = 1..m /\ \A k \in 1..m : L[k] \in S
      BY <1>6, <1>7
    <2>2. \A c \in S : c # NULO /\ EnLista(T, S, r, c)
      BY <1>5, CeldasAssumption DEF FormaLista
    <2>3. QED
      BY <2>1, <2>2
  <1>9. \A k \in 1..m : T.celda[L[k]].antLista = IF k = 1 THEN NULO ELSE L[k - 1]
    <2>1. SUFFICES ASSUME NEW k \in 1..m
                   PROVE  T.celda[L[k]].antLista = IF k = 1 THEN NULO ELSE L[k - 1]
      OBVIOUS
    <2>2. CASE k = 1
      <3>1. L # <<>> /\ L[1] = T.primero /\ T.primero # NULO
        BY <1>6, <1>7, <1>8, <2>2
      <3>2. T.celda[T.primero].antLista = NULO
        BY <1>5, <3>1 DEF FormaLista
      <3>3. QED
        BY <2>2, <3>1, <3>2
    <2>3. CASE k # 1
      <3>1. k - 1 \in 1..(m - 1) /\ k - 1 \in 1..m /\ (k - 1) + 1 = k
        BY <2>3
      <3>2. T.celda[L[k - 1]].sigLista = L[k]
        BY <1>6, <1>7, <3>1
      <3>3. L[k] # NULO /\ EnLista(T, S, r, L[k - 1])
        BY <1>8, <3>1
      <3>4. T.celda[L[k]].antLista = L[k - 1]
        BY <3>2, <3>3 DEF EnLista
      <3>5. QED
        BY <2>3, <3>4
    <2>4. QED
      BY <2>2, <2>3
  <1>10. BienEnlazada(L, "antLista")
    BY <1>1, <1>6, <1>8, <1>9 DEF BienEnlazada
  <1>11. T.ultimo = IF L = <<>> THEN NULO ELSE Last(L)
    <2>1. CASE L = <<>>
      <3>1. S = {}
        BY <1>6, <2>1 DEF ToSet
      <3>2. QED
        BY <1>5, <2>1, <3>1, UltimoForma
    <2>2. CASE L # <<>>
      <3>1. m \in 1..m /\ Last(L) = L[m]
        BY <1>6, <1>7, <2>2 DEF Last
      <3>2. T.celda[L[m]].sigLista = NULO /\ EnLista(T, S, r, L[m])
        BY <1>6, <1>7, <1>8, <2>2, <3>1
      <3>3. QED
        BY <2>2, <3>1, <3>2 DEF EnLista
    <2>3. QED
      BY <2>1, <2>2
  <1>12. Enlazadas = EnTabla
    BY <1>3, <1>6 DEF Enlazadas
  <1>13. QED
    BY <1>1, <1>4, <1>6, <1>7, <1>10, <1>11, <1>12

\* The shape of a chain.
LEMMA CadenaCoherente ==
    ASSUME FInv, NEW k \in Casillas(tabla.cap), NEW L, L = Cadena(tabla, k)
    PROVE  /\ BienEnlazada(L, "antHash")
           /\ ToSet(L) = {c \in EnTabla : Idx(tabla, tabla.celda[c].ip) = k}
           /\ L = <<>> <=> tabla.casilla[k] = NULO
  <1>1. PICK T : T = tabla
    OBVIOUS
  <1>2. PICK n : n = tabla.cap
    OBVIOUS
  <1>3. PICK S : S = EnTabla
    OBVIOUS
  <1>4. Buena(T, S, n) /\ n \in Nat \ {0} /\ T \in Tablas(n) /\ T.cap = n
    BY <1>1, <1>2, <1>3 DEF FInv, Buena, Tablas
  <1>5. PICK h, b : FormaCadenas(T, S, h, b)
    BY <1>4 DEF Buena
  <1>6. PICK D : D = DeCasilla(T, S, k)
    OBVIOUS
  <1>7. k \in Casillas(n)
    BY <1>2
  <1>8. /\ L \in Seq(D) /\ IsInjective(L) /\ ToSet(L) = D
        /\ L = <<>> <=> T.casilla[k] = NULO
        /\ L # <<>> => L[1] = T.casilla[k]
        /\ \A j \in 1..(Len(L) - 1) : T.celda[L[j]].sigHash = L[j + 1]
    BY <1>1, <1>4, <1>5, <1>6, <1>7, CadenaForma
  <1>9. PICK m \in Nat : m = Len(L)
    BY <1>8
  <1>10. DOMAIN L = 1..m /\ \A j \in 1..m : L[j] \in D /\ L[j] # NULO /\ EnSuCadena(T, S, h, L[j])
    <2>1. DOMAIN L = 1..m /\ \A j \in 1..m : L[j] \in D
      BY <1>8, <1>9
    <2>2. \A c \in D : c # NULO /\ EnSuCadena(T, S, h, c)
      BY <1>5, <1>6, CeldasAssumption DEF FormaCadenas, DeCasilla
    <2>3. QED
      BY <2>1, <2>2
  <1>11. \A j \in 1..m : T.celda[L[j]].antHash = IF j = 1 THEN NULO ELSE L[j - 1]
    <2>1. SUFFICES ASSUME NEW j \in 1..m
                   PROVE  T.celda[L[j]].antHash = IF j = 1 THEN NULO ELSE L[j - 1]
      OBVIOUS
    <2>2. CASE j = 1
      <3>1. L # <<>> /\ L[1] = T.casilla[k] /\ T.casilla[k] # NULO
        BY <1>8, <1>9, <1>10, <2>2
      <3>2. EsCabeza(T, S, k)
        BY <1>4, <1>5, <1>7 DEF FormaCadenas
      <3>3. QED
        BY <2>2, <3>1, <3>2 DEF EsCabeza
    <2>3. CASE j # 1
      <3>1. j - 1 \in 1..(m - 1) /\ j - 1 \in 1..m /\ (j - 1) + 1 = j
        BY <2>3
      <3>2. T.celda[L[j - 1]].sigHash = L[j]
        BY <1>8, <1>9, <3>1
      <3>3. L[j] # NULO /\ EnSuCadena(T, S, h, L[j - 1])
        BY <1>10, <3>1
      <3>4. T.celda[L[j]].antHash = L[j - 1]
        BY <3>2, <3>3 DEF EnSuCadena
      <3>5. QED
        BY <2>3, <3>4
    <2>4. QED
      BY <2>2, <2>3
  <1>12. BienEnlazada(L, "antHash")
    BY <1>1, <1>8, <1>10, <1>11 DEF BienEnlazada
  <1>13. QED
    BY <1>1, <1>3, <1>6, <1>8, <1>12 DEF DeCasilla

\* The invariant implies the types.
LEMMA InvTipos == Inv => TypeOK
  <1>1. SUFFICES ASSUME Inv PROVE TypeOK
    OBVIOUS
  <1>2. HInv /\ PInv /\ FInv
    BY <1>1 DEF Inv
  <1>3. PICK T : T = tabla
    OBVIOUS
  <1>4. PICK n : n = tabla.cap
    OBVIOUS
  <1>5. /\ n \in Nat \ {0} /\ T \in Tablas(n)
    BY <1>2, <1>3, <1>4 DEF FInv, Buena
  <1>6. T.num \in Nat
    BY <1>2, <1>3, ListaCoherente
  <1>7. /\ {T.primero, T.ultimo} \subseteq Punteros
        /\ T.cap = n /\ T.casilla \in [Casillas(n) -> Punteros]
        /\ T.celda \in [Celdas -> Nodo \cup {NULO}]
    BY <1>5 DEF Tablas
  <1>8. QED
    BY <1>2, <1>3, <1>5, <1>6, <1>7 DEF TypeOK, HInv, PInv

\* It implies that list and chains agree.
LEMMA InvCoherencia == Inv => Coherencia
  <1>1. SUFFICES ASSUME Inv PROVE Coherencia
    OBVIOUS
  <1>2. FInv
    BY <1>1 DEF Inv
  <1>3. PICK L : L = Lista(tabla)
    OBVIOUS
  <1>4. /\ Len(L) = tabla.num
        /\ tabla.ultimo = IF L = <<>> THEN NULO ELSE Last(L)
        /\ BienEnlazada(L, "antLista")
        /\ Enlazadas = EnTabla
    BY <1>2, <1>3, ListaCoherente
  <1>5. \A c, d \in Enlazadas : tabla.celda[c].ip = tabla.celda[d].ip => c = d
    BY <1>2, <1>4 DEF FInv, Buena, Distintas
  <1>6. \A k \in Casillas(tabla.cap) :
          /\ BienEnlazada(Cadena(tabla, k), "antHash")
          /\ ToSet(Cadena(tabla, k)) = {c \in EnTabla : Idx(tabla, tabla.celda[c].ip) = k}
    BY <1>2, CadenaCoherente
  <1>7. \A c \in EnTabla : Idx(tabla, tabla.celda[c].ip) \in Casillas(tabla.cap)
    <2>1. PICK T : T = tabla
      OBVIOUS
    <2>2. PICK n : n = tabla.cap
      OBVIOUS
    <2>3. PICK S : S = EnTabla
      OBVIOUS
    <2>4. Buena(T, S, n) /\ n \in Nat \ {0} /\ T \in Tablas(n)
      BY <1>2, <2>1, <2>2, <2>3 DEF FInv, Buena
    <2>5. \A c \in S : T.celda[c].ip \in Ips
      BY <2>4, BuenaNodos
    <2>6. \A c \in S : Idx(T, T.celda[c].ip) \in Casillas(n)
      BY <2>4, <2>5, IdxRango
    <2>7. QED
      BY <2>1, <2>2, <2>3, <2>6
  <1>8. Enlazadas = UNION {ToSet(Cadena(tabla, k)) : k \in Casillas(tabla.cap)}
    <2>1. \A c : c \in Enlazadas <=> \E k \in Casillas(tabla.cap) : c \in ToSet(Cadena(tabla, k))
      BY <1>4, <1>6, <1>7
    <2>2. QED
      BY <2>1
  <1>9. 4 * tabla.num < 3 * tabla.cap
    BY <1>2 DEF FInv
  <1>10. \A k \in Casillas(tabla.cap) :
           /\ BienEnlazada(Cadena(tabla, k), "antHash")
           /\ \A c \in ToSet(Cadena(tabla, k)) : Idx(tabla, tabla.celda[c].ip) = k
    BY <1>6
  <1>11. QED
    BY <1>3, <1>4, <1>5, <1>8, <1>9, <1>10 DEF Coherencia

\* It implies that what is freed is not linked.
LEMMA InvSinColgados == Inv => SinColgados
  <1>1. SUFFICES ASSUME Inv PROVE SinColgados
    OBVIOUS
  <1>2. PInv /\ FInv
    BY <1>1 DEF Inv
  <1>3. PICK L : L = Lista(tabla)
    OBVIOUS
  <1>4. Enlazadas = EnTabla
    BY <1>2, <1>3, ListaCoherente
  <1>5. \A t \in Hilos : \A c \in ToSet(expirados[t]) : c \in Pendientes
    BY DEF Pendientes
  <1>6. \A t \in Hilos : IsInjective(expirados[t])
    BY <1>2 DEF PInv, Enumera
  <1>7. \A c \in Pendientes : tabla.celda[c] # NULO /\ c \notin EnTabla
    BY <1>2 DEF PInv, EnTabla
  <1>8. EnTabla \subseteq {c \in Celdas : tabla.celda[c] # NULO}
    BY DEF EnTabla
  <1>9. QED
    BY <1>4, <1>5, <1>6, <1>7, <1>8 DEF SinColgados

\* A step that ends a search ends it rightly.
LEMMA FinDeBusqueda ==
    ASSUME Inv, [Next]_vars, NEW t \in Hilos, pc[t] = "recorrer", pc'[t] = "espera"
    PROVE  actual[t] # NULO <=> \E c \in Enlazadas : tabla.celda[c].ip = ip[t]
  <1>1. HInv /\ FInv /\ BInv
    BY DEF Inv
  <1>2. TerminarBusqueda(t)
    <2>1. pc' # pc
      OBVIOUS
    <2>2. PICK u \in Hilos : \/ Avanzar(u) \/ PedirNodos(u)
                             \/ \E i \in Ips : Recibir(u, i) \/ PedirBusqueda(u, i)
      BY <2>1 DEF Next, vars, Tictac
    <2>3. u = t /\ pc[u] = "recorrer"
      BY <1>1, <2>2 DEF Avanzar, Registrar, BorrarExpirados, Purgar, ObtenerNodos, EnviarNodos,
         EmpezarBusqueda, TerminarBusqueda, PedirNodos, Recibir, PedirBusqueda, HInv
    <2>4. QED
      BY <2>2, <2>3 DEF Avanzar, Registrar, BorrarExpirados, Purgar, ObtenerNodos, EnviarNodos,
         EmpezarBusqueda, PedirNodos, Recibir, PedirBusqueda
  <1>3. PICK T : T = tabla
    OBVIOUS
  <1>4. PICK n : n = tabla.cap
    OBVIOUS
  <1>5. PICK S : S = EnTabla
    OBVIOUS
  <1>6. PICK i \in Ips : i = ip[t]
    BY <1>1 DEF HInv
  <1>7. Buena(T, S, n) /\ n \in Nat \ {0} /\ T \in Tablas(n) /\ T.cap = n
    BY <1>1, <1>3, <1>4, <1>5 DEF FInv, Buena, Tablas
  <1>8. PICK k \in Casillas(n) : k = Idx(T, i)
    BY <1>7, IdxRango
  <1>9. actual[t] = T.casilla[k]
    BY <1>1, <1>3, <1>6, <1>8 DEF BInv
  <1>10. PICK h, b : FormaCadenas(T, S, h, b)
    BY <1>7 DEF Buena
  <1>11. EsCabeza(T, S, k)
    BY <1>7, <1>10 DEF FormaCadenas
  <1>12. Enlazadas = S
    <2>1. PICK L : L = Lista(tabla)
      OBVIOUS
    <2>2. QED
      BY <1>1, <1>5, <2>1, ListaCoherente
  <1>13. actual[t] # NULO => actual[t] \in S /\ T.celda[actual[t]].ip = i
    BY <1>2, <1>3, <1>6, <1>9, <1>11 DEF TerminarBusqueda, EsCabeza
  <1>14. ASSUME actual[t] = NULO, NEW c \in S, T.celda[c].ip = i PROVE FALSE
    <2>1. PICK L : L = Cadena(tabla, k)
      OBVIOUS
    <2>2. L = <<>> /\ ToSet(L) = {d \in S : Idx(T, T.celda[d].ip) = k}
      BY <1>1, <1>3, <1>4, <1>5, <1>9, <1>14, <2>1, CadenaCoherente
    <2>3. c \in ToSet(L)
      BY <1>8, <1>14, <2>2
    <2>4. QED
      BY <2>2, <2>3 DEF ToSet
  <1>15. QED
    BY <1>3, <1>6, <1>12, <1>13, <1>14

-----------------------------------------------------------------------------
(* Theorems *)

\* Every variable of the node table has its type (struct TablaNodos,
\* struct _NodoActivo, the locals of tablanodos.c).
THEOREM TiposTabla == Spec => []TypeOK
  BY InvSiempre, InvTipos, PTL

\* The operations of tablanodos.c (insert, grow, unlink, sweep) keep the list
\* and the chains of the same cells, each address once and in the chain it
\* hashes to under the current capacity, linked soundly both ways, and the
\* load below FACTORDECARGA: for any hash, and with every operation made of
\* any number of cells.
THEOREM CoherenciaSiempre == Spec => []Coherencia
  BY InvSiempre, InvCoherencia, PTL

\* What GET_NODES purges and frees without the mutex and what the table links
\* never meet, and nothing is freed twice.
THEOREM SinColgadosSiempre == Spec => []SinColgados
  BY InvSiempre, InvSinColgados, PTL

\* tablanodos_buscar, when it returns, returns a cell exactly when its address
\* is in the table: the table cannot change between its start and its end.
THEOREM BusquedaSiempreCorrecta == Spec => BusquedaCorrecta
  <1>1. Inv /\ [Next]_vars =>
          [\A t \in Hilos : pc[t] = "recorrer" /\ pc'[t] = "espera" =>
             (actual[t] # NULO <=> \E c \in Enlazadas : tabla.celda[c].ip = ip[t])]_vars
    BY FinDeBusqueda
  <1>2. QED
    BY <1>1, InvSiempre, PTL DEF Spec, BusquedaCorrecta
-----------------------------------------------------------------------------
(* The abstract directory *)

\* The cells S of the table T say when each address was last heard of: V.
Dice(T, S, V) ==
    /\ \A c \in S : /\ T.celda[c].ip \in Ips /\ T.celda[c].anuncio \in 0..MaxTiempo
                    /\ V[T.celda[c].ip] = T.celda[c].anuncio
    /\ \A i \in Ips : (\A c \in S : T.celda[c].ip # i) => V[i] = NULO

\* What the directory sees.
Visto == [i \in Ips |-> VistoDe(i)]
Visible == Dice(tabla, EnTabla, Visto)

\* It is what the cells say.
LEMMA InvVisible == Inv => Visible
  <1>1. SUFFICES ASSUME Inv PROVE Visible
    OBVIOUS
  <1>2. PICK T : T = tabla
    OBVIOUS
  <1>3. PICK S : S = EnTabla
    OBVIOUS
  <1>4. PICK n : n = tabla.cap
    OBVIOUS
  <1>5. FInv /\ Buena(T, S, n) /\ Distintas(T, S)
    BY <1>1, <1>2, <1>3, <1>4 DEF Inv, FInv, Buena
  <1>6. \A c \in S : T.celda[c].ip \in Ips /\ T.celda[c].anuncio \in 0..MaxTiempo
    BY <1>5, BuenaNodos DEF Nodo
  <1>7. Enlazadas = S
    <2>1. PICK L : L = Lista(tabla)
      OBVIOUS
    <2>2. QED
      BY <1>3, <1>5, <2>1, ListaCoherente
  <1>8. ASSUME NEW c \in S PROVE Visto[T.celda[c].ip] = T.celda[c].anuncio
    <2>1. PICK i \in Ips : i = T.celda[c].ip
      BY <1>6
    <2>2. {d \in Enlazadas : tabla.celda[d].ip = i} = {c}
      BY <1>2, <1>5, <1>7, <2>1 DEF Distintas
    <2>3. (CHOOSE d \in {c} : TRUE) = c
      OBVIOUS
    <2>4. VistoDe(i) = T.celda[c].anuncio
      BY <1>2, <2>2, <2>3 DEF VistoDe
    <2>5. QED
      BY <2>1, <2>4 DEF Visto
  <1>9. ASSUME NEW i \in Ips, \A c \in S : T.celda[c].ip # i PROVE Visto[i] = NULO
    <2>1. {d \in Enlazadas : tabla.celda[d].ip = i} = {}
      BY <1>2, <1>7, <1>9
    <2>2. VistoDe(i) = NULO
      BY <2>1 DEF VistoDe
    <2>3. QED
      BY <2>2 DEF Visto
  <1>10. QED
    BY <1>2, <1>3, <1>6, <1>8, <1>9 DEF Visible, Dice

\* Cells in use, and what is said after an announcement and after a sweep.
EnUso(T, S) == S \subseteq Celdas /\ \A c \in S : T.celda[c] # NULO
ConAnuncio(V, W, i) == \A j \in Ips : W[j] = IF j = i THEN ahora ELSE V[j]
SinCallados(V, W, l) ==
    \A i \in Ips : W[i] = IF V[i] # NULO /\ l - V[i] > Vida THEN NULO ELSE V[i]
Mudas(T, S, F, l) == F = {c \in S : l - T.celda[c].anuncio > Vida}

\* When the cells stay, so does what they say.
LEMMA DiceIgual ==
    ASSUME NEW T, NEW U, NEW S, NEW V, NEW W, Dice(T, S, V), Dice(U, S, W),
           \A c \in S : U.celda[c] = T.celda[c]
    PROVE  \A i \in Ips : W[i] = V[i]
  <1>1. SUFFICES ASSUME NEW i \in Ips PROVE W[i] = V[i]
    OBVIOUS
  <1>2. CASE \E c \in S : T.celda[c].ip = i
    BY <1>2 DEF Dice
  <1>3. CASE \A c \in S : T.celda[c].ip # i
    BY <1>3 DEF Dice
  <1>4. QED
    BY <1>2, <1>3

\* An announcement changes what is said of its address.
LEMMA DiceAnunciada ==
    ASSUME NEW T, NEW U, NEW S, NEW R, NEW i \in Ips, Anunciada(T, U, S, R, i),
           EnUso(T, S),
           NEW V, NEW W, Dice(T, S, V), Dice(U, R, W)
    PROVE  ConAnuncio(V, W, i)
  <1>1. SUFFICES ASSUME NEW j \in Ips PROVE W[j] = IF j = i THEN ahora ELSE V[j]
    BY DEF ConAnuncio
  <1>2. \A c \in S : T.celda[c] # NULO
    BY DEF EnUso
  <1>3. CASE j = i
    <2>1. PICK d \in R : U.celda[d].ip = i
      BY DEF Anunciada
    <2>2. U.celda[d].anuncio = ahora
      BY <2>1 DEF Anunciada
    <2>3. QED
      BY <1>3, <2>1, <2>2 DEF Dice
  <1>4. CASE j # i /\ \E c \in S : T.celda[c].ip = j
    <2>1. PICK c \in S : T.celda[c].ip = j
      BY <1>4
    <2>2. c \in R /\ c \in Celdas
      BY DEF Anunciada
    <2>3. U.celda[c].ip = j
      BY <1>2, <2>1, <2>2 DEF Anunciada
    <2>4. U.celda[c].anuncio = T.celda[c].anuncio
      BY <1>4, <2>2, <2>3 DEF Anunciada
    <2>5. QED
      BY <1>4, <2>1, <2>2, <2>3, <2>4 DEF Dice
  <1>5. CASE j # i /\ \A c \in S : T.celda[c].ip # j
    <2>1. ASSUME NEW d \in R, U.celda[d].ip = j PROVE FALSE
      <3>1. d \in S /\ d \in Celdas
        BY <1>5, <2>1 DEF Anunciada
      <3>2. U.celda[d].ip = T.celda[d].ip
        BY <1>2, <3>1 DEF Anunciada
      <3>3. QED
        BY <1>5, <2>1, <3>1, <3>2
    <2>2. W[j] = NULO /\ V[j] = NULO
      BY <1>5, <2>1 DEF Dice
    <2>3. QED
      BY <1>5, <2>2
  <1>6. QED
    BY <1>3, <1>4, <1>5

\* When silent nodes leave, what is said of them goes.
LEMMA DiceBorrado ==
    ASSUME NEW T, NEW U, NEW S, MismosDatos(T, U),
           EnUso(T, S), Distintas(T, S),
           NEW l, NEW F, Mudas(T, S, F, l), NEW R, R = S \ F,
           NEW V, NEW W, Dice(T, S, V), Dice(U, R, W)
    PROVE  SinCallados(V, W, l)
  <1>1. SUFFICES ASSUME NEW i \in Ips
                 PROVE  W[i] = IF V[i] # NULO /\ l - V[i] > Vida THEN NULO ELSE V[i]
    BY DEF SinCallados
  <1>2. \A c \in S : c \in F <=> l - T.celda[c].anuncio > Vida
    BY DEF Mudas
  <1>3. \A c \in S : U.celda[c].ip = T.celda[c].ip /\ U.celda[c].anuncio = T.celda[c].anuncio
    BY DEF MismosDatos, EnUso
  <1>4. CASE \E c \in S : T.celda[c].ip = i
    <2>1. PICK c \in S : T.celda[c].ip = i
      BY <1>4
    <2>2. V[i] = T.celda[c].anuncio /\ V[i] # NULO
      BY <2>1, NodoAssumption, CapAssumption DEF Dice
    <2>3. CASE c \in F
      <3>1. l - V[i] > Vida
        BY <1>2, <2>2, <2>3
      <3>2. \A d \in S \ F : U.celda[d].ip # i
        BY <1>3, <2>1, <2>3 DEF Distintas
      <3>3. W[i] = NULO
        BY <3>2 DEF Dice
      <3>4. QED
        BY <2>2, <3>1, <3>3
    <2>4. CASE c \notin F
      <3>1. ~ (l - V[i] > Vida)
        BY <1>2, <2>2, <2>4
      <3>2. W[i] = V[i]
        BY <1>3, <2>1, <2>2, <2>4 DEF Dice
      <3>3. QED
        BY <3>1, <3>2
    <2>5. QED
      BY <2>3, <2>4
  <1>5. CASE \A c \in S : T.celda[c].ip # i
    <2>1. V[i] = NULO
      BY <1>5 DEF Dice
    <2>2. \A d \in S \ F : U.celda[d].ip # i
      BY <1>3, <1>5
    <2>3. W[i] = NULO
      BY <2>2 DEF Dice
    <2>4. QED
      BY <2>1, <2>3
  <1>6. QED
    BY <1>4, <1>5

\* The answer to GET_NODES names each address of the table once.
LEMMA Nombra ==
    ASSUME Inv, Visible, NEW L, L = Lista(tabla),
           NEW s, s = [k \in DOMAIN L |-> tabla.celda[L[k]].ip]
    PROVE  /\ \A j, k \in DOMAIN s : s[j] = s[k] => j = k
           /\ {s[k] : k \in DOMAIN s} = {i \in Ips : Visto[i] # NULO}
  <1>1. FInv
    BY DEF Inv
  <1>2. PICK T : T = tabla
    OBVIOUS
  <1>3. PICK S : S = EnTabla
    OBVIOUS
  <1>4. /\ L \in Seq(S) /\ IsInjective(L) /\ ToSet(L) = S
    BY <1>1, <1>3, ListaIps
  <1>5. Distintas(T, S)
    BY <1>1, <1>2, <1>3 DEF FInv, Buena
  <1>6. DOMAIN s = DOMAIN L /\ \A k \in DOMAIN L : L[k] \in S /\ s[k] = T.celda[L[k]].ip
    BY <1>2, <1>4
  <1>7. \A j, k \in DOMAIN s : s[j] = s[k] => j = k
    BY <1>4, <1>5, <1>6 DEF Distintas, IsInjective
  <1>8. Dice(T, S, Visto)
    BY <1>2, <1>3 DEF Visible
  <1>9. \A c \in S : T.celda[c].ip \in Ips /\ Visto[T.celda[c].ip] # NULO
    BY <1>8, NodoAssumption, CapAssumption DEF Dice
  <1>10. \A i \in Ips : Visto[i] # NULO => \E c \in S : T.celda[c].ip = i
    BY <1>8 DEF Dice
  <1>11. \A c \in S : \E k \in DOMAIN L : L[k] = c
    BY <1>4 DEF ToSet
  <1>12. \A i : (\E k \in DOMAIN s : s[k] = i) <=> i \in Ips /\ Visto[i] # NULO
    BY <1>6, <1>9, <1>10, <1>11
  <1>13. QED
    BY <1>7, <1>12

\* Every step of the table is one of the directory, or changes nothing of it.
LEMMA PasoDelDirectorio ==
    ASSUME Inv, Inv', Visible, Visible', [Next]_vars
    PROVE  [Directorio!Next]_<<Visto, ahora, listado>>
  <1> DEFINE Meta == Directorio!Next \/ UNCHANGED <<Visto, ahora, listado>>
  <1>1. HInv /\ PInv /\ FInv /\ BInv
    BY DEF Inv
  <1>2. PICK V : V = Visto
    OBVIOUS
  <1>3. PICK W : W = Visto'
    OBVIOUS
  <1>4. V = [i \in Ips |-> V[i]] /\ W = [i \in Ips |-> W[i]]
    BY <1>2, <1>3 DEF Visto
  <1>5. PICK T : T = tabla
    OBVIOUS
  <1>6. PICK U : U = tabla'
    OBVIOUS
  <1>7. PICK S : S = EnTabla
    OBVIOUS
  <1>8. PICK R : R = EnTabla'
    OBVIOUS
  <1>9. Dice(T, S, V) /\ Dice(U, R, W)
    BY <1>2, <1>3, <1>5, <1>6, <1>7, <1>8 DEF Visible
  <1>10. EnUso(T, S) /\ Distintas(T, S)
    BY <1>1, <1>5, <1>7 DEF FInv, Buena, EnTabla, EnUso
  <1>11. ASSUME R = S, \A c \in S : U.celda[c] = T.celda[c] PROVE W = V
    <2>1. \A i \in Ips : W[i] = V[i]
      BY <1>9, <1>11, DiceIgual
    <2>2. QED
      BY <1>4, <2>1
  <1>12. ASSUME UNCHANGED <<tabla, expirados>> PROVE W = V
    <2>1. R = S /\ U = T
      BY <1>5, <1>6, <1>7, <1>8, <1>12 DEF EnTabla, Pendientes
    <2>2. QED
      BY <1>11, <2>1
  <1>13. CASE UNCHANGED vars
    BY <1>2, <1>3, <1>12, <1>13 DEF vars
  <1>14. CASE Tictac
    <2>1. W = V /\ ahora' = ahora + 1 /\ UNCHANGED listado
      BY <1>12, <1>14 DEF Tictac
    <2>2. Directorio!Tictac
      BY <1>2, <1>3, <2>1 DEF Directorio!Tictac, Visto
    <2>3. QED
      BY <2>2 DEF Directorio!Next
  <1>15. ASSUME NEW t \in Hilos, Registrar(t) PROVE Meta
    <2>1. PICK i \in Ips : i = ip[t]
      BY <1>1, <1>15 DEF HInv, Registrar
    <2>2. Anunciada(T, U, S, R, i)
      BY <1>1, <1>5, <1>6, <1>7, <1>8, <1>15, <2>1, PFRegistrar
    <2>3. ConAnuncio(V, W, i)
      BY <1>9, <1>10, <2>2, DiceAnunciada
    <2>4. W = [V EXCEPT ![i] = ahora]
      BY <1>4, <2>3 DEF ConAnuncio
    <2>5. UNCHANGED <<ahora, listado>>
      BY <1>15 DEF Registrar
    <2>6. Directorio!Registrar(i)
      BY <1>2, <1>3, <2>4, <2>5 DEF Directorio!Registrar, Visto
    <2>7. QED
      BY <2>6 DEF Directorio!Next
  <1>16. ASSUME NEW t \in Hilos, BorrarExpirados(t) PROVE Meta
    <2>1. PICK F : F = {c \in S : leido[t] - T.celda[c].anuncio > Vida}
      OBVIOUS
    <2>2. F = {c \in S : Callado(T.celda[c], t)}
      BY <2>1 DEF Callado
    <2>3. R = S \ F /\ MismosDatos(T, U)
      BY <1>1, <1>5, <1>6, <1>7, <1>8, <1>16, <2>2, PFBorrar
    <2>4. PICK l \in 0..ahora : l = leido[t]
      BY <1>1 DEF HInv
    <2>5. Mudas(T, S, F, l)
      BY <2>1, <2>4 DEF Mudas
    <2>6. SinCallados(V, W, l)
      BY <1>9, <1>10, <2>3, <2>5, DiceBorrado
    <2>7. W = [i \in Ips |-> IF V[i] # NULO /\ l - V[i] > Vida THEN NULO ELSE V[i]]
      BY <1>4, <2>6 DEF SinCallados
    <2>8. UNCHANGED <<ahora, listado>>
      BY <1>16 DEF BorrarExpirados
    <2>9. Directorio!Olvidar(l)
      BY <1>2, <1>3, <2>7, <2>8 DEF Directorio!Olvidar, Visto
    <2>10. QED
      BY <2>9 DEF Directorio!Next
  <1>17. ASSUME NEW t \in Hilos, Purgar(t) PROVE Meta
    <2>1. R = S /\ \A c \in S : U.celda[c] = T.celda[c]
      BY <1>1, <1>5, <1>6, <1>7, <1>8, <1>17, PFPurgar
    <2>2. UNCHANGED <<ahora, listado>>
      BY <1>17 DEF Purgar
    <2>3. QED
      BY <1>2, <1>3, <1>11, <2>1, <2>2
  <1>18. ASSUME NEW t \in Hilos, ObtenerNodos(t) PROVE Meta
    <2>1. PICK L : L = Lista(tabla)
      OBVIOUS
    <2>2. PICK s : s = [k \in DOMAIN L |-> tabla.celda[L[k]].ip]
      OBVIOUS
    <2>3. /\ \A j, k \in DOMAIN s : s[j] = s[k] => j = k
          /\ {s[k] : k \in DOMAIN s} = {i \in Ips : Visto[i] # NULO}
      BY <2>1, <2>2, Nombra
    <2>4. listado' = s /\ UNCHANGED <<tabla, expirados, ahora>>
      BY <1>18, <2>1, <2>2 DEF ObtenerNodos
    <2>5. W = V
      BY <1>12, <2>4
    <2>6. Directorio!Listar
      BY <1>2, <1>3, <2>3, <2>4, <2>5
         DEF Directorio!Listar, Directorio!Conocidas, Directorio!IsInjective, Directorio!Range,
             IsInjective, Range, Visto
    <2>7. QED
      BY <2>6 DEF Directorio!Next
  <1>19. ASSUME NEW t \in Hilos, EnviarNodos(t) PROVE Meta
    <2>1. listado' = <<>> /\ UNCHANGED <<tabla, expirados, ahora>>
      BY <1>19 DEF EnviarNodos
    <2>2. W = V
      BY <1>12, <2>1
    <2>3. Directorio!Entregar
      BY <1>2, <1>3, <2>1, <2>2 DEF Directorio!Entregar, Visto
    <2>4. QED
      BY <2>3 DEF Directorio!Next
  <1>20. ASSUME NEW t \in Hilos,
                \/ EmpezarBusqueda(t) \/ TerminarBusqueda(t) \/ PedirNodos(t)
                \/ \E i \in Ips : Recibir(t, i) \/ PedirBusqueda(t, i)
         PROVE  Meta
    <2>1. UNCHANGED <<tabla, expirados, ahora, listado>>
      BY <1>20 DEF EmpezarBusqueda, TerminarBusqueda, PedirNodos, Recibir, PedirBusqueda
    <2>2. QED
      BY <1>2, <1>3, <1>12, <2>1
  <1> HIDE DEF Meta
  <1>21. Meta
    <2>1. CASE UNCHANGED vars \/ Tictac
      BY <1>13, <1>14, <2>1 DEF Meta
    <2>2. CASE \E t \in Hilos : \/ Avanzar(t) \/ PedirNodos(t)
                                \/ \E i \in Ips : Recibir(t, i) \/ PedirBusqueda(t, i)
      BY <1>15, <1>16, <1>17, <1>18, <1>19, <1>20, <2>2 DEF Avanzar
    <2>3. QED
      BY <2>1, <2>2 DEF Next
  <1>22. QED
    BY <1>21 DEF Meta

\* tablanodos.c implements the directory that its header promises: chains,
\* growth, unlinking, the sweep by a clock read before the lock and the frees
\* outside it never lose a node, keep a silent one or list one twice.
THEOREM TablaImplementaDirectorio == Spec => ImplementaDirectorio
  <1>1. Init /\ Visible => Directorio!Init
    <2>1. SUFFICES ASSUME Init, Visible PROVE Directorio!Init
      OBVIOUS
    <2>2. EnTabla = {}
      BY <2>1 DEF Init, EnTabla
    <2>3. \A i \in Ips : Visto[i] = NULO
      BY <2>1, <2>2 DEF Visible, Dice
    <2>4. Visto = [i \in Ips |-> NULO]
      BY <2>3 DEF Visto
    <2>5. QED
      BY <2>1, <2>4 DEF Init, Directorio!Init, Visto
  <1>2. Inv /\ Inv' /\ Visible /\ Visible' /\ [Next]_vars => [Directorio!Next]_Directorio!vars
    BY PasoDelDirectorio DEF Directorio!vars, Visto
  <1>3. QED
    BY InvSiempre, InvVisible, <1>1, <1>2, PTL DEF Spec, ImplementaDirectorio, Directorio!Spec
=============================================================================
