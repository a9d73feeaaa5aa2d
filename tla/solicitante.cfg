CONSTANTS
  h1 = h1 h2 = h2 j1 = j1 j2 = j2 d1 = d1 d2 = d2 n1 = n1 n2 = n2
  Nulo = Nulo
  Hilos = {h1, h2}
  Trabajos = {j1, j2}
  Destinos = {d1, d2}
  Nodo <- NodoDos
  Pide <- PideDos
  Intentos <- Veces
  MaxPedidos = 2
  Vecinos = {n1}
  Caidas = {n1}
  MaxFallas = 1
  Excesivos <- J1D2
SPECIFICATION Spec
INVARIANTS TypeOK UnHiloPorConexion UsaLoReservado EntradaUnica SoloLaPurgaDejaHuerfanas
SYMMETRY HilosIguales
CHECK_DEADLOCK FALSE
