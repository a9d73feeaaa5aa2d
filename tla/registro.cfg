CONSTANTS
  Nodos = {1, 2}
  Capacidad <- Dos
  GB = 2
  MaxTrabajos = 1
  Listados <- Todos
  INTENTOS_HASTA_DESCARTAR = 1
  Negables = {1}
SPECIFICATION SpecJusta
CHECK_DEADLOCK FALSE
PROPERTY OtraRondaLlega
