CONSTANTS
  Nodos = {1, 2}
  Capacidad <- Dos
  GB = 2
  MaxTrabajos = 3
  Listados <- NingunoOTodos
  INTENTOS_HASTA_DESCARTAR = 1
  Negables = {1}
SPECIFICATION SpecJusta
CHECK_DEADLOCK FALSE
INVARIANTS TypeOK MitadDeCadaNodo PermisoVigente SinReservasOlvidadas
PROPERTIES RepartoExacto EsperaTermina
