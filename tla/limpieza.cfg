CONSTANTS
  h1 = h1 h2 = h2 c1 = c1 c2 = c2 c3 = c3 a = a b = b d = d j1 = j1 j2 = j2 j3 = j3 c4 = c4
  NULO = NULO
  Hilos = {h1, h2}
  Conexiones = {c1, c2, c3}
  Nodos = {a, b, d}
  JobIds = {j1, j2, j3}
  Capacidad <- Cap2
  Pedido <- PedidosP
  Expirables = {}
  Impacientes = {c1, c2, c3}
  RecIndefinido = {"cpu", NULO}
SPECIFICATION Spec
INVARIANT LimpiezaCompleta
