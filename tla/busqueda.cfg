CONSTANTS
  i1 = i1 i2 = i2 i3 = i3
  NULO = NULO
  Hilos = {h1, h2}
  Ips = {i1, i2, i3}
  Hash <- HashChoca
  CapInicial = 2
  Vida = 1
  MaxTiempo = 0
  Celdas = {n1, n2, n3, n4, n5, n6}
SPECIFICATION SpecJusta
PROPERTIES BusquedaTermina
CHECK_DEADLOCK FALSE
