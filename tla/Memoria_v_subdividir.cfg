\* Dynamic partitions: the remainder of a divided partition goes to the end.
SPECIFICATION Spec
CONSTANTS
  EsquemaMemoria = "DINAMICAS"
  AlgoritmoBusqueda = "FIRST"
  Particiones <- UnaDoce
  Tamanios = {2, 4, 8}
  Direcciones = {0}
  MaxPid = 4
  MaxTid = 1
PROPERTIES
  LoEscritoQueda
