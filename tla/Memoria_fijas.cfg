\* Fixed partitions of three sizes, best fit, processes that write, and the contexts of threads.
SPECIFICATION Spec
CONSTANTS
  EsquemaMemoria = "FIJAS"
  AlgoritmoBusqueda = "BEST"
  Particiones <- FijasChicas
  Tamanios = {2, 5, 8}
  Direcciones = {0, 4}
  MaxPid = 3
  MaxTid = 1
INVARIANTS
  SuParticion
PROPERTIES
  LoEscritoQueda LiberaSuEspacio
