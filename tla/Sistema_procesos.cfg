\* Three processes of one thread in twelve bytes of dynamic partitions: they wait, start,
\* do IO and end in any order, and memory is divided, joined and compacted for them.
SPECIFICATION FairSistema
CONSTANTS
  Algoritmo = "FIFO"
  Nombres = {}
  Prioridades = {0}
  MaxPid = 3
  MaxTid = 1
  MaxPendientes = 0
  Llamadas = {"PROCESS_CREATE", "IO", "PROCESS_EXIT"}
  Reglas <- ReglasDelSistema
  EsquemaMemoria = "DINAMICAS"
  AlgoritmoBusqueda = "FIRST"
  Particiones <- UnaDoce
  Tamanios = {2, 5, 8}
INVARIANTS
  MismosProcesos NadieEsperaConLugar
PROPERTIES
  NuevoLlega
