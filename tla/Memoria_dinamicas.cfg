\* Dynamic partitions, divided, joined and compacted, and processes that wait for
\* memory.  The run stops when its MaxPid processes have come and gone.
SPECIFICATION FairSpec
CONSTANTS
  EsquemaMemoria = "DINAMICAS"
  AlgoritmoBusqueda = "FIRST"
  Particiones <- UnaDoce
  Tamanios = {2, 5, 6}
  Direcciones = {}
  MaxPid = 5
  MaxTid = 0
CHECK_DEADLOCK FALSE
INVARIANTS
  TypeOK OcupacionCoherente SumaConstante
PROPERTIES
  CompactarAlcanza EsperaTermina
