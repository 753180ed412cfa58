\* PROCESS_EXIT while several threads of the process are ready.
SPECIFICATION Spec
CONSTANTS
  Algoritmo = "FIFO"
  Nombres = {}
  Prioridades = {0}
  MaxPid = 1
  MaxTid = 4
  MaxPendientes = 1
  Llamadas = {"THREAD_CREATE", "THREAD_EXIT", "PROCESS_EXIT"}
  Reglas <- ReglasSalvoSalida
INVARIANTS
  SinHuerfanos
