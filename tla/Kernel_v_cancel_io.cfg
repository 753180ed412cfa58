\* THREAD_CANCEL of a thread that does IO.
SPECIFICATION Spec
CONSTANTS
  Algoritmo = "FIFO"
  Nombres = {}
  Prioridades = {0}
  MaxPid = 1
  MaxTid = 2
  MaxPendientes = 1
  Llamadas = {"THREAD_CREATE", "THREAD_CANCEL", "IO", "THREAD_EXIT", "PROCESS_EXIT"}
  Reglas <- ReglasSalvoCancelar
INVARIANTS
  ExitEsDefinitivo
