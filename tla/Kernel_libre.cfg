\* Two processes that start at once or wait for memory, with two mutexes each or with IO
\* and joins, whose searches of block the goroutines cross, and scripts that cancel, lock
\* and end out of turn.  They may hang the kernel.
SPECIFICATION Spec
CONSTANTS
  Algoritmo = "FIFO"
  Nombres = {m1, m2}
  Prioridades = {0}
  MaxPid = 2
  MaxTid = 2
  MaxPendientes = 1
  Llamadas = {"PROCESS_CREATE", "THREAD_CREATE", "THREAD_JOIN", "THREAD_CANCEL", "IO",
              "MUTEX_CREATE", "MUTEX_LOCK", "MUTEX_UNLOCK", "THREAD_EXIT", "PROCESS_EXIT"}
  Reglas = {"crea el principal", "archivos", "IO aparte", "sin repetidos"}
CHECK_DEADLOCK FALSE
INVARIANTS
  MutexCoherente PidsEnOrden
