\* One process with three threads of one priority under multilevel queues: join, cancel,
\* mutex, IO, dump, exits, and evictions between any two syscalls, with the progress of
\* each under the fairness of FairSpec.
SPECIFICATION FairSpec
CONSTANTS
  Algoritmo = "CMN"
  Nombres = {m1}
  Prioridades = {0}
  MaxPid = 1
  MaxTid = 3
  MaxPendientes = 1
  Llamadas = {"THREAD_CREATE", "THREAD_JOIN", "THREAD_CANCEL", "MUTEX_CREATE", "MUTEX_LOCK",
              "MUTEX_UNLOCK", "IO", "DUMP_MEMORY", "THREAD_EXIT", "PROCESS_EXIT", "INTERRUPCION"}
  Reglas <- TodasLasReglas
INVARIANTS
  TypeOK BloqueadoConDespertador MutexConVivos ExitEsDefinitivo UnLugarPorHilo NadieTrabado
PROPERTIES
  SoloElDuenioLibera TraspasoEnOrden ReadyLlegaAExec IoVuelve MutexLlega
