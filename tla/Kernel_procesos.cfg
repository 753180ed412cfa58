\* Two processes of two threads that are created, compete by priority, are evicted and end.
SPECIFICATION Spec
CONSTANTS
  Algoritmo = "CMN"
  Nombres = {}
  Prioridades = {0, 1}
  MaxPid = 2
  MaxTid = 2
  MaxPendientes = 1
  Llamadas = {"PROCESS_CREATE", "THREAD_CREATE", "THREAD_JOIN", "THREAD_CANCEL", "IO", "DUMP_MEMORY",
              "THREAD_EXIT", "PROCESS_EXIT", "SEGMENTATION_FAULT", "INTERRUPCION"}
  Reglas <- TodasLasReglas
INVARIANTS
  SinHuerfanos NuncaAborta CpuEjecutaExec
PROPERTIES
  OrdenDeReady CumpleCicloDeVida
