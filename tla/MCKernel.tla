------------------------------ MODULE MCKernel ------------------------------
(* Model values for the runs of the kernel. *)
EXTENDS KernelProps

TodasLasReglas ==
  {"archivos", "crea el principal", "no espera con mutex", "un mutex",
   "lock correcto", "salida ordenada", "sale el principal", "cancela existente",
   "cancela sin espera", "cancela sin mutex", "busqueda sin IO"}
ReglasSalvoSalida == TodasLasReglas \ {"salida ordenada"}
ReglasSalvoCancelar == TodasLasReglas \ {"cancela sin espera"}

TodasLasLlamadas ==
  {"PROCESS_CREATE", "THREAD_CREATE", "THREAD_JOIN", "THREAD_CANCEL", "MUTEX_CREATE",
   "MUTEX_LOCK", "MUTEX_UNLOCK", "IO", "DUMP_MEMORY", "THREAD_EXIT", "PROCESS_EXIT",
   "SEGMENTATION_FAULT", "INTERRUPCION"}
=============================================================================
