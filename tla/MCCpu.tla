-------------------------------- MODULE MCCpu --------------------------------
(* Scripts for the runs of the CPU. *)
EXTENDS CpuProps

CONSTANTS h1, h2

Set(r, v) == [op |-> "SET", r |-> r, v |-> v]
Op(op, r, s) == [op |-> op, r |-> r, s |-> s]
Jnz(r, v) == [op |-> "JNZ", r |-> r, v |-> v]
Llamada(op) == [op |-> op]

\* One that may never stop, and one with each kind of syscall that uses addresses
\* beyond its partition, first where the sum wraps around and last where it faults.
Repite == <<Set("AX", 1), Op("READ_MEM", "AX", "AX"), Jnz("AX", 0), Llamada("PROCESS_EXIT")>>
ConTodo ==
  <<Llamada("MUTEX_CREATE"), Set("BX", 1), Llamada("MUTEX_CREATE"), Llamada("IO"),
    Op("SUB", "AX", "BX"), Op("WRITE_MEM", "AX", "BX"), Llamada("DUMP_MEMORY"),
    Op("SUM", "AX", "AX"), Llamada("IO"), Op("READ_MEM", "AX", "AX"),
    Llamada("PROCESS_EXIT")>>

Programas == [h \in Hilos |-> IF h = h1 THEN Repite ELSE ConTodo]
MismaPrioridad == [h \in Hilos |-> 0]
BaseUno == [h \in Hilos |-> 1]
LimiteDos == [h \in Hilos |-> 2]
=============================================================================
