------------------------------- MODULE Maquinas -------------------------------
(***************************************************************************)
(* What the CPU, the kernel and memory promise together to the threads:    *)
(* each runs its script as if it had a processor of its own, one           *)
(* instruction after the other, whatever evictions and syscalls do.        *)
(***************************************************************************)
EXTENDS Instrucciones

CONSTANT Fin  \* in place of the context of a thread that has ended

VARIABLE maquina

Init == maquina = [h \in Hilos |-> ContextoInicial]

\* The thread runs the instruction at its PC.
Avanza(h) ==
  /\ maquina[h] # Fin
  /\ ~Falla(h, maquina[h]) /\ Actual(h, maquina[h]).op \notin Termina
  /\ \E c \in Ejecutar(h, maquina[h]) : maquina' = [maquina EXCEPT ![h] = c]

\* The thread ends: by its call, by a fault, or because its dump fails.
Acaba(h) ==
  /\ maquina[h] # Fin
  /\ Falla(h, maquina[h]) \/ Actual(h, maquina[h]).op \in Termina \cup Vuelca
  /\ maquina' = [maquina EXCEPT ![h] = Fin]

Spec == Init /\ [][\E h \in Hilos : Avanza(h) \/ Acaba(h)]_maquina
=============================================================================
