------------------------------ MODULE CpuProps ------------------------------
(* The properties of the bursts of the CPU and of the quantum. *)
EXTENDS Cpu

CONSTANT Fin  \* in place of the context of a thread that has ended

ASSUME FinAssumption == Fin \notin Contextos

\* The queues hold threads, a burst has a thread, a context and a step, and the
\* counter of the WaitGroup never falls below 0, where Go panics, nor counts a
\* burst twice (cpu 202, 263, 268).
TypeOK ==
  /\ colaReadyHilo \in Seq(Hilos) /\ colaExecHilo \in Seq(Hilos)
  /\ enIo \subseteq Hilos /\ terminados \subseteq Hilos
  /\ contextos \in [Hilos -> Contextos]
  /\ rafagas \in Seq(Rafagas) /\ hiloAnt \in {<<>>} \cup {<<h>> : h \in Hilos}
  /\ syscallEnviada \in BOOLEAN /\ flagSegmentationFault \in BOOLEAN
  /\ nuevaInterrupcion \in [flagInterrupcion : BOOLEAN, hilo : Hilos]
  /\ wg \in {0, 1}
  /\ temporizadores \in [DOMAIN temporizadores -> Temporizador]
  /\ DOMAIN temporizadores \subseteq Relojes

\* The burst will run an instruction, or may.
Activa(r) == r.paso \in {"recibe", "inicio", "ciclo"}

\* Only the innermost burst goes on, and only for the thread in exec: once the
\* thread has left the CPU, in whatever burst, the bursts around it end without
\* another instruction on their old contexts (syscallEnviada, a variable that
\* all bursts share, cpu 300).
RafagaDelExec ==
  /\ \A k \in DOMAIN rafagas : k < Len(rafagas) => rafagas[k].paso = "llamada"
  /\ rafagas # <<>> =>
       \/ colaExecHilo = <<Tope.hilo>>
       \/ Tope.paso = "llamada"
       \/ Tope.paso = "control" /\ syscallEnviada

\* The context of a thread wherever it is now: in the burst that runs, in memory,
\* or nowhere when the thread ended or is about to, for a fault.
EnRafaga(h) ==
  /\ rafagas # <<>> /\ Tope.hilo = h
  /\ Tope.paso \notin {"recibe", "llamada"} /\ ~syscallEnviada
Visible(h) ==
  IF h \in terminados \/ (flagSegmentationFault /\ Tope.hilo = h) THEN Fin
  ELSE IF EnRafaga(h) THEN Tope.ctx ELSE contextos[h]

\* Each thread runs its script as on a machine of its own: no eviction, syscall
\* or nested burst loses an instruction or runs one twice (cpu 357, 1047).
Maquina == INSTANCE Maquinas WITH maquina <- [h \in Hilos |-> Visible(h)]
CumpleMaquinas == Maquina!Spec

\* Memory serves an address only if it is one of the thread's own partition, even
\* when its sum with the base wraps around (cpu 648, memoria 1061, 1171).
AccesoPropio ==
  \A h \in Hilos : Visible(h) # Fin =>
    \A r \in Registros :
      LET l == Visible(h).reg[r] IN Servido(h, l) => l <= Limite[h] - Base[h]

\* With interruptions that arrive before the next quantum ends, a thread that
\* runs always has its eviction to come: a timer, an interruption on its way, or
\* one in the slot.  None is overwritten or lost (cpu 1119, kernel 884).
SiempreDesalojable ==
  rafagas # <<>> /\ Tope.paso \notin {"desalojo inicial", "desalojo"} =>
    \A j \in DOMAIN colaExecHilo :
      \/ ParaEl(colaExecHilo[j])
      \/ \E i \in DOMAIN temporizadores : temporizadores[i].hilo = colaExecHilo[j]

\* A thread of the best priority gets the CPU again and again until it ends, even
\* if another never stops (src/pruebas/MEM_DINAMICA_PROC): this is what the fairness
\* of the kernel's model assumes (DejaCpu).
Mejor(h) == \A g \in Hilos : Prioridad[h] <= Prioridad[g]
RotaLaCpu ==
  \A h \in Hilos : Mejor(h) => (~(h \in terminados)) ~> (colaExecHilo = <<h>> \/ h \in terminados)
=============================================================================
