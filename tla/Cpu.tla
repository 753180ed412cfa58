-------------------------------- MODULE Cpu --------------------------------
(***************************************************************************)
(* The bursts of the CPU (src/cpu/utils/utils.go) and the quantum of the   *)
(* multilevel queues (src/kernel/utils/utils.go:860-890).                  *)
(*                                                                         *)
(* The kernel dispatches a thread by a call that the CPU answers when the  *)
(* burst is over, and a syscall is a call from the CPU to the kernel, which *)
(* may dispatch the thread again before it answers.  So bursts nest: the    *)
(* last of "rafagas" runs, and the others wait for the kernel.  The timers *)
(* of the quantum and the interruptions that they send run on their own.   *)
(***************************************************************************)
EXTENDS Instrucciones, FiniteSets

CONSTANTS
  Prioridad,          \* the priority of each thread
  MaxTemporizadores,  \* bound: timers alive at once
  Supuestos           \* what is assumed of delays, see "Delays"

ASSUME CpuAssumption ==
  /\ IsFiniteSet(Hilos) /\ Hilos # {}
  /\ Prioridad \in [Hilos -> Nat]
  /\ MaxTemporizadores \in Nat \ {0}

VARIABLES
  colaReadyHilo, colaExecHilo,  \* queues of the kernel
  enIo,               \* threads in block, each with its goroutine of IO
  terminados,         \* threads that have ended
  contextos,          \* the context of each thread in memory
  rafagas,            \* the bursts, outermost first
  hiloAnt,            \* the thread that ran last: none, or a sequence of one
  syscallEnviada, flagSegmentationFault,  \* what the last instruction did
  nuevaInterrupcion,  \* the slot for an interruption
  wg,                 \* counter of the WaitGroup
  temporizadores      \* the goroutines of comenzarQuantum with their interruptions

kernel == <<colaReadyHilo, colaExecHilo, enIo, terminados>>
banderas == <<syscallEnviada, flagSegmentationFault>>
quantum == <<nuevaInterrupcion, temporizadores>>
vars == <<kernel, contextos, rafagas, hiloAnt, banderas, wg, quantum>>

-----------------------------------------------------------------------------
(* Data *)

Rafagas == [hilo : Hilos, ctx : Contextos,
            paso : {"recibe", "inicio", "ciclo", "llamada", "control",
                    "desalojo inicial", "desalojo"}]

\* A timer sleeps; its interruption is on the way, waits for wg, is woken up,
\* or has passed wg.Wait and is about to be stored.
EnCamino == {"enviada", "espera", "despierta", "registra"}
Temporizador == [hilo : Hilos, etapa : {"duerme"} \cup EnCamino]

Relojes == 1..MaxTemporizadores
Libres == Relojes \ DOMAIN temporizadores

\* The condition of CheckInterrupt.
ParaEl(h) == nuevaInterrupcion.flagInterrupcion /\ nuevaInterrupcion.hilo = h

Tope == rafagas[Len(rafagas)]
Interna(paso) == rafagas # <<>> /\ Tope.paso = paso

Cambiar(r) == rafagas' = [rafagas EXCEPT ![Len(rafagas)] = r]
Pasar(paso) == Cambiar([Tope EXCEPT !.paso = paso])
FinRafaga == rafagas' = SubSeq(rafagas, 1, Len(rafagas) - 1)

\* enviarTCBCpu of thread h, called within the burst r or by the scheduler.
enviarTCBCpu(h) == [hilo |-> h, ctx |-> ContextoInicial, paso |-> "recibe"]

\* quitarExec, and the same for ready (see eliminarHiloCola in Kernel.tla for
\* what happens to a queue without the thread).
Quitar(cola, h) ==
  LET i == CHOOSE i \in DOMAIN cola : cola[i] = h
  IN IF \E j \in DOMAIN cola : cola[j] = h
     THEN SubSeq(cola, 1, i - 1) \o SubSeq(cola, i + 1, Len(cola)) ELSE <<>>

-----------------------------------------------------------------------------
(* Delays.  The code sets no order between a call and a goroutine that       *)
(* started before it; a run may assume one that their times make likely.     *)

Supuesto(nombre, condicion) == nombre \in Supuestos => condicion

\* No interruption is on its way when the next timer goes off: a quantum is
\* tens of milliseconds, a local call less than one.
NadaEnCamino == \A i \in DOMAIN temporizadores : temporizadores[i].etapa \notin EnCamino

\* A goroutine that wg.Done woke up runs before the next dispatch arrives.
NadieDespierta == \A i \in DOMAIN temporizadores : temporizadores[i].etapa # "despierta"

-----------------------------------------------------------------------------
(* The scheduler and its timers *)

obtenerHiloMayorPrioridad ==
  CHOOSE i \in DOMAIN colaReadyHilo :
    \A j \in DOMAIN colaReadyHilo :
      \/ Prioridad[colaReadyHilo[i]] < Prioridad[colaReadyHilo[j]]
      \/ Prioridad[colaReadyHilo[i]] = Prioridad[colaReadyHilo[j]] /\ i <= j

\* A new timer for thread h, which runs on its own.
comenzarQuantum(h) ==
  LET i == CHOOSE i \in Libres : \A j \in Libres : i <= j
  IN /\ Libres # {}
     /\ temporizadores' = [j \in DOMAIN temporizadores \cup {i} |->
          IF j = i THEN [hilo |-> h, etapa |-> "duerme"] ELSE temporizadores[j]]

Despachable == rafagas = <<>> /\ colaReadyHilo # <<>> /\ colaExecHilo = <<>>

\* Mutant: a thread that ran last keeps its timer.
ejecutarHilosColasMultinivel_MismoReloj ==
  LET h == colaReadyHilo[obtenerHiloMayorPrioridad]
  IN /\ Despachable
     /\ IF hiloAnt = <<h>> THEN UNCHANGED temporizadores ELSE comenzarQuantum(h)
     /\ colaReadyHilo' = Quitar(colaReadyHilo, h)
     /\ colaExecHilo' = Append(colaExecHilo, h)
     /\ rafagas' = <<enviarTCBCpu(h)>>
     /\ UNCHANGED <<enIo, terminados, contextos, hiloAnt, banderas, wg, nuevaInterrupcion>>

ejecutarHilosColasMultinivel ==
  LET h == colaReadyHilo[obtenerHiloMayorPrioridad]
  IN /\ Despachable
     /\ comenzarQuantum(h)
     /\ colaReadyHilo' = Quitar(colaReadyHilo, h)
     /\ colaExecHilo' = Append(colaExecHilo, h)
     /\ rafagas' = <<enviarTCBCpu(h)>>
     /\ UNCHANGED <<enIo, terminados, contextos, hiloAnt, banderas, wg, nuevaInterrupcion>>

SinTemporizador(i) ==
  temporizadores' = [j \in DOMAIN temporizadores \ {i} |-> temporizadores[j]]
Etapa(i, etapa) == temporizadores' = [temporizadores EXCEPT ![i].etapa = etapa]
EnEtapa(i, etapa) == i \in DOMAIN temporizadores /\ temporizadores[i].etapa = etapa

\* The quantum is over: an interruption, if its thread is in exec.
VenceQuantum(i) ==
  /\ EnEtapa(i, "duerme")
  /\ Supuesto("quantum largo", NadaEnCamino)
  /\ IF colaExecHilo # <<>> /\ colaExecHilo[1] = temporizadores[i].hilo
     THEN Etapa(i, "enviada") ELSE SinTemporizador(i)
  /\ UNCHANGED <<kernel, contextos, rafagas, hiloAnt, banderas, wg, nuevaInterrupcion>>

\* Mutant: an interruption that arrives while a context is fetched is dropped.
RecieveInterruption_SinEsperar(i) ==
  /\ EnEtapa(i, "enviada")
  /\ IF wg = 0 THEN Etapa(i, "registra") ELSE SinTemporizador(i)
  /\ UNCHANGED <<kernel, contextos, rafagas, hiloAnt, banderas, wg, nuevaInterrupcion>>

\* RecieveInterruption up to wg.Wait.
RecieveInterruption(i) ==
  /\ EnEtapa(i, "enviada")
  /\ Etapa(i, IF wg = 0 THEN "registra" ELSE "espera")
  /\ UNCHANGED <<kernel, contextos, rafagas, hiloAnt, banderas, wg, nuevaInterrupcion>>

\* Back from wg.Wait: the library panics when the counter has been used again
\* before the goroutine runs ("WaitGroup is reused"), and the request is lost.
VuelveDeWait(i) ==
  /\ EnEtapa(i, "despierta")
  /\ IF wg = 0 THEN Etapa(i, "registra") ELSE SinTemporizador(i)
  /\ UNCHANGED <<kernel, contextos, rafagas, hiloAnt, banderas, wg, nuevaInterrupcion>>

\* The rest of RecieveInterruption: what the slot held is lost.
Registra(i) ==
  /\ EnEtapa(i, "registra")
  /\ nuevaInterrupcion' = [flagInterrupcion |-> TRUE, hilo |-> temporizadores[i].hilo]
  /\ SinTemporizador(i)
  /\ UNCHANGED <<kernel, contextos, rafagas, hiloAnt, banderas, wg>>

-----------------------------------------------------------------------------
(* A burst *)

\* wg.Done: the last one wakes up those that wait.
Done ==
  /\ wg' = wg - 1
  /\ temporizadores' =
       [i \in DOMAIN temporizadores |->
          IF wg = 1 /\ temporizadores[i].etapa = "espera"
          THEN [temporizadores[i] EXCEPT !.etapa = "despierta"] ELSE temporizadores[i]]

\* The CPU gets the thread, and its context from memory.
RecibirPIDyTID ==
  /\ Interna("recibe")
  /\ Supuesto("despierta a tiempo", NadieDespierta)
  /\ wg' = wg + 1
  /\ Cambiar([Tope EXCEPT !.paso = "inicio", !.ctx = contextos[Tope.hilo]])
  /\ UNCHANGED <<kernel, contextos, hiloAnt, banderas, quantum>>

\* CheckInterrupt answers true, and the slot is empty again.
CheckInterrupt ==
  /\ ParaEl(Tope.hilo)
  /\ nuevaInterrupcion' = [nuevaInterrupcion EXCEPT !.flagInterrupcion = FALSE]

\* ActualizarContextoDeEjecucion
Guardar == contextos' = [contextos EXCEPT ![Tope.hilo] = Tope.ctx]

\* Mutant: the kernel hears of the eviction, and memory does not get the context.
RealizarInterrupcion_SinGuardar(paso) == Pasar(paso) /\ UNCHANGED contextos

\* RealizarInterrupcion saves the context, and then calls the kernel.
RealizarInterrupcion(paso) == Pasar(paso) /\ Guardar

\* A burst of the thread that ran last is over at once if it was interrupted.
InterrupcionInicial ==
  /\ Interna("inicio") /\ hiloAnt = <<Tope.hilo>>
  /\ CheckInterrupt
  /\ RealizarInterrupcion("desalojo inicial")
  /\ UNCHANGED <<kernel, hiloAnt, banderas, wg, temporizadores>>

\* Any other begins its loop.
InstructionCycle ==
  /\ Interna("inicio")
  /\ hiloAnt = <<Tope.hilo>> => ~ParaEl(Tope.hilo)
  /\ Done
  /\ hiloAnt' = <<Tope.hilo>>
  /\ Pasar("ciclo")
  /\ UNCHANGED <<kernel, contextos, banderas, nuevaInterrupcion>>

\* Mutant: the early return forgets wg.Done.
DevolverPidTid_SinDone ==
  /\ Interna("desalojo") \/ Interna("desalojo inicial")
  /\ colaExecHilo' = Quitar(colaExecHilo, Tope.hilo)
  /\ colaReadyHilo' = Append(colaReadyHilo, Tope.hilo)
  /\ FinRafaga
  /\ UNCHANGED <<enIo, terminados, contextos, hiloAnt, banderas, quantum, wg>>

\* The kernel puts the thread back in ready, and the burst is over.
DevolverPidTid ==
  /\ Interna("desalojo") \/ Interna("desalojo inicial")
  /\ colaExecHilo' = Quitar(colaExecHilo, Tope.hilo)
  /\ colaReadyHilo' = Append(colaReadyHilo, Tope.hilo)
  /\ FinRafaga
  /\ IF Tope.paso = "desalojo inicial" THEN Done ELSE UNCHANGED <<wg, temporizadores>>
  /\ UNCHANGED <<enIo, terminados, contextos, hiloAnt, banderas, nuevaInterrupcion>>

-----------------------------------------------------------------------------
(* Fetch, Decode and Execute *)

Busca(ops) == Interna("ciclo") /\ Actual(Tope.hilo, Tope.ctx).op \in ops

\* An instruction of the CPU, or an access to memory.
Execute ==
  /\ Interna("ciclo") /\ ~Busca(Syscalls)
  /\ \E c \in Ejecutar(Tope.hilo, Tope.ctx) :
       Cambiar([Tope EXCEPT !.ctx = c, !.paso = "control"])
  /\ flagSegmentationFault' = Falla(Tope.hilo, Tope.ctx)
  /\ UNCHANGED <<kernel, contextos, hiloAnt, syscallEnviada, wg, quantum>>

\* The context after Fetch, which a syscall saves before its call.
Siguiente == CHOOSE c \in Ejecutar(Tope.hilo, Tope.ctx) : TRUE

GuardarSiguiente == contextos' = [contextos EXCEPT ![Tope.hilo] = Siguiente]

\* A syscall after which the kernel sends the thread to the CPU again.
LlamadaQueSigue ==
  /\ Busca(Sigue)
  /\ GuardarSiguiente
  /\ rafagas' = Append([rafagas EXCEPT ![Len(rafagas)].ctx = Siguiente,
                                       ![Len(rafagas)].paso = "llamada"],
                       enviarTCBCpu(Tope.hilo))
  /\ UNCHANGED <<kernel, hiloAnt, banderas, wg, quantum>>

\* The kernel answers it, once the inner burst is over.
Respuesta ==
  /\ Interna("llamada")
  /\ syscallEnviada' = TRUE
  /\ Pasar("control")
  /\ UNCHANGED <<kernel, contextos, hiloAnt, flagSegmentationFault, wg, quantum>>

\* Mutant: the burst is not told that a syscall was sent.
Contestada_SinAviso == Cambiar([Tope EXCEPT !.ctx = Siguiente, !.paso = "control"])
                         /\ UNCHANGED syscallEnviada

\* A syscall that the kernel answers at once.
Contestada == /\ Cambiar([Tope EXCEPT !.ctx = Siguiente, !.paso = "control"])
              /\ syscallEnviada' = TRUE

\* IO: the thread is blocked, with a goroutine that sleeps.
ManejarIo ==
  /\ Busca(Bloquea)
  /\ GuardarSiguiente /\ Contestada
  /\ colaExecHilo' = Quitar(colaExecHilo, Tope.hilo)
  /\ enIo' = enIo \cup {Tope.hilo}
  /\ UNCHANGED <<colaReadyHilo, terminados, hiloAnt, flagSegmentationFault, wg, quantum>>

\* DUMP_MEMORY: the thread is ready again, or its process ends.
DumpMemory(hecho) ==
  /\ Busca(Vuelca)
  /\ GuardarSiguiente /\ Contestada
  /\ colaExecHilo' = Quitar(colaExecHilo, Tope.hilo)
  /\ IF hecho
     THEN colaReadyHilo' = Append(colaReadyHilo, Tope.hilo) /\ UNCHANGED terminados
     ELSE terminados' = terminados \cup {Tope.hilo} /\ UNCHANGED colaReadyHilo
  /\ UNCHANGED <<enIo, hiloAnt, flagSegmentationFault, wg, quantum>>

\* exitProcess of the thread's process.
exitProcess ==
  /\ colaExecHilo' = Quitar(colaExecHilo, Tope.hilo)
  /\ terminados' = terminados \cup {Tope.hilo}
  /\ UNCHANGED <<colaReadyHilo, enIo>>

FinalizarProceso ==
  /\ Busca(Termina)
  /\ GuardarSiguiente /\ Contestada
  /\ exitProcess
  /\ UNCHANGED <<hiloAnt, flagSegmentationFault, wg, quantum>>

-----------------------------------------------------------------------------
(* After an instruction *)

EnviarSegmentationFault ==
  /\ Interna("control") /\ flagSegmentationFault
  /\ flagSegmentationFault' = FALSE
  /\ exitProcess
  /\ FinRafaga
  /\ UNCHANGED <<contextos, hiloAnt, syscallEnviada, wg, quantum>>

FinPorSyscall ==
  /\ Interna("control") /\ ~flagSegmentationFault /\ syscallEnviada
  /\ syscallEnviada' = FALSE
  /\ FinRafaga
  /\ UNCHANGED <<kernel, contextos, hiloAnt, flagSegmentationFault, wg, quantum>>

SinNovedad == Interna("control") /\ ~flagSegmentationFault /\ ~syscallEnviada

Interrupcion ==
  /\ SinNovedad
  /\ CheckInterrupt
  /\ RealizarInterrupcion("desalojo")
  /\ UNCHANGED <<kernel, hiloAnt, banderas, wg, temporizadores>>

OtraInstruccion ==
  /\ SinNovedad /\ ~ParaEl(Tope.hilo)
  /\ Pasar("ciclo")
  /\ UNCHANGED <<kernel, contextos, hiloAnt, banderas, wg, quantum>>

-----------------------------------------------------------------------------
(* The specification *)

\* The goroutine of ManejarIo puts the thread in ready.
TerminaIo(h) ==
  /\ h \in enIo
  /\ enIo' = enIo \ {h}
  /\ colaReadyHilo' = Append(colaReadyHilo, h)
  /\ UNCHANGED <<colaExecHilo, terminados, contextos, rafagas, hiloAnt, banderas, wg, quantum>>

Init ==
  /\ colaReadyHilo \in {s \in [1..Cardinality(Hilos) -> Hilos] :
                          \A i, j \in DOMAIN s : s[i] = s[j] => i = j}
  /\ colaExecHilo = <<>> /\ enIo = {} /\ terminados = {}
  /\ contextos = [h \in Hilos |-> ContextoInicial]
  /\ rafagas = <<>> /\ hiloAnt = <<>>
  /\ syscallEnviada = FALSE /\ flagSegmentationFault = FALSE
  /\ nuevaInterrupcion = [flagInterrupcion |-> FALSE, hilo |-> colaReadyHilo[1]]
  /\ wg = 0 /\ temporizadores = <<>>

\* The steps of the chain of calls.
Cadena ==
  \/ ejecutarHilosColasMultinivel
  \/ RecibirPIDyTID \/ InterrupcionInicial \/ InstructionCycle \/ DevolverPidTid
  \/ Execute \/ LlamadaQueSigue \/ Respuesta \/ ManejarIo \/ FinalizarProceso
  \/ \E hecho \in BOOLEAN : DumpMemory(hecho)
  \/ EnviarSegmentationFault \/ FinPorSyscall \/ Interrupcion \/ OtraInstruccion

PasoInterrupcion(i) == RecieveInterruption(i) \/ VuelveDeWait(i) \/ Registra(i)

\* Every thread has ended.
Terminado == terminados = Hilos /\ rafagas = <<>> /\ UNCHANGED vars

Next ==
  \/ Cadena
  \/ \E i \in Relojes : VenceQuantum(i) \/ PasoInterrupcion(i)
  \/ \E h \in Hilos : TerminaIo(h)
  \/ Terminado

Spec == Init /\ [][Next]_vars

\* Calls return, and every sleep ends.
Fairness ==
  /\ WF_vars(Cadena)
  /\ \A i \in Relojes : SF_vars(VenceQuantum(i)) /\ WF_vars(PasoInterrupcion(i))
  /\ \A h \in Hilos : WF_vars(TerminaIo(h))

FairSpec == Spec /\ Fairness
=============================================================================
