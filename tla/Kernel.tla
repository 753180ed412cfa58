------------------------------- MODULE Kernel -------------------------------
(***************************************************************************)
(* The kernel of the simulated operating system: the ready, exec and block *)
(* queues of threads, the queue of processes waiting for memory, the       *)
(* mutexes of each process, and the handlers of the syscalls that the CPU  *)
(* sends (src/kernel/utils/utils.go).                                      *)
(*                                                                         *)
(* The CPU answers the dispatch of a thread only when the burst of that    *)
(* thread is over, and it waits for the answer of every syscall.  So the   *)
(* scheduler, the CPU and the syscall handlers form one chain of calls,    *)
(* of which one step is taken at a time: "pc" says where the chain stands  *)
(* and "hilo" for which thread.  The goroutines of IO (utils.go:1102) are  *)
(* the only ones that touch the queues on their own.                       *)
(***************************************************************************)
EXTENDS Integers, Sequences, FiniteSets

CONSTANTS
  Algoritmo,    \* the scheduling algorithm of the configuration
  Nombres,      \* the names of mutexes that scripts use
  Prioridades,  \* the priorities that scripts give to threads
  MaxPid,       \* bound: processes created in a run
  MaxTid,       \* bound: threads created in one process
  MaxPendientes,  \* bound: lockMutex loops left to be resumed at once
  Llamadas,     \* the syscalls (and faults) that scripts meet
  Reglas        \* the rules that scripts keep, see "Rules of the scripts"

ASSUME KernelAssumption ==
  /\ Algoritmo \in {"FIFO", "PRIORIDADES", "CMN"}
  /\ Prioridades \subseteq Nat
  /\ 0 \in Prioridades
  /\ MaxPid \in Nat \ {0}
  /\ MaxTid \in Nat \ {0}
  /\ MaxPendientes \in Nat

VARIABLES
  colaReadyHilo, colaExecHilo, colaBlockHilo,  \* queues of TCBs
  colaExitHilo,               \* the threads ever put in the exit queue
  colaProcesosInicializados,  \* pid -> mutexes of each initialised process
  colaProcesosSinIniciar,     \* processes in NEW, waiting for memory
  nextPid, nextTid,           \* the next pid, and the next tid of each process
  sinContexto,  \* threads for which memory could not open the script
  esperas,      \* pending wake-ups: IO goroutines, and the dump in progress
  pc, hilo,     \* where the chain stands, and the thread it works for
  pendientes,   \* lockMutex loops still to be resumed, innermost first
  saliendo,     \* the exitHilo in progress
  salida        \* the exitProcess in progress

colas == <<colaReadyHilo, colaExecHilo, colaBlockHilo>>
procesos == <<colaProcesosInicializados, colaProcesosSinIniciar, nextPid,
              nextTid, sinContexto>>
cadena == <<pc, hilo, pendientes>>
finales == <<colaExitHilo, saliendo, salida>>
vars == <<colas, procesos, cadena, finales, esperas>>

-----------------------------------------------------------------------------
(* Data *)

Ids == Nat \X Nat
IdDe(tcb) == <<tcb.Pid, tcb.Tid>>
NingunHilo == <<0, 0>>

TCBs == [Pid : Nat, Tid : Nat, Prioridad : Nat, HilosBloqueados : Seq(Nat)]
Mutexes == [Nombre : Nombres, Bloqueado : BOOLEAN, HiloUsando : Nat \cup {-1},
            colaBloqueados : Seq(TCBs)]

\* TCB{}, what getTCB returns when it does not find the thread.
TCBNulo == [Pid |-> 0, Tid |-> 0, Prioridad |-> 0, HilosBloqueados |-> <<>>]

Esperas == [tcb : TCBs, paso : {"durmiendo", "encolar", "dump"}]

SinSalir == [pid |-> 0, hilo |-> TCBNulo, faltan |-> <<>>, luego |-> "nada"]
Saliendo == [pid : Nat, hilo : TCBs, faltan : Seq(Nat),
             luego : {"nada", "fin", "cancelado", "exitProcess"}]

SinSalida == [pid |-> 0, fase |-> "nada", i |-> 1, arr |-> <<>>, alias |-> FALSE]
Salida == [pid : Nat, fase : {"nada", "ready", "exec", "block", "memoria", "iniciar"},
           i : Nat \ {0}, arr : Seq(TCBs), alias : BOOLEAN]

\* Mutant: a new mutex has 0, a valid tid, as the tid of its holder.
mutexCreate_TidCero(nombre) ==
  [Nombre |-> nombre, Bloqueado |-> FALSE, HiloUsando |-> 0, colaBloqueados |-> <<>>]

mutexCreate(nombre) ==
  [Nombre |-> nombre, Bloqueado |-> FALSE, HiloUsando |-> -1, colaBloqueados |-> <<>>]

-----------------------------------------------------------------------------
(* Queues of threads *)

EstaEn(cola, id) == \E i \in DOMAIN cola : IdDe(cola[i]) = id
Posicion(cola, id) == CHOOSE i \in DOMAIN cola : IdDe(cola[i]) = id
Buscar(cola, id) == cola[Posicion(cola, id)]

\* What the array holds at position i after that many elements were removed
\* before it: each removal shifts the rest, and leaves the last in its place.
Corrido(cola, i, quitados) ==
  cola[IF i + quitados <= Len(cola) THEN i + quitados ELSE Len(cola)]

\* The loop removes the thread from the array that it is walking.  A queue
\* with the thread once loses it; with the thread twice, the second removal
\* starts over from the whole queue.  The result is nil without the thread.
eliminarHiloCola(cola, id) ==
  LET antes(R, i) == Cardinality(R \cap (1..i))
      quitas == CHOOSE R \in SUBSET DOMAIN cola :
                  \A i \in DOMAIN cola :
                    i \in R <=> IdDe(Corrido(cola, i, antes(R, i - 1))) = id
  IN IF EstaEn(cola, id)
     THEN [i \in 1..(Len(cola) - 1) |-> Corrido(cola, i, antes(quitas, i))]
     ELSE <<>>

\* In one step; for a thread in block see "Searches of block".
getTCB(id) ==
  IF EstaEn(colaReadyHilo, id) THEN Buscar(colaReadyHilo, id)
  ELSE IF EstaEn(colaExecHilo, id) THEN Buscar(colaExecHilo, id)
  ELSE IF EstaEn(colaBlockHilo, id) THEN Buscar(colaBlockHilo, id)
  ELSE TCBNulo

\* The mutexes of getPCB(pid): none when the process is not found.
MutexesDe(pid) ==
  IF pid \in DOMAIN colaProcesosInicializados
  THEN colaProcesosInicializados[pid] ELSE <<>>

\* Mutant: "<=" in the comparison, so that the latest of the best is chosen.
obtenerHiloMayorPrioridad_MenorIgual ==
  CHOOSE i \in DOMAIN colaReadyHilo :
    \A j \in DOMAIN colaReadyHilo :
      \/ colaReadyHilo[i].Prioridad < colaReadyHilo[j].Prioridad
      \/ colaReadyHilo[i].Prioridad = colaReadyHilo[j].Prioridad /\ i >= j

obtenerHiloMayorPrioridad ==
  CHOOSE i \in DOMAIN colaReadyHilo :
    \A j \in DOMAIN colaReadyHilo :
      \/ colaReadyHilo[i].Prioridad < colaReadyHilo[j].Prioridad
      \/ colaReadyHilo[i].Prioridad = colaReadyHilo[j].Prioridad /\ i <= j

\* Mutant: the last thread of the ready queue is dispatched.
Siguiente_Ultimo == Len(colaReadyHilo)

\* The position in the ready queue of the thread that is dispatched next.
Siguiente == IF Algoritmo = "FIFO" THEN 1 ELSE obtenerHiloMayorPrioridad

-----------------------------------------------------------------------------
(* The chain of calls *)

\* enviarTCBCpu: the thread is sent to the CPU.
enviarTCBCpu(id) == pc' = "despacho" /\ hilo' = id

\* The burst is over and the calls return, up to the innermost lockMutex loop
\* that goes on or else to the scheduler, which stops for good once it sees
\* no initialised process.
Retornar(inicializados) ==
  /\ pc' = IF pendientes # <<>> THEN "lockMutex"
           ELSE IF DOMAIN inicializados = {} THEN "detenido" ELSE "libre"
  /\ hilo' = NingunHilo

-----------------------------------------------------------------------------
(* Rules.  A run chooses the ones that it assumes.  All but four are ways of *)
(* writing scripts, which the scripts of src/pruebas keep.  Whether a script *)
(* keeps "salida ordenada" depends on the schedule, and "busqueda sin IO" is *)
(* about time: no IO ends in the middle of a search of block.  "IO aparte"   *)
(* and "sin repetidos" only bound the states of a run.                       *)

Regla(nombre, condicion) == nombre \in Reglas => condicion

\* A mutex of the process of this thread is assigned to it.
Posee(id) == \E j \in DOMAIN MutexesDe(id[1]) : MutexesDe(id[1])[j].HiloUsando = id[2]

SinMutexes == \A p \in DOMAIN colaProcesosInicializados : colaProcesosInicializados[p] = <<>>

EsperaMutex(id) ==
  \E j \in DOMAIN MutexesDe(id[1]) : EstaEn(MutexesDe(id[1])[j].colaBloqueados, id)

\* Of the process, nobody but the thread that ends it is in block or in IO, no two
\* threads follow each other in ready, and the last of ready is not one of several.
SalidaOrdenada(id) ==
  /\ \A i \in DOMAIN colaBlockHilo :
       colaBlockHilo[i].Pid = id[1] => IdDe(colaBlockHilo[i]) = id
  /\ \A e \in esperas : e.tcb.Pid = id[1] => IdDe(e.tcb) = id
  /\ \A i, j \in DOMAIN colaReadyHilo :
       (i < j /\ colaReadyHilo[i].Pid = id[1] /\ colaReadyHilo[j].Pid = id[1]) =>
         j # i + 1 /\ j # Len(colaReadyHilo)

-----------------------------------------------------------------------------
(* Searches of block.  getTCB and desbloquearHilosJoin range over block with *)
(* no lock, while a goroutine of IO may take its thread out of that array.   *)

\* Bounds: one goroutine crosses a search, and only while nobody is in two queues and
\* TCB{} in none.
CadaUnoEnUna ==
  LET todos == colaReadyHilo \o colaExecHilo \o colaBlockHilo
  IN /\ \A i, j \in DOMAIN todos : IdDe(todos[i]) = IdDe(todos[j]) => i = j
     /\ \A e \in esperas : e.paso = "encolar" => ~EstaEn(todos, IdDe(e.tcb))
     /\ ~EstaEn(todos, NingunHilo)

\* Goroutine e takes its thread out of block in the middle of a search for id, a
\* thread behind it, which moves one place back.
SeCruza(e, id) ==
  /\ Regla("busqueda sin IO", FALSE)
  /\ CadaUnoEnUna
  /\ e \in esperas /\ e.paso = "durmiendo"
  /\ EstaEn(colaBlockHilo, IdDe(e.tcb)) /\ EstaEn(colaBlockHilo, id)
  /\ Posicion(colaBlockHilo, IdDe(e.tcb)) < Posicion(colaBlockHilo, id)

\* It comes between the reads of the place before that of the thread and of its
\* own: by then the next thread is there, unless it is the last one of block.
LoSaltea(e, id) == SeCruza(e, id) /\ Posicion(colaBlockHilo, id) # Len(colaBlockHilo)

\* It comes before those reads: the last one of block is in both places.
LoRepite(e, id) == SeCruza(e, id) /\ Posicion(colaBlockHilo, id) = Len(colaBlockHilo)

\* What quitarBlock of goroutine e leaves in block.
SinSuHilo(e) == eliminarHiloCola(colaBlockHilo, IdDe(e.tcb))

\* Goroutine e has done quitarBlock, and encolarReady is left.
QuedaEncolar(e) == esperas' = (esperas \ {e}) \cup {[e EXCEPT !.paso = "encolar"]}

-----------------------------------------------------------------------------
(* Dispatch *)

\* ejecutarInstruccion of the thread that the algorithm chooses.
ejecutarInstruccion ==
  /\ pc = "libre" /\ colaReadyHilo # <<>> /\ colaExecHilo = <<>>
  /\ colaExecHilo' = <<colaReadyHilo[Siguiente]>>
  /\ colaReadyHilo' = eliminarHiloCola(colaReadyHilo, IdDe(colaReadyHilo[Siguiente]))
  /\ enviarTCBCpu(IdDe(colaReadyHilo[Siguiente]))
  /\ UNCHANGED <<colaBlockHilo, procesos, pendientes, finales, esperas>>

\* The CPU gets the thread and its context, and starts a burst.
RecibirPIDyTID ==
  /\ pc = "despacho" /\ pc' = "cpu"
  /\ UNCHANGED <<colas, procesos, hilo, pendientes, finales, esperas>>

\* The running thread makes a syscall that scripts use.
Llama(syscall) ==
  /\ pc = "cpu" /\ syscall \in Llamadas
  /\ hilo[1] \in DOMAIN colaProcesosInicializados
  /\ hilo \notin sinContexto
  /\ Regla("sin repetidos", \A i, j \in DOMAIN colaReadyHilo :
                              IdDe(colaReadyHilo[i]) = IdDe(colaReadyHilo[j]) => i = j)

\* A burst that ends without a call to the kernel: memory has no script for
\* the thread, or its process is gone and memory fails to save its context.
RafagaSinSyscall ==
  /\ pc = "cpu"
  /\ hilo[1] \notin DOMAIN colaProcesosInicializados \/ hilo \in sinContexto
  /\ Retornar(colaProcesosInicializados)
  /\ UNCHANGED <<colas, procesos, pendientes, finales, esperas>>

\* An interruption evicts the running thread: it goes to the end of ready.
DevolverPidTid ==
  /\ Algoritmo = "CMN" /\ Llama("INTERRUPCION")
  /\ colaExecHilo' = eliminarHiloCola(colaExecHilo, IdDe(getTCB(hilo)))
  /\ colaReadyHilo' = Append(colaReadyHilo, getTCB(hilo))
  /\ Retornar(colaProcesosInicializados)
  /\ UNCHANGED <<colaBlockHilo, procesos, pendientes, finales, esperas>>

-----------------------------------------------------------------------------
(* Processes and threads are created *)

\* The first thread of process pid enters ready; memory opened its script or not.
ArrancarProceso(pid, prioridad, abre) ==
  LET siguientes == Append(nextTid, 0)
      tcb == [Pid |-> pid, Tid |-> siguientes[pid], Prioridad |-> prioridad,
              HilosBloqueados |-> <<>>]
  IN /\ nextTid' = [siguientes EXCEPT ![pid] = @ + 1]
     /\ colaProcesosInicializados' =
          [p \in DOMAIN colaProcesosInicializados \cup {pid} |->
             IF p = pid THEN <<>> ELSE colaProcesosInicializados[p]]
     /\ sinContexto' = IF abre THEN sinContexto ELSE sinContexto \cup {IdDe(tcb)}
     /\ colaReadyHilo' = Append(colaReadyHilo, tcb)

\* Mutant: nextTid grows when the process is created, even if it must wait.
CrearProceso_TidsAlCrear(prioridad, hay, abre) ==
  /\ Llama("PROCESS_CREATE") /\ nextPid <= MaxPid
  /\ nextPid' = nextPid + 1
  /\ IF hay /\ colaProcesosSinIniciar = <<>>
     THEN /\ ArrancarProceso(nextPid, prioridad, abre)
          /\ UNCHANGED colaProcesosSinIniciar
     ELSE /\ colaProcesosSinIniciar' =
               Append(colaProcesosSinIniciar, [Pid |-> nextPid, Prioridad |-> prioridad])
          /\ nextTid' = Append(nextTid, 0)
          /\ UNCHANGED <<colaProcesosInicializados, sinContexto, colaReadyHilo>>
  /\ enviarTCBCpu(IdDe(getTCB(hilo)))
  /\ UNCHANGED <<colaExecHilo, colaBlockHilo, pendientes, finales, esperas>>

\* PROCESS_CREATE: the process starts at once when it is the first of its
\* queue and memory has room for it (hay), after compacting or not.
CrearProceso(prioridad, hay, abre) ==
  LET proceso == [Pid |-> nextPid, Prioridad |-> prioridad]
  IN /\ Llama("PROCESS_CREATE") /\ nextPid <= MaxPid
     /\ Regla("archivos", abre)
     /\ nextPid' = nextPid + 1
     /\ IF hay /\ colaProcesosSinIniciar = <<>>
        THEN /\ ArrancarProceso(nextPid, prioridad, abre)
             /\ UNCHANGED colaProcesosSinIniciar
        ELSE /\ colaProcesosSinIniciar' = Append(colaProcesosSinIniciar, proceso)
             /\ UNCHANGED <<colaProcesosInicializados, nextTid, sinContexto, colaReadyHilo>>
     /\ enviarTCBCpu(IdDe(getTCB(hilo)))
     /\ UNCHANGED <<colaExecHilo, colaBlockHilo, pendientes, finales, esperas>>

\* THREAD_CREATE.  The CPU leaves the tid out of the request, so the thread
\* that goes back to the CPU is the one with tid 0.
CrearHilo(prioridad, abre) ==
  LET pid == hilo[1]
      tcb == [Pid |-> pid, Tid |-> nextTid[pid], Prioridad |-> prioridad,
              HilosBloqueados |-> <<>>]
  IN /\ Llama("THREAD_CREATE") /\ nextTid[pid] < MaxTid
     /\ Regla("archivos", abre)
     /\ Regla("crea el principal", hilo[2] = 0)
     /\ nextTid' = [nextTid EXCEPT ![pid] = @ + 1]
     /\ sinContexto' = IF abre THEN sinContexto ELSE sinContexto \cup {IdDe(tcb)}
     /\ colaReadyHilo' = Append(colaReadyHilo, tcb)
     /\ enviarTCBCpu(IdDe(getTCB(<<pid, 0>>)))
     /\ UNCHANGED <<colaExecHilo, colaBlockHilo, colaProcesosInicializados,
                    colaProcesosSinIniciar, nextPid, pendientes, finales, esperas>>

-----------------------------------------------------------------------------
(* THREAD_JOIN *)

\* Mutant: the target is not told who waits for it (no actualizarTCB).
joinHilo_SinActualizar(tid) ==
  /\ colaExecHilo' = eliminarHiloCola(colaExecHilo, IdDe(getTCB(hilo)))
  /\ colaBlockHilo' = Append(colaBlockHilo, getTCB(hilo))
  /\ Retornar(colaProcesosInicializados)
  /\ UNCHANGED colaReadyHilo

\* joinHilo when the target is in ready: the target remembers who waits for
\* it, and the caller blocks.
joinHilo(tid) ==
  LET i == Posicion(colaReadyHilo, <<hilo[1], tid>>)
      actual == getTCB(hilo)
  IN /\ colaReadyHilo' =
          [colaReadyHilo EXCEPT ![i].HilosBloqueados = Append(@, hilo[2])]
     /\ colaExecHilo' = eliminarHiloCola(colaExecHilo, IdDe(actual))
     /\ colaBlockHilo' = Append(colaBlockHilo, actual)
     /\ Retornar(colaProcesosInicializados)

EntrarHilo(tid) ==
  /\ Llama("THREAD_JOIN")
  /\ Regla("IO aparte", SinMutexes /\ colaExitHilo = {})
  /\ Regla("no espera con mutex", ~Posee(hilo))
  /\ IF EstaEn(colaReadyHilo, <<hilo[1], tid>>)
     THEN joinHilo(tid)
     ELSE enviarTCBCpu(IdDe(getTCB(hilo))) /\ UNCHANGED colas
  /\ UNCHANGED <<procesos, pendientes, finales, esperas>>

-----------------------------------------------------------------------------
(* Mutexes *)

\* Bound: scripts create each name once in a process.
CrearMutex(nombre) ==
  /\ Llama("MUTEX_CREATE")
  /\ \A j \in DOMAIN MutexesDe(hilo[1]) : MutexesDe(hilo[1])[j].Nombre # nombre
  /\ Regla("un mutex", MutexesDe(hilo[1]) = <<>>)
  /\ Regla("IO aparte", colaBlockHilo = <<>> /\ esperas = {})
  /\ colaProcesosInicializados' =
       [colaProcesosInicializados EXCEPT ![hilo[1]] = Append(@, mutexCreate(nombre))]
  /\ enviarTCBCpu(IdDe(getTCB(hilo)))
  /\ UNCHANGED <<colas, colaProcesosSinIniciar, nextPid, nextTid, sinContexto,
                 pendientes, finales, esperas>>

\* The mutex, free until now, goes to the thread, which goes back to the CPU.
\* With another mutex in the process the loop of lockMutex goes on later.
TomarMutex(solicitante) ==
  LET pid == hilo[1]
      m == MutexesDe(pid)[1]
  IN /\ ~m.Bloqueado
     /\ colaProcesosInicializados' =
          [colaProcesosInicializados EXCEPT ![pid][1] =
             [m EXCEPT !.Bloqueado = TRUE, !.HiloUsando = solicitante.Tid]]
     /\ IF EstaEn(colaExecHilo, IdDe(solicitante))
        THEN /\ enviarTCBCpu(IdDe(solicitante))
             /\ pendientes' = IF Len(MutexesDe(pid)) > 1
                              THEN <<IdDe(solicitante)>> \o pendientes ELSE pendientes
        ELSE Retornar(colaProcesosInicializados) /\ UNCHANGED pendientes
     /\ UNCHANGED colas

\* The mutex is taken: the thread waits in the queue of the mutex.
EsperarMutex(solicitante) ==
  LET pid == hilo[1]
      m == MutexesDe(pid)[1]
  IN /\ m.Bloqueado
     /\ colaProcesosInicializados' =
          [colaProcesosInicializados EXCEPT ![pid][1] =
             [m EXCEPT !.colaBloqueados = Append(@, solicitante)]]
     /\ colaExecHilo' = eliminarHiloCola(colaExecHilo, IdDe(solicitante))
     /\ colaBlockHilo' = Append(colaBlockHilo, solicitante)
     /\ Retornar(colaProcesosInicializados)
     /\ UNCHANGED <<colaReadyHilo, pendientes>>

\* MUTEX_LOCK.  lockMutex looks at the first mutex of the process only: with
\* another name the thread goes back to the CPU, and with no mutex it does not.
BloquearMutex(nombre) ==
  LET ms == MutexesDe(hilo[1])
  IN /\ Llama("MUTEX_LOCK") /\ Len(pendientes) < MaxPendientes
     /\ Regla("lock correcto", ~Posee(hilo) /\ \E j \in DOMAIN ms : ms[j].Nombre = nombre)
     /\ \/ /\ ms # <<>> /\ ms[1].Nombre = nombre
           /\ TomarMutex(getTCB(hilo)) \/ EsperarMutex(getTCB(hilo))
        \/ /\ ms # <<>> /\ ms[1].Nombre # nombre
           /\ enviarTCBCpu(IdDe(getTCB(hilo)))
           /\ UNCHANGED <<colas, colaProcesosInicializados, pendientes>>
        \/ /\ ms = <<>>
           /\ Retornar(colaProcesosInicializados)
           /\ UNCHANGED <<colas, colaProcesosInicializados, pendientes>>
     /\ UNCHANGED <<colaProcesosSinIniciar, nextPid, nextTid, sinContexto, finales, esperas>>

\* The loop of lockMutex goes on: the next mutex has another name, so the
\* thread is sent to the CPU once more.
SeguirLockMutex ==
  /\ pc = "lockMutex"
  /\ enviarTCBCpu(Head(pendientes))
  /\ pendientes' = Tail(pendientes)
  /\ UNCHANGED <<colas, procesos, finales, esperas>>

\* Mutant: the thread that unlocks need not be the holder.
unlockMutex_SinControl(pid, tid, nombre) ==
  /\ colaProcesosInicializados' =
       [colaProcesosInicializados EXCEPT ![pid] =
          [j \in DOMAIN @ |-> IF @[j].Nombre = nombre /\ @[j].colaBloqueados = <<>>
                              THEN mutexCreate(nombre) ELSE @[j]]]
  /\ UNCHANGED <<colaReadyHilo, colaBlockHilo>>

\* Mutant: the mutex goes to the last of its queue.
unlockMutex_Ultimo(pid, tid, nombre) ==
  LET ms == MutexesDe(pid)
      suyo == ms # <<>> /\ ms[1].Nombre = nombre /\ ms[1].HiloUsando = tid
      cola == IF suyo THEN ms[1].colaBloqueados ELSE <<>>
  IN IF cola # <<>>
     THEN LET ultimo == cola[Len(cola)]
          IN /\ colaProcesosInicializados' =
                  [colaProcesosInicializados EXCEPT ![pid][1] =
                     [@ EXCEPT !.HiloUsando = ultimo.Tid,
                               !.colaBloqueados = SubSeq(@, 1, Len(@) - 1)]]
             /\ colaBlockHilo' = eliminarHiloCola(colaBlockHilo, IdDe(ultimo))
             /\ colaReadyHilo' = Append(colaReadyHilo, ultimo)
     ELSE /\ colaProcesosInicializados' =
               IF suyo THEN [colaProcesosInicializados EXCEPT ![pid][1] = mutexCreate(nombre)]
               ELSE colaProcesosInicializados
          /\ UNCHANGED <<colaReadyHilo, colaBlockHilo>>

\* unlockMutex: a no-op unless the first mutex of the process has that name
\* and is assigned to the thread.  It then goes to the first of its queue.
unlockMutex(pid, tid, nombre) ==
  LET ms == MutexesDe(pid)
      m == ms[1]
      primero == Head(m.colaBloqueados)
      suyo == ms # <<>> /\ m.Nombre = nombre /\ m.HiloUsando = tid
  IN \/ /\ ~suyo
        /\ UNCHANGED <<colaProcesosInicializados, colaReadyHilo, colaBlockHilo>>
     \/ /\ suyo /\ m.colaBloqueados = <<>>
        /\ colaProcesosInicializados' =
             [colaProcesosInicializados EXCEPT ![pid][1] =
                [m EXCEPT !.Bloqueado = FALSE, !.HiloUsando = -1]]
        /\ UNCHANGED <<colaReadyHilo, colaBlockHilo>>
     \/ /\ suyo /\ m.colaBloqueados # <<>>
        /\ colaProcesosInicializados' =
             [colaProcesosInicializados EXCEPT ![pid][1] =
                [m EXCEPT !.HiloUsando = primero.Tid, !.colaBloqueados = Tail(@)]]
        /\ colaBlockHilo' = eliminarHiloCola(colaBlockHilo, IdDe(primero))
        /\ colaReadyHilo' = Append(colaReadyHilo, primero)

LiberarMutex(nombre) ==
  /\ Llama("MUTEX_UNLOCK")
  /\ unlockMutex(hilo[1], getTCB(hilo).Tid, nombre)
  /\ enviarTCBCpu(IdDe(getTCB(hilo)))
  /\ UNCHANGED <<colaExecHilo, colaProcesosSinIniciar, nextPid, nextTid, sinContexto,
                 pendientes, finales, esperas>>

-----------------------------------------------------------------------------
(* IO and DUMP_MEMORY *)

\* Mutant: the thread that blocks stays in the exec queue.
Bloquear_SinQuitarExec(tcb, paso) ==
  /\ colaBlockHilo' = Append(colaBlockHilo, tcb)
  /\ esperas' = esperas \cup {[tcb |-> tcb, paso |-> paso]}
  /\ UNCHANGED colaExecHilo

\* Bound: one IO or dump of a thread at a time.
Bloquear(tcb, paso) ==
  /\ \A e \in esperas : IdDe(e.tcb) # IdDe(tcb)
  /\ colaExecHilo' = eliminarHiloCola(colaExecHilo, IdDe(tcb))
  /\ colaBlockHilo' = Append(colaBlockHilo, tcb)
  /\ esperas' = esperas \cup {[tcb |-> tcb, paso |-> paso]}

ManejarIo ==
  /\ Llama("IO")
  /\ Regla("IO aparte", SinMutexes /\ colaExitHilo = {})
  /\ Bloquear(getTCB(hilo), "durmiendo")
  /\ Retornar(colaProcesosInicializados)
  /\ UNCHANGED <<colaReadyHilo, procesos, pendientes, finales>>

\* The TCBs that the loop of exitProcess will still read, after a change of
\* the queue that it walks.  The changes are made in the array that both
\* share, until an append outgrows it.
Reflejos(s, vieja, nueva) ==
  LET crece == Len(nueva) > Len(vieja) /\ Len(nueva) > Len(s.arr)
      arr == [i \in 1..Len(s.arr) |-> IF i <= Len(nueva) THEN nueva[i] ELSE s.arr[i]]
  IN {[s EXCEPT !.arr = IF s.alias THEN arr ELSE @, !.alias = a] :
        a \in IF crece THEN {s.alias, FALSE} ELSE {s.alias}}

ReflejosDe(s) ==
  IF s.fase = "ready" THEN Reflejos(s, colaReadyHilo, colaReadyHilo')
  ELSE IF s.fase = "block" THEN Reflejos(s, colaBlockHilo, colaBlockHilo')
  ELSE {s}

Reflejar == salida' \in ReflejosDe(salida)

\* Mutant: the goroutine does not take the thread out of block.
TerminaIo_SinQuitar(e) ==
  /\ pc # "caido" /\ e \in esperas /\ e.paso = "durmiendo"
  /\ esperas' = (esperas \ {e}) \cup {[e EXCEPT !.paso = "encolar"]}
  /\ UNCHANGED <<colas, procesos, cadena, finales>>

\* The goroutine of ManejarIo wakes up: first quitarBlock ...
TerminaIo(e) ==
  /\ pc # "caido" /\ e \in esperas /\ e.paso = "durmiendo"
  /\ colaBlockHilo' = SinSuHilo(e) /\ QuedaEncolar(e)
  /\ UNCHANGED <<colaReadyHilo, colaExecHilo>>
  /\ Reflejar
  /\ UNCHANGED <<procesos, cadena, colaExitHilo, saliendo>>

\* ... and then encolarReady, whatever became of the thread meanwhile.
EncolaIo(e) ==
  /\ pc # "caido" /\ e \in esperas /\ e.paso = "encolar"
  /\ colaReadyHilo' = Append(colaReadyHilo, e.tcb)
  /\ esperas' = esperas \ {e}
  /\ UNCHANGED <<colaExecHilo, colaBlockHilo>>
  /\ Reflejar
  /\ UNCHANGED <<procesos, cadena, colaExitHilo, saliendo>>

\* DUMP_MEMORY, up to the request to memory.
DumpMemory ==
  /\ Llama("DUMP_MEMORY")
  /\ Bloquear(getTCB(hilo), "dump")
  /\ pc' = "dump"
  /\ UNCHANGED <<colaReadyHilo, procesos, hilo, pendientes, finales>>

-----------------------------------------------------------------------------
(* exitProcess *)

\* Mutant: the loop starts one element late.
Bucle_DesdeDos(pid, fase, cola) ==
  [pid |-> pid, fase |-> fase, i |-> 2, arr |-> cola, alias |-> TRUE]

\* Mutant: the loop counts from zero.
Bucle_DesdeCero(pid, fase, cola) ==
  [pid |-> pid, fase |-> fase, i |-> 0, arr |-> cola, alias |-> TRUE]

\* A loop of exitProcess over a queue: "range" fixes the array and its length.
Bucle(pid, fase, cola) ==
  [pid |-> pid, fase |-> fase, i |-> 1, arr |-> cola, alias |-> TRUE]

\* exitProcess starts by walking the ready queue.
exitProcess(pid) ==
  /\ salida' = Bucle(pid, "ready", colaReadyHilo)
  /\ pc' = "exitProcess"

\* Memory answers the dump: the thread is ready again, or its process ends.
RespuestaDump(e, hecho) ==
  /\ pc = "dump" /\ e \in esperas /\ e.paso = "dump"
  /\ Regla("salida ordenada", hecho \/ SalidaOrdenada(hilo))
  /\ esperas' = esperas \ {e}
  /\ IF hecho
     THEN /\ colaBlockHilo' = eliminarHiloCola(colaBlockHilo, IdDe(e.tcb))
          /\ colaReadyHilo' = Append(colaReadyHilo, e.tcb)
          /\ Retornar(colaProcesosInicializados)
          /\ UNCHANGED salida
     ELSE exitProcess(hilo[1]) /\ UNCHANGED <<colaBlockHilo, colaReadyHilo, hilo>>
  /\ UNCHANGED <<colaExecHilo, procesos, pendientes, colaExitHilo, saliendo>>

\* PROCESS_EXIT: refused unless the tid is 0; the burst is over in any case.
FinalizarProceso ==
  /\ Llama("PROCESS_EXIT")
  /\ Regla("sale el principal", hilo[2] = 0)
  /\ Regla("salida ordenada", SalidaOrdenada(hilo))
  /\ IF hilo[2] = 0
     THEN exitProcess(hilo[1]) /\ UNCHANGED hilo
     ELSE Retornar(colaProcesosInicializados) /\ UNCHANGED salida
  /\ UNCHANGED <<colas, procesos, pendientes, colaExitHilo, saliendo, esperas>>

\* The CPU finds an address out of range.  The context of a thread whose
\* process is gone has base and limit 0, so it meets this too.
SegmentationFault ==
  /\ pc = "cpu" /\ "SEGMENTATION_FAULT" \in Llamadas
  /\ hilo[1] # 0 /\ hilo \notin sinContexto
  /\ Regla("salida ordenada", SalidaOrdenada(hilo))
  /\ exitProcess(hilo[1])
  /\ UNCHANGED <<colas, procesos, hilo, pendientes, colaExitHilo, saliendo, esperas>>

-----------------------------------------------------------------------------
(* exitHilo *)

\* Mutant: a thread in ready is finished without leaving the queue.
exitHilo_SinQuitarReady(pid, tid, luego) ==
  LET tcb == getTCB(<<pid, tid>>)
  IN /\ colaExecHilo' = IF EstaEn(colaExecHilo, IdDe(tcb))
                         THEN eliminarHiloCola(colaExecHilo, IdDe(tcb)) ELSE colaExecHilo
     /\ UNCHANGED <<colaReadyHilo, colaBlockHilo>>
     /\ colaExitHilo' = colaExitHilo \cup {IdDe(tcb)}
     /\ saliendo' = [pid |-> pid, hilo |-> tcb, faltan |-> tcb.HilosBloqueados,
                     luego |-> luego]
     /\ pc' = "exitHilo"

\* Mutant: the thread that ends is not put in the exit queue.
exitHilo_SinExit(pid, tid, luego) ==
  LET id == IdDe(getTCB(<<pid, tid>>))
      Sacar(cola) == IF EstaEn(cola, id) THEN eliminarHiloCola(cola, id) ELSE cola
  IN /\ colaExecHilo' = Sacar(colaExecHilo)
     /\ colaReadyHilo' = Sacar(colaReadyHilo)
     /\ colaBlockHilo' = Sacar(colaBlockHilo)
     /\ saliendo' = [pid |-> pid, hilo |-> getTCB(<<pid, tid>>),
                     faltan |-> getTCB(<<pid, tid>>).HilosBloqueados, luego |-> luego]
     /\ pc' = "exitHilo"
     /\ UNCHANGED colaExitHilo

\* From the answer of getTCB (tcb) up to encolarExit: that thread leaves its queue,
\* if it is in any.  The last argument is what block holds by then.
exitHiloDe(pid, tcb, luego, block) ==
  LET id == IdDe(tcb)
      enExec == EstaEn(colaExecHilo, id)
      enReady == ~enExec /\ EstaEn(colaReadyHilo, id)
      enBlock == ~enExec /\ ~enReady /\ EstaEn(block, id)
  IN /\ colaExecHilo' = IF enExec THEN eliminarHiloCola(colaExecHilo, id) ELSE colaExecHilo
     /\ colaReadyHilo' = IF enReady THEN eliminarHiloCola(colaReadyHilo, id) ELSE colaReadyHilo
     /\ colaBlockHilo' = IF enBlock THEN eliminarHiloCola(block, id) ELSE block
     /\ colaExitHilo' = colaExitHilo \cup {id}
     /\ saliendo' = [pid |-> pid, hilo |-> tcb, faltan |-> tcb.HilosBloqueados,
                     luego |-> luego]
     /\ pc' = "exitHilo"

exitHilo(pid, tid, luego) == exitHiloDe(pid, getTCB(<<pid, tid>>), luego, colaBlockHilo)

\* getTCB, crossed by goroutine e, does not find a thread that is in block and in no
\* other queue: it is TCB{} that ends.
exitHiloCruzado(pid, tid, luego, e) ==
  /\ LoSaltea(e, <<pid, tid>>)
  /\ ~EstaEn(colaReadyHilo, <<pid, tid>>) /\ ~EstaEn(colaExecHilo, <<pid, tid>>)
  /\ exitHiloDe(pid, TCBNulo, luego, SinSuHilo(e))
  /\ QuedaEncolar(e)

\* Mutant: the loop stops after the first thread that joined.
DesbloquearHilosJoin_SoloUno ==
  LET id == <<saliendo.pid, Head(saliendo.faltan)>>
  IN /\ pc = "exitHilo" /\ saliendo.faltan # <<>>
     /\ saliendo' = [saliendo EXCEPT !.faltan = <<>>]
     /\ IF EstaEn(colaBlockHilo, id)
        THEN /\ colaBlockHilo' = eliminarHiloCola(colaBlockHilo, id)
             /\ colaReadyHilo' = Append(colaReadyHilo, Buscar(colaBlockHilo, id))
        ELSE UNCHANGED <<colaBlockHilo, colaReadyHilo>>
     /\ Reflejar
     /\ UNCHANGED <<colaExecHilo, procesos, cadena, colaExitHilo, esperas>>

\* desbloquearHilosJoin for the next thread that joined the one that exits.
DesbloquearHilosJoin ==
  LET id == <<saliendo.pid, Head(saliendo.faltan)>>
  IN /\ pc = "exitHilo" /\ saliendo.faltan # <<>>
     /\ saliendo' = [saliendo EXCEPT !.faltan = Tail(@)]
     /\ IF EstaEn(colaBlockHilo, id)
        THEN /\ colaBlockHilo' = eliminarHiloCola(colaBlockHilo, id)
             /\ colaReadyHilo' = Append(colaReadyHilo, Buscar(colaBlockHilo, id))
        ELSE UNCHANGED <<colaBlockHilo, colaReadyHilo>>
     /\ Reflejar
     /\ UNCHANGED <<colaExecHilo, procesos, cadena, colaExitHilo, esperas>>

\* The same search, crossed by goroutine e: it misses the thread, whose wake-up is
\* lost, or wakes up the last one of block twice, and the second quitarBlock does not
\* find it and leaves nil.
DesbloquearCruzado(e) ==
  LET id == <<saliendo.pid, Head(saliendo.faltan)>>
      tcb == Buscar(colaBlockHilo, id)
  IN /\ pc = "exitHilo" /\ saliendo.faltan # <<>>
     /\ saliendo' = [saliendo EXCEPT !.faltan = Tail(@)]
     /\ QuedaEncolar(e)
     /\ \/ /\ LoSaltea(e, id)
           /\ colaBlockHilo' = SinSuHilo(e) /\ UNCHANGED colaReadyHilo
           /\ Reflejar
        \/ /\ LoRepite(e, id)
           /\ colaBlockHilo' = <<>> /\ colaReadyHilo' = colaReadyHilo \o <<tcb, tcb>>
           /\ IF salida.fase = "block"
              THEN \E s \in Reflejos(salida, colaBlockHilo, SinSuHilo(e)) :
                     salida' = [s EXCEPT !.alias = FALSE]
              ELSE Reflejar
     /\ UNCHANGED <<colaExecHilo, procesos, cadena, colaExitHilo>>

\* getMutexUsando: the first mutex of the process assigned to the tid.
getMutexUsando(ms, tid) ==
  ms[CHOOSE j \in DOMAIN ms : /\ ms[j].HiloUsando = tid
                              /\ \A l \in 1..(j - 1) : ms[l].HiloUsando # tid]

\* Mutant: the thread that ends keeps its mutex.
LiberarAlSalir_SinUnlock ==
  /\ pc = "exitHilo" /\ saliendo.faltan = <<>>
  /\ saliendo' = SinSalir
  /\ \/ saliendo.luego = "fin" /\ Retornar(colaProcesosInicializados)
     \/ saliendo.luego # "fin" /\ pc' = saliendo.luego /\ UNCHANGED hilo
  /\ UNCHANGED <<colas, procesos, pendientes, colaExitHilo, salida, esperas>>

\* The rest of exitHilo: the mutex of the thread is released, memory is told,
\* and the caller of exitHilo goes on.
LiberarAlSalir ==
  LET ms == MutexesDe(saliendo.pid)
      tid == saliendo.hilo.Tid
  IN /\ pc = "exitHilo" /\ saliendo.faltan = <<>>
     /\ IF \E j \in DOMAIN ms : ms[j].HiloUsando = tid
        THEN unlockMutex(saliendo.pid, tid, getMutexUsando(ms, tid).Nombre)
        ELSE UNCHANGED <<colaProcesosInicializados, colaReadyHilo, colaBlockHilo>>
     /\ Reflejar
     /\ saliendo' = SinSalir
     /\ \/ saliendo.luego = "fin" /\ Retornar(colaProcesosInicializados)
        \/ saliendo.luego # "fin" /\ pc' = saliendo.luego /\ UNCHANGED hilo
     /\ UNCHANGED <<colaExecHilo, colaProcesosSinIniciar, nextPid, nextTid,
                    sinContexto, pendientes, colaExitHilo, esperas>>

FinalizarHilo ==
  /\ Llama("THREAD_EXIT")
  /\ Regla("sale el principal", hilo[2] # 0)
  /\ exitHilo(hilo[1], hilo[2], "fin")
  /\ UNCHANGED <<procesos, hilo, pendientes, salida, esperas>>

PideCancelar(tid) ==
  LET id == <<hilo[1], tid>>
  IN /\ Llama("THREAD_CANCEL")
     /\ Regla("sale el principal", tid # 0)
     /\ Regla("cancela existente", getTCB(id) # TCBNulo)
     /\ Regla("cancela sin espera", id # hilo /\ \A e \in esperas : IdDe(e.tcb) # id)
     /\ Regla("IO aparte", \A e \in esperas : IdDe(e.tcb) # id)
     /\ Regla("cancela sin mutex", ~EsperaMutex(id))

CancelarHilo(tid) ==
  /\ PideCancelar(tid)
  /\ exitHilo(hilo[1], tid, "cancelado")
  /\ UNCHANGED <<procesos, hilo, pendientes, salida, esperas>>

\* The same, with its search crossed by goroutine e.
CancelarCruzado(tid, e) ==
  /\ PideCancelar(tid)
  /\ exitHiloCruzado(hilo[1], tid, "cancelado", e)
  /\ UNCHANGED <<procesos, hilo, pendientes, salida>>

\* The end of CancelarHilo: the caller goes back to the CPU.
VolverDeCancelar ==
  /\ pc = "cancelado"
  /\ enviarTCBCpu(IdDe(getTCB(hilo)))
  /\ UNCHANGED <<colas, procesos, pendientes, finales, esperas>>

-----------------------------------------------------------------------------
(* The steps of exitProcess *)

EnFase(fase) == pc = "exitProcess" /\ salida.fase = fase

\* A loop of exitProcess reads its next element.
RecorrerCola ==
  /\ pc = "exitProcess" /\ salida.fase \in {"ready", "exec", "block"}
  /\ salida.i <= Len(salida.arr)
  /\ IF salida.arr[salida.i].Pid = salida.pid
     THEN exitHilo(salida.pid, salida.arr[salida.i].Tid, "exitProcess")
     ELSE UNCHANGED <<colas, colaExitHilo, saliendo, pc>>
  /\ salida' \in ReflejosDe([salida EXCEPT !.i = @ + 1])
  /\ UNCHANGED <<procesos, hilo, pendientes, esperas>>

\* The same, with the search of getTCB crossed by goroutine e.
RecorrerCruzado(e) ==
  /\ pc = "exitProcess" /\ salida.fase \in {"ready", "exec", "block"}
  /\ salida.i <= Len(salida.arr) /\ salida.arr[salida.i].Pid = salida.pid
  /\ exitHiloCruzado(salida.pid, salida.arr[salida.i].Tid, "exitProcess", e)
  /\ salida' \in ReflejosDe([salida EXCEPT !.i = @ + 1])
  /\ UNCHANGED <<procesos, hilo, pendientes>>

\* A loop of exitProcess ends and the next one starts.
SiguienteCola ==
  /\ pc = "exitProcess" /\ salida.i > Len(salida.arr)
  /\ \/ salida.fase = "ready" /\ salida' = Bucle(salida.pid, "exec", colaExecHilo)
     \/ salida.fase = "exec" /\ salida' = Bucle(salida.pid, "block", colaBlockHilo)
     \/ salida.fase = "block" /\ salida' = Bucle(salida.pid, "memoria", <<>>)
  /\ UNCHANGED <<colas, procesos, cadena, colaExitHilo, saliendo, esperas>>

\* The process leaves the kernel and memory.  Memory answers 404 for a
\* process that it does not know, and the kernel aborts (log.Fatalf).
TerminarProceso ==
  /\ EnFase("memoria")
  /\ IF salida.pid \in DOMAIN colaProcesosInicializados
     THEN /\ colaProcesosInicializados' =
               [p \in DOMAIN colaProcesosInicializados \ {salida.pid} |->
                  colaProcesosInicializados[p]]
          /\ salida' = [salida EXCEPT !.fase = "iniciar"]
          /\ UNCHANGED pc
     ELSE /\ pc' = "caido"
          /\ UNCHANGED <<colaProcesosInicializados, salida>>
  /\ UNCHANGED <<colas, colaProcesosSinIniciar, nextPid, nextTid, sinContexto,
                 hilo, pendientes, colaExitHilo, saliendo, esperas>>

\* The first waiting process starts, now that memory has room for it.
IniciarPendiente(abre) ==
  /\ EnFase("iniciar") /\ colaProcesosSinIniciar # <<>>
  /\ Regla("archivos", abre)
  /\ ArrancarProceso(Head(colaProcesosSinIniciar).Pid,
                     Head(colaProcesosSinIniciar).Prioridad, abre)
  /\ colaProcesosSinIniciar' = Tail(colaProcesosSinIniciar)
  /\ UNCHANGED <<colaExecHilo, colaBlockHilo, nextPid, cadena, finales, esperas>>

\* No process waits, or memory has no room for the first one.
FinExitProcess ==
  /\ EnFase("iniciar")
  /\ salida' = SinSalida
  /\ Retornar(colaProcesosInicializados)
  /\ UNCHANGED <<colas, procesos, pendientes, colaExitHilo, saliendo, esperas>>

-----------------------------------------------------------------------------
(* The specification *)

\* The initial process (procesoInicial) fits in memory, or the scheduler stops.
Init ==
  \E hay, abre \in BOOLEAN :
    LET tcb == [Pid |-> 1, Tid |-> 0, Prioridad |-> 0, HilosBloqueados |-> <<>>]
    IN /\ Regla("archivos", abre)
       /\ colaReadyHilo = IF hay THEN <<tcb>> ELSE <<>>
       /\ colaProcesosInicializados = IF hay THEN [p \in {1} |-> <<>>] ELSE [p \in {} |-> <<>>]
       /\ colaProcesosSinIniciar = IF hay THEN <<>> ELSE <<[Pid |-> 1, Prioridad |-> 0]>>
       /\ nextPid = 2
       /\ nextTid = IF hay THEN <<1>> ELSE <<>>
       /\ sinContexto = IF hay /\ ~abre THEN {<<1, 0>>} ELSE {}
       /\ pc = IF hay THEN "libre" ELSE "detenido"
       /\ colaExecHilo = <<>> /\ colaBlockHilo = <<>> /\ colaExitHilo = {}
       /\ esperas = {} /\ hilo = NingunHilo /\ pendientes = <<>>
       /\ saliendo = SinSalir /\ salida = SinSalida

Tids == 0..(MaxTid - 1)

\* The syscalls after which the thread stays on the CPU, or blocks for others.
Syscall ==
  \/ \E p \in Prioridades, hay, abre \in BOOLEAN : CrearProceso(p, hay, abre)
  \/ \E p \in Prioridades, abre \in BOOLEAN : CrearHilo(p, abre)
  \/ \E t \in Tids : EntrarHilo(t)
  \/ \E t \in Tids : CancelarHilo(t)
  \/ \E n \in Nombres : CrearMutex(n)
  \/ \E n \in Nombres : BloquearMutex(n)
  \/ \E n \in Nombres : LiberarMutex(n)
  \/ DumpMemory

\* The syscalls and faults with which the thread leaves the CPU.
DejaCpu ==
  \/ ManejarIo \/ FinalizarHilo \/ FinalizarProceso \/ SegmentationFault
  \/ DevolverPidTid

\* The steps of the kernel that no script chooses.
PasoKernel ==
  \/ ejecutarInstruccion \/ RecibirPIDyTID \/ RafagaSinSyscall \/ SeguirLockMutex
  \/ \E e \in esperas, hecho \in BOOLEAN : RespuestaDump(e, hecho)
  \/ DesbloquearHilosJoin \/ LiberarAlSalir \/ VolverDeCancelar
  \/ RecorrerCola \/ SiguienteCola \/ TerminarProceso
  \/ \E abre \in BOOLEAN : IniciarPendiente(abre)
  \/ FinExitProcess

\* The searches of block that a goroutine of IO crosses.
Cruce ==
  \E e \in esperas :
    DesbloquearCruzado(e) \/ RecorrerCruzado(e) \/ \E t \in Tids : CancelarCruzado(t, e)

PasoIo(id) == \E e \in esperas : IdDe(e.tcb) = id /\ (TerminaIo(e) \/ EncolaIo(e))

\* The scheduler stopped, or the kernel aborted: nothing more is to happen.
Terminado ==
  /\ pc = "caido" \/ (pc = "detenido" /\ esperas = {})
  /\ UNCHANGED vars

Next ==
  \/ Syscall \/ DejaCpu \/ PasoKernel
  \/ \E e \in esperas : TerminaIo(e) \/ EncolaIo(e)
  \/ Cruce
  \/ Terminado

Spec == Init /\ [][Next]_vars

SueltaMutex == \E n \in Nombres : Posee(hilo) /\ LiberarMutex(n)

\* The calls return and every sleep ends; a script runs finitely many
\* instructions before it blocks or ends, and does not keep a mutex for ever.
Fairness ==
  /\ WF_vars(PasoKernel)
  /\ \A id \in (1..MaxPid) \X Tids : WF_vars(PasoIo(id))
  /\ SF_vars(DejaCpu)
  /\ SF_vars(SueltaMutex)

FairSpec == Spec /\ Fairness

=============================================================================
