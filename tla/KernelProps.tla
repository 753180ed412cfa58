----------------------------- MODULE KernelProps -----------------------------
(***************************************************************************)
(* The properties of the kernel.  The first group holds whatever scripts   *)
(* do; the second one needs scripts that keep the rules of Kernel.tla, and *)
(* says what breaks when they do not.                                      *)
(***************************************************************************)
EXTENDS Kernel

Pids == 1..Len(nextTid)

\* The threads for which createTCB gave an id.
Creados == UNION {{p} \X (0..(nextTid[p] - 1)) : p \in Pids}

EnTransito(id) == \E e \in esperas : IdDe(e.tcb) = id /\ e.paso = "encolar"

VecesEn(cola, id) == Cardinality({i \in DOMAIN cola : IdDe(cola[i]) = id})

EnColas(id) == \/ EstaEn(colaReadyHilo, id) \/ EstaEn(colaExecHilo, id)
               \/ EstaEn(colaBlockHilo, id) \/ EnTransito(id)

-----------------------------------------------------------------------------
(* Whatever scripts do *)

TipoColas ==
  /\ colaReadyHilo \in Seq(TCBs) /\ colaExecHilo \in Seq(TCBs) /\ colaBlockHilo \in Seq(TCBs)

TipoProcesos ==
  /\ colaProcesosInicializados \in [DOMAIN colaProcesosInicializados -> Seq(Mutexes)]
  /\ colaProcesosSinIniciar \in Seq([Pid : Nat, Prioridad : Nat])
  /\ nextPid \in Nat /\ nextTid \in Seq(Nat) /\ sinContexto \subseteq Ids

TipoCadena ==
  /\ pc \in {"libre", "despacho", "cpu", "dump", "exitHilo", "cancelado", "exitProcess",
             "lockMutex", "detenido", "caido"}
  /\ hilo \in Ids /\ pendientes \in Seq(Ids)

TipoFinales == colaExitHilo \subseteq Ids /\ saliendo \in Saliendo /\ salida \in Salida

\* The queues hold TCBs, the mutexes are records of Mutex, and the program
\* counters of the chain, of exitHilo and of exitProcess are in range.
TypeOK ==
  TipoColas /\ TipoProcesos /\ TipoCadena /\ TipoFinales /\ esperas \subseteq Esperas

\* createTCB indexes nextTid by the pid (utils.go:543): the slots of nextTid
\* are those of the processes that have started, in the order of their pids,
\* because the processes that still wait are the latest pids, in order.
PidsEnOrden ==
  /\ Len(nextTid) + Len(colaProcesosSinIniciar) = nextPid - 1
  /\ \A i \in DOMAIN colaProcesosSinIniciar :
       colaProcesosSinIniciar[i].Pid = Len(nextTid) + i
  /\ DOMAIN colaProcesosInicializados \subseteq Pids

\* A mutex of a process is in use exactly when it is locked, and nobody waits
\* for a mutex that is not: a missed hand-over in unlockMutex would leave
\* waiters behind a free mutex (utils.go:1346).
Coherente(m) == /\ m.Bloqueado <=> m.HiloUsando # -1
                /\ m.colaBloqueados # <<>> => m.Bloqueado

MutexCoherente ==
  \A p \in DOMAIN colaProcesosInicializados :
    \A j \in DOMAIN colaProcesosInicializados[p] : Coherente(colaProcesosInicializados[p][j])

\* Of a mutex (m) and what becomes of it (n): it goes on to its first waiter.
PasaAlPrimero(m, n) ==
  (m.colaBloqueados # <<>> /\ n.HiloUsando # m.HiloUsando) =>
    /\ n.HiloUsando = Head(m.colaBloqueados).Tid
    /\ n.colaBloqueados = Tail(m.colaBloqueados)

Traspaso ==
  \A p \in DOMAIN colaProcesosInicializados \cap DOMAIN colaProcesosInicializados' :
    \A j \in DOMAIN colaProcesosInicializados[p] :
      PasaAlPrimero(colaProcesosInicializados[p][j], colaProcesosInicializados'[p][j])

\* A mutex with waiters changes hands only to the first that asked for it, and
\* the others keep their order (utils.go:1346).
TraspasoEnOrden == [][Traspaso]_vars

\* A thread runs before another that was ready earlier only if the algorithm
\* says so, and waiting threads never overtake each other (utils.go:801, 847).
OrdenDeReady ==
  [][\A i, j \in DOMAIN colaReadyHilo :
       LET a == colaReadyHilo[i]
           b == colaReadyHilo[j]
       IN (i < j /\ EstaEn(colaReadyHilo', IdDe(a)) /\ IdDe(a) # IdDe(b)) =>
            \/ /\ EstaEn(colaReadyHilo', IdDe(b))
               /\ Posicion(colaReadyHilo', IdDe(a)) < Posicion(colaReadyHilo', IdDe(b))
            \/ /\ EstaEn(colaExecHilo', IdDe(b))
               /\ Algoritmo # "FIFO" /\ b.Prioridad < a.Prioridad
            \/ IdDe(b) \in colaExitHilo']_vars

-----------------------------------------------------------------------------
(* For scripts that keep the rules *)

\* Every thread created is in one queue, once, or on its way from block to
\* ready (the comment of utils.go:394 expects as much of exitProcess).
UnLugarPorHilo ==
  \A id \in Creados :
    VecesEn(colaReadyHilo, id) + VecesEn(colaExecHilo, id) + VecesEn(colaBlockHilo, id)
      + (IF EnTransito(id) THEN 1 ELSE 0) + (IF id \in colaExitHilo THEN 1 ELSE 0) = 1

\* The CPU runs the thread of the exec queue, and when the calls return to
\* the scheduler that queue is empty: if not, nothing is dispatched again
\* (utils.go:803).
CpuEjecutaExec ==
  /\ pc \in {"despacho", "cpu"} => Len(colaExecHilo) = 1 /\ IdDe(colaExecHilo[1]) = hilo
  /\ pc = "libre" => colaExecHilo = <<>>

\* What will take a thread out of block: its IO or dump, a living holder of
\* the mutex it waits for, or a living thread that it joined.
EsperaIo(id) == \E e \in esperas : IdDe(e.tcb) = id /\ e.paso \in {"durmiendo", "dump"}

EsperaMutexVivo(id) ==
  \E j \in DOMAIN MutexesDe(id[1]) :
    LET m == MutexesDe(id[1])[j]
    IN EstaEn(m.colaBloqueados, id) /\
       (EnColas(<<id[1], m.HiloUsando>>) \/ saliendo.luego # "nada")

Recuerda(tcb, id) == tcb.Pid = id[1] /\ \E i \in DOMAIN tcb.HilosBloqueados : tcb.HilosBloqueados[i] = id[2]

EsperaJoin(id) ==
  \/ \E i \in DOMAIN colaReadyHilo : Recuerda(colaReadyHilo[i], id)
  \/ \E i \in DOMAIN colaExecHilo : Recuerda(colaExecHilo[i], id)
  \/ \E i \in DOMAIN colaBlockHilo : Recuerda(colaBlockHilo[i], id)
  \/ \E e \in esperas : Recuerda(e.tcb, id)
  \/ saliendo.pid = id[1] /\ \E i \in DOMAIN saliendo.faltan : saliendo.faltan[i] = id[2]

\* Every blocked thread has exactly one reason to be, and that reason is still
\* there to wake it up: no wake-up is lost (utils.go:729, 1355, 1105).  The
\* thread that failed to dump stays blocked until exitProcess reaches it.
BloqueadoConDespertador ==
  \A i \in DOMAIN colaBlockHilo :
    LET id == IdDe(colaBlockHilo[i])
    IN \/ EsperaIo(id) /\ ~EsperaMutex(id) /\ ~EsperaJoin(id)
       \/ EsperaMutexVivo(id) /\ ~EsperaIo(id) /\ ~EsperaJoin(id)
       \/ EsperaJoin(id) /\ ~EsperaIo(id) /\ ~EsperaMutex(id)
       \/ pc \in {"exitProcess", "exitHilo"} /\ salida.pid = id[1]

\* The holder of a mutex is alive, and those who wait for it are blocked.
MutexConVivos ==
  \A p \in DOMAIN colaProcesosInicializados :
    \A j \in DOMAIN colaProcesosInicializados[p] :
      LET m == colaProcesosInicializados[p][j]
      IN /\ m.HiloUsando # -1 => \/ EnColas(<<p, m.HiloUsando>>)
                                 \/ IdDe(saliendo.hilo) = <<p, m.HiloUsando>>
         /\ \A i \in DOMAIN m.colaBloqueados :
              EstaEn(colaBlockHilo, IdDe(m.colaBloqueados[i]))

\* The threads never all wait for each other: when the scheduler looks for one
\* to run (utils.go:803) it is there, or an IO that ends will bring one.
NadieTrabado == pc = "libre" => colaReadyHilo # <<>> \/ esperas # {}

\* Only the thread that holds a mutex, by its call or by its end, lets it go.
SoloElDuenioLibera ==
  [][\A p \in DOMAIN colaProcesosInicializados \cap DOMAIN colaProcesosInicializados' :
       \A j \in DOMAIN colaProcesosInicializados[p] :
         LET m == colaProcesosInicializados[p][j]
             n == colaProcesosInicializados'[p][j]
         IN (m.HiloUsando # -1 /\ n.HiloUsando # m.HiloUsando) =>
              \/ pc = "cpu" /\ hilo = <<p, m.HiloUsando>>
              \/ pc = "exitHilo" /\ IdDe(saliendo.hilo) = <<p, m.HiloUsando>>]_vars

\* Once exitProcess is over no thread of the process is left in a queue.
SinHuerfanos ==
  \A id \in Creados : id[1] \notin DOMAIN colaProcesosInicializados => ~EnColas(id)

\* exitProcess is for a process that is still initialised: the segmentation fault of a
\* thread that outlived its process, or a second end, would abort the kernel, because
\* memory answers 404 (utils.go:457).
NuncaAborta == pc # "caido"

\* A thread that has finished never comes back to a queue (utils.go:1032).
ExitEsDefinitivo == \A id \in colaExitHilo : ~EnColas(id)

\* The life cycle of each thread is that of CicloDeVida.
EstadoDe(id) ==
  IF EstaEn(colaReadyHilo, id) THEN "ready"
  ELSE IF EstaEn(colaExecHilo, id) THEN "exec"
  ELSE IF EstaEn(colaBlockHilo, id) \/ EnTransito(id) THEN "block"
  ELSE IF id \in colaExitHilo THEN "exit" ELSE "no creado"

HilosPosibles == (1..MaxPid) \X Tids
Ciclo == INSTANCE CicloDeVida
           WITH Hilos <- HilosPosibles, estado <- [h \in HilosPosibles |-> EstadoDe(h)]
CumpleCicloDeVida == Ciclo!Spec

-----------------------------------------------------------------------------
(* Progress *)

\* With one priority, bursts that end, and IO that ends, every ready thread gets
\* the CPU or is finished by another.
ReadyLlegaAExec ==
  \A id \in HilosPosibles :
    EstaEn(colaReadyHilo, id) ~> (EstaEn(colaExecHilo, id) \/ id \in colaExitHilo)

\* With mutexes that are not kept for ever, who waits for one gets it, or is
\* finished by another: the hand-over of unlockMutex and of exitHilo forgets
\* nobody (utils.go:1346, 733).
MutexLlega ==
  \A id \in HilosPosibles :
    EsperaMutex(id) ~> ((EstaEn(colaExecHilo, id) /\ Posee(id)) \/ id \in colaExitHilo)

\* A thread that does IO gets the CPU again.
IoVuelve ==
  \A id \in HilosPosibles : EsperaIo(id) ~> (EstaEn(colaExecHilo, id) \/ id \in colaExitHilo)
==============================================================================
