----------------------------- MODULE CicloProofs -----------------------------
(***************************************************************************)
(* Proofs about the steps of the kernel when scripts keep the rules: the   *)
(* life cycle of each thread, the order of the ready queue, and who lets   *)
(* mutexes go.                                                             *)
(***************************************************************************)
EXTENDS HilosProofs

-----------------------------------------------------------------------------
(* The moves of threads *)

\* Nobody moves; an exitHilo that finds no thread only puts that no-thread in exit.
Quieto ==
  /\ UNCHANGED <<colas, Despiertos>>
  /\ colaExitHilo \subseteq colaExitHilo' /\ colaExitHilo' \subseteq colaExitHilo \cup {NingunHilo}

\* The moves: a new thread is ready, ...
Nace(t) ==
  /\ t \in TCBs /\ IdDe(t) \notin IdsDe(Vivos) /\ IdDe(t) \notin colaExitHilo
  /\ colaReadyHilo' = Append(colaReadyHilo, t)
  /\ UNCHANGED <<colaExecHilo, colaBlockHilo, Despiertos, colaExitHilo>>

\* ... the scheduler takes one to the CPU, ...
Despacha(t) ==
  /\ colaReadyHilo # <<>> /\ colaExecHilo = <<>> /\ t = colaReadyHilo[Siguiente]
  /\ colaExecHilo' = <<t>> /\ colaReadyHilo' = eliminarHiloCola(colaReadyHilo, IdDe(t))
  /\ UNCHANGED <<colaBlockHilo, Despiertos, colaExitHilo>>

\* ... an eviction puts it back, ...
Desaloja(t) ==
  /\ t \in TCBs /\ colaExecHilo = <<t>>
  /\ colaExecHilo' = <<>> /\ colaReadyHilo' = Append(colaReadyHilo, t)
  /\ UNCHANGED <<colaBlockHilo, Despiertos, colaExitHilo>>

\* Of two queues: the same threads at the same places.
MismosHilos(q, r) == DOMAIN r = DOMAIN q /\ \A k \in DOMAIN q : IdDe(r[k]) = IdDe(q[k])

\* Scripts do not join a thread while they hold a mutex.
NoEspera == "no espera con mutex" \in Reglas

\* ... the thread of the CPU blocks (a join writes in the TCB of a ready one),
\* for its IO or dump, or else with no mutex, if scripts keep that rule, ...
Bloquea(t) ==
  /\ t \in TCBs /\ colaExecHilo = <<t>>
  /\ colaExecHilo' = <<>> /\ colaBlockHilo' = Append(colaBlockHilo, t)
  /\ MismosHilos(colaReadyHilo, colaReadyHilo')
  /\ NoEspera => t \in Dormidos' \/ ~Posee(IdDe(t))
  /\ UNCHANGED <<Despiertos, colaExitHilo>>

\* ... a release, the end of a joined thread or of a dump wakes it up, ...
Despierta(t) ==
  /\ t \in Bloqueados
  /\ colaBlockHilo' = eliminarHiloCola(colaBlockHilo, IdDe(t))
  /\ colaReadyHilo' = Append(colaReadyHilo, t)
  /\ UNCHANGED <<colaExecHilo, Despiertos, colaExitHilo>>

\* The two halves of the end of an IO.
SaleDeBlock(t) ==
  /\ t \in Bloqueados
  /\ colaBlockHilo' = eliminarHiloCola(colaBlockHilo, IdDe(t)) /\ Despiertos' = Despiertos \cup {t}
  /\ UNCHANGED <<colaReadyHilo, colaExecHilo, colaExitHilo>>

EntraEnReady(t) ==
  /\ t \in Despiertos
  /\ colaReadyHilo' = Append(colaReadyHilo, t) /\ Despiertos' = Despiertos \ {t}
  /\ UNCHANGED <<colaExecHilo, colaBlockHilo, colaExitHilo>>

\* A thread ends, wherever it is: the main one only in exitProcess.
Acaba(t) ==
  /\ t \in Listos \cup EnCpu \cup Bloqueados
  /\ colaReadyHilo' = IF t \in Listos THEN eliminarHiloCola(colaReadyHilo, IdDe(t))
                      ELSE colaReadyHilo
  /\ colaBlockHilo' = IF t \in Bloqueados THEN eliminarHiloCola(colaBlockHilo, IdDe(t))
                      ELSE colaBlockHilo
  /\ EnCpu' = EnCpu \ {t} /\ Bloqueados' = Bloqueados \ {t}
  /\ t.Tid # 0 \/ (salida.fase # "nada" /\ t.Pid = salida.pid)
  /\ colaExitHilo' = colaExitHilo \cup {IdDe(t)}
  /\ UNCHANGED Despiertos

\* What a step does to the queues, whatever else it does.
Movimiento ==
  \/ Quieto
  \/ \E t \in TCBs : \/ Nace(t) \/ Despacha(t) \/ Desaloja(t) \/ Bloquea(t) \/ Despierta(t)
                     \/ SaleDeBlock(t) \/ EntraEnReady(t) \/ Acaba(t)

\* Steps that touch no queue, no goroutine and no thread that ended.
LEMMA MovimientoNinguno ==
  ASSUME UNCHANGED <<colas, esperas, colaExitHilo>>
  PROVE  Movimiento
  BY DEF Movimiento, Quieto, Despiertos

\* The first thread of a process is new.
LEMMA MovimientoArrancar ==
  ASSUME Sano, NEW pid, pid = Len(nextTid) + 1, NEW prioridad \in Nat, NEW abre,
         ArrancarProceso(pid, prioridad, abre),
         UNCHANGED <<colaExecHilo, colaBlockHilo, esperas, colaExitHilo>>
  PROVE  Movimiento
<1> USE DEF Sano, HInv, IInv
<1>1. PICK t \in TCBs : t.Pid = pid /\ colaReadyHilo' = Append(colaReadyHilo, t)
  BY EfectoArrancar
<1>2. pid \notin 1..Len(nextTid)
  BY LenProperties DEF TypeOK, TipoProcesos
<1>3. IdDe(t) \notin Creados
  <2> SUFFICES ASSUME IdDe(t) \in Creados PROVE FALSE
    OBVIOUS
  <2>1. IdDe(t)[1] \in 1..Len(nextTid)
    BY CreadosTipo
  <2> QED
    BY <1>1, <1>2, <2>1 DEF IdDe
<1>4. IdDe(t) \notin IdsDe(Vivos) /\ IdDe(t) \notin colaExitHilo
  <2>1. IdDe(t) # NingunHilo
    BY <1>1, LenProperties DEF IdDe, NingunHilo, TypeOK, TipoProcesos
  <2> QED
    BY <1>3, <2>1 DEF Lugares
<1>5. Nace(t)
  BY <1>1, <1>4 DEF Nace, Despiertos
<1> QED
  BY <1>5 DEF Movimiento

\* PROCESS_CREATE, now or when memory has room.
LEMMA MovimientoCrearProceso ==
  ASSUME Sano, NEW prioridad \in Nat, NEW hay, NEW abre, CrearProceso(prioridad, hay, abre)
  PROVE  Movimiento
<1>1. UNCHANGED <<colaExecHilo, colaBlockHilo, esperas, colaExitHilo>>
  BY DEF CrearProceso, finales
<1>2. CASE hay /\ colaProcesosSinIniciar = <<>>
  <2>1. nextPid = Len(nextTid) + 1
    BY <1>2, LenProperties, EmptySeq DEF PidsEnOrden, TypeOK, TipoProcesos, Sano, IInv
  <2> QED
    BY <1>1, <1>2, <2>1, MovimientoArrancar DEF CrearProceso
<1>3. CASE ~(hay /\ colaProcesosSinIniciar = <<>>)
  BY <1>1, <1>3, MovimientoNinguno DEF CrearProceso, colas
<1> QED
  BY <1>2, <1>3

\* A process that waited starts when another has ended.
LEMMA MovimientoIniciar ==
  ASSUME Sano, NEW abre, IniciarPendiente(abre)
  PROVE  Movimiento
<1> USE DEF Sano, IInv
<1> DEFINE primero == Head(colaProcesosSinIniciar)
<1>1. /\ colaProcesosSinIniciar # <<>> /\ ArrancarProceso(primero.Pid, primero.Prioridad, abre)
      /\ UNCHANGED <<colaExecHilo, colaBlockHilo, esperas, colaExitHilo>>
  BY DEF IniciarPendiente, finales
<1>2. /\ colaProcesosSinIniciar \in Seq([Pid : Nat, Prioridad : Nat])
      /\ 1 \in DOMAIN colaProcesosSinIniciar /\ primero = colaProcesosSinIniciar[1]
  BY <1>1, EmptySeq, LenProperties DEF TypeOK, TipoProcesos
<1>3. colaProcesosSinIniciar[1] \in [Pid : Nat, Prioridad : Nat]
  <2>1. 1 \in 1..Len(colaProcesosSinIniciar)
    BY <1>2, LenProperties
  <2> QED
    BY <1>2, <2>1, ElementOfSeq
<1>4. primero.Prioridad \in Nat /\ primero.Pid = Len(nextTid) + 1
  BY <1>2, <1>3 DEF PidsEnOrden
<1> HIDE DEF primero
<1> QED
  BY <1>1, <1>4, MovimientoArrancar

\* THREAD_CREATE.
LEMMA MovimientoCrearHilo ==
  ASSUME Sano, NEW prioridad \in Nat, NEW abre, CrearHilo(prioridad, abre)
  PROVE  Movimiento
<1> USE DEF Sano, HInv, IInv
<1> DEFINE pid == hilo[1]
           t == [Pid |-> pid, Tid |-> nextTid[pid], Prioridad |-> prioridad,
                 HilosBloqueados |-> <<>>]
<1>1. pid \in DOMAIN colaProcesosInicializados
  BY DEF CrearHilo, Llama
<1>2. /\ UNCHANGED <<colaExecHilo, colaBlockHilo, colaExitHilo, esperas>>
      /\ colaReadyHilo' = Append(colaReadyHilo, t)
      /\ nextTid' = [nextTid EXCEPT ![pid] = nextTid[pid] + 1]
  BY DEF CrearHilo, finales
<1>3. nextTid \in Seq(Nat) /\ pid \in 1..Len(nextTid) /\ nextTid[pid] \in Nat
  <2>1. nextTid \in Seq(Nat) /\ pid \in 1..Len(nextTid)
    BY <1>1 DEF PidsEnOrden, Pids, TypeOK, TipoProcesos
  <2> QED
    BY <2>1, ElementOfSeq
<1>4. pid \in Nat /\ pid # 0
  BY <1>3, LenProperties
<1>5. t \in TCBs /\ IdDe(t) = <<pid, nextTid[pid]>>
  BY <1>3, <1>4, EmptySeq DEF TCBs, IdDe
<1> HIDE DEF pid, t
<1>6. IdDe(t) \notin Creados
  BY <1>2, <1>3, <1>5, CreadosCrece
<1>7. IdDe(t) # NingunHilo
  BY <1>4, <1>5 DEF NingunHilo
<1>8. Nace(t)
  BY <1>2, <1>5, <1>6, <1>7 DEF Nace, Despiertos, Lugares
<1> QED
  BY <1>5, <1>8 DEF Movimiento

\* The scheduler sends a thread to the CPU.
LEMMA MovimientoEjecutar ==
  ASSUME Sano, ejecutarInstruccion
  PROVE  Movimiento
<1> USE DEF Sano, HInv, IInv
<1> DEFINE t == colaReadyHilo[Siguiente]
<1>1. /\ colaReadyHilo # <<>> /\ colaExecHilo = <<>> /\ colaExecHilo' = <<t>>
      /\ colaReadyHilo' = eliminarHiloCola(colaReadyHilo, IdDe(t))
      /\ UNCHANGED <<colaBlockHilo, esperas, colaExitHilo>>
  BY DEF ejecutarInstruccion, finales
<1>2. t \in TCBs
  BY <1>1, SiguienteTipo, TipoLugares, Indices
<1>3. Despacha(t)
  BY <1>1 DEF Despacha, Despiertos
<1> HIDE DEF t
<1> QED
  BY <1>2, <1>3 DEF Movimiento

\* An interruption evicts it.
LEMMA MovimientoDesalojar ==
  ASSUME Sano, DevolverPidTid
  PROVE  Movimiento
<1>1. pc = "cpu"
  BY DEF DevolverPidTid, Llama
<1>2. PICK a \in TCBs : /\ colaExecHilo = <<a>> /\ IdDe(a) = hilo /\ getTCB(hilo) = a
                        /\ eliminarHiloCola(colaExecHilo, hilo) = <<>>
  BY <1>1, ConActual
<1>3. Desaloja(a)
  BY <1>2 DEF DevolverPidTid, Desaloja, Despiertos, finales
<1> QED
  BY <1>2, <1>3 DEF Movimiento

\* IO and DUMP_MEMORY block it.
LEMMA MovimientoDormir ==
  ASSUME Sano, ManejarIo \/ DumpMemory
  PROVE  Movimiento
<1>1. PICK paso \in {"durmiendo", "dump"} :
        /\ pc = "cpu" /\ Bloquear(getTCB(hilo), paso)
        /\ UNCHANGED <<colaReadyHilo, colaExitHilo>>
  BY DEF ManejarIo, DumpMemory, Llama, finales
<1>2. PICK a \in TCBs : /\ colaExecHilo = <<a>> /\ IdDe(a) = hilo /\ getTCB(hilo) = a
                        /\ eliminarHiloCola(colaExecHilo, hilo) = <<>>
  BY <1>1, ConActual
<1>3. /\ colaExecHilo' = <<>> /\ colaBlockHilo' = Append(colaBlockHilo, a)
      /\ esperas' = esperas \cup {[tcb |-> a, paso |-> paso]}
  BY <1>1, <1>2 DEF Bloquear
<1>4. Despiertos' = Despiertos
  BY <1>1, <1>3 DEF Despiertos
<1>5. a \in Dormidos'
  <2> DEFINE f == [tcb |-> a, paso |-> paso]
  <2>1. f \in esperas' /\ f.tcb = a /\ f.paso # "encolar"
    BY <1>3
  <2> HIDE DEF f
  <2> QED
    BY <2>1 DEF Dormidos
<1>6. Bloquea(a)
  BY <1>1, <1>2, <1>3, <1>4, <1>5 DEF Bloquea, MismosHilos
<1> QED
  BY <1>2, <1>6 DEF Movimiento

\* THREAD_JOIN blocks it, and the thread that it joins stays where it is.
LEMMA MovimientoEntrar ==
  ASSUME Sano, NEW tid, EntrarHilo(tid)
  PROVE  Movimiento
<1> USE DEF Sano, HInv, IInv
<1> DEFINE id == <<hilo[1], tid>>
           k == Posicion(colaReadyHilo, id)
           u == colaReadyHilo[k]
           v == [u EXCEPT !.HilosBloqueados = Append(@, hilo[2])]
<1> SUFFICES ASSUME EstaEn(colaReadyHilo, id) PROVE Movimiento
  BY MovimientoNinguno DEF EntrarHilo, finales
<1>1. /\ pc = "cpu" /\ joinHilo(tid)
      /\ NoEspera => ~Posee(hilo)
      /\ UNCHANGED <<esperas, colaExitHilo>>
  BY DEF EntrarHilo, Llama, Regla, ReglasCumplidas, ReglasDeHilos, NoEspera, finales
<1>2. PICK a \in TCBs : /\ colaExecHilo = <<a>> /\ IdDe(a) = hilo /\ getTCB(hilo) = a
                        /\ eliminarHiloCola(colaExecHilo, hilo) = <<>>
  BY <1>1, ConActual
<1>3. k \in DOMAIN colaReadyHilo /\ u \in TCBs
  <2>1. colaReadyHilo \in Seq(TCBs)
    BY TipoLugares
  <2> QED
    BY <1>1, <2>1, BuscarTipo, Indices
<1>4. IdDe(v) = IdDe(u)
  BY <1>3 DEF TCBs, IdDe
<1>5. /\ colaReadyHilo' = [colaReadyHilo EXCEPT ![k] = v]
      /\ colaExecHilo' = <<>> /\ colaBlockHilo' = Append(colaBlockHilo, a)
  BY <1>1, <1>2 DEF joinHilo
<1> HIDE DEF k, v
<1>6. MismosHilos(colaReadyHilo, colaReadyHilo')
  BY <1>3, <1>4, <1>5 DEF MismosHilos
<1>7. Bloquea(a)
  BY <1>1, <1>2, <1>5, <1>6 DEF Bloquea, Despiertos
<1> QED
  BY <1>2, <1>7 DEF Movimiento

\* MUTEX_LOCK blocks it when another thread holds the mutex.
LEMMA MovimientoBloquear ==
  ASSUME ReglasCumplidas, Sano, NEW nombre, BloquearMutex(nombre)
  PROVE  Movimiento
<1>1. pc = "cpu" /\ ~Posee(hilo) /\ UNCHANGED <<esperas, colaExitHilo>>
  BY DEF BloquearMutex, Llama, Regla, ReglasCumplidas, ReglasDeHilos, finales
<1>2. PICK a \in TCBs : /\ colaExecHilo = <<a>> /\ IdDe(a) = hilo /\ getTCB(hilo) = a
                        /\ eliminarHiloCola(colaExecHilo, hilo) = <<>>
  BY <1>1, ConActual
<1>3. CASE UNCHANGED colas
  BY <1>1, <1>3, MovimientoNinguno
<1>4. CASE EsperarMutex(getTCB(hilo))
  <2>1. Bloquea(a)
    BY <1>1, <1>2, <1>4 DEF EsperarMutex, Bloquea, MismosHilos, Despiertos
  <2> QED
    BY <1>2, <2>1 DEF Movimiento
<1> QED
  BY <1>3, <1>4 DEF BloquearMutex, TomarMutex

\* A mutex that is released leaves the threads where they are or wakes up the
\* first that waits for it.
LEMMA MovimientoUnlock ==
  ASSUME Sano, NEW pid, NEW tid, NEW nombre, unlockMutex(pid, tid, nombre),
         UNCHANGED <<colaExecHilo, esperas, colaExitHilo>>
  PROVE  Movimiento
<1> USE DEF Sano, HInv, IInv
<1> DEFINE m == MutexesDe(pid)[1]
           t == Head(m.colaBloqueados)
<1>1. CASE UNCHANGED <<colaReadyHilo, colaBlockHilo>>
  BY <1>1, MovimientoNinguno DEF colas
<1>2. CASE /\ MutexesDe(pid) # <<>> /\ m.colaBloqueados # <<>>
           /\ colaBlockHilo' = eliminarHiloCola(colaBlockHilo, IdDe(t))
           /\ colaReadyHilo' = Append(colaReadyHilo, t)
  <2>1. m.colaBloqueados \in Seq(TCBs) /\ MutexSano(pid, m)
    BY <1>2, ElMutex
  <2>2. t \in Bloqueados
    BY <1>2, <2>1, Cabeza DEF MutexSano
  <2>3. t \in TCBs
    BY <2>2, TipoLugares
  <2>4. Despierta(t)
    BY <1>2, <2>2 DEF Despierta, Despiertos
  <2> HIDE DEF t
  <2> QED
    BY <2>3, <2>4 DEF Movimiento
<1> QED
  BY <1>1, <1>2 DEF unlockMutex

\* MUTEX_UNLOCK, and the end of exitHilo.
LEMMA MovimientoLiberar ==
  ASSUME Sano, (\E n : LiberarMutex(n)) \/ LiberarAlSalir
  PROVE  Movimiento
<1>1. CASE \E n : LiberarMutex(n)
  BY <1>1, MovimientoUnlock DEF LiberarMutex, finales
<1>2. CASE LiberarAlSalir
  <2>1. UNCHANGED <<colaExecHilo, esperas, colaExitHilo>>
    BY <1>2 DEF LiberarAlSalir
  <2>2. CASE UNCHANGED <<colaReadyHilo, colaBlockHilo>>
    BY <2>1, <2>2, MovimientoNinguno DEF colas
  <2>3. CASE \E n : unlockMutex(saliendo.pid, saliendo.hilo.Tid, n)
    BY <2>1, <2>3, MovimientoUnlock
  <2> QED
    BY <1>2, <2>2, <2>3 DEF LiberarAlSalir
<1> QED
  BY <1>1, <1>2

\* Memory answers a dump.
LEMMA MovimientoDump ==
  ASSUME Sano, NEW e \in esperas, NEW hecho \in BOOLEAN, RespuestaDump(e, hecho)
  PROVE  Movimiento
<1> USE DEF Sano, HInv, IInv
<1> DEFINE t == e.tcb
<1>1. /\ e.paso = "dump" /\ esperas' = esperas \ {e} /\ UNCHANGED <<colaExecHilo, colaExitHilo>>
      /\ \/ /\ colaBlockHilo' = eliminarHiloCola(colaBlockHilo, IdDe(t))
            /\ colaReadyHilo' = Append(colaReadyHilo, t)
         \/ UNCHANGED <<colaBlockHilo, colaReadyHilo>>
  BY DEF RespuestaDump
<1>2. Despiertos' = Despiertos
  BY <1>1 DEF Despiertos
<1>3. t \in Bloqueados /\ t \in TCBs
  BY <1>1, TipoLugares DEF Dormidos, Lugares
<1>4. Despierta(t) \/ Quieto
  BY <1>1, <1>2, <1>3 DEF Despierta, Quieto, colas
<1> HIDE DEF t
<1> QED
  BY <1>3, <1>4 DEF Movimiento

\* The goroutine of an IO.
LEMMA MovimientoIo ==
  ASSUME Sano, NEW e \in esperas, TerminaIo(e) \/ EncolaIo(e)
  PROVE  Movimiento
<1> USE DEF Sano, HInv, IInv
<1> DEFINE t == e.tcb
<1>1. CASE TerminaIo(e)
  <2>1. /\ e.paso = "durmiendo" /\ colaBlockHilo' = eliminarHiloCola(colaBlockHilo, IdDe(t))
        /\ esperas' = (esperas \ {e}) \cup {[e EXCEPT !.paso = "encolar"]}
        /\ UNCHANGED <<colaReadyHilo, colaExecHilo, colaExitHilo, nextTid>>
    BY <1>1 DEF TerminaIo, SinSuHilo, QuedaEncolar, procesos
  <2>2. t \in Bloqueados /\ Despiertos' = Despiertos \cup {t} /\ t \in TCBs
    BY <2>1, EfectoTerminaIo, TipoLugares
  <2>3. SaleDeBlock(t)
    BY <2>1, <2>2 DEF SaleDeBlock
  <2> HIDE DEF t
  <2> QED
    BY <2>2, <2>3 DEF Movimiento
<1>2. CASE EncolaIo(e)
  <2>1. /\ e.paso = "encolar" /\ colaReadyHilo' = Append(colaReadyHilo, t)
        /\ esperas' = esperas \ {e}
        /\ UNCHANGED <<colaExecHilo, colaBlockHilo, colaExitHilo, nextTid>>
    BY <1>2 DEF EncolaIo, procesos
  <2>2. t \in Despiertos /\ Despiertos' = Despiertos \ {t} /\ t \in TCBs
    BY <2>1, EfectoEncolaIo, TipoLugares
  <2>3. EntraEnReady(t)
    BY <2>1, <2>2 DEF EntraEnReady
  <2> HIDE DEF t
  <2> QED
    BY <2>2, <2>3 DEF Movimiento
<1> QED
  BY <1>1, <1>2

\* A thread that ends wakes up one that joined it.
LEMMA MovimientoDesbloquear ==
  ASSUME Sano, DesbloquearHilosJoin
  PROVE  Movimiento
<1> USE DEF Sano, HInv, IInv
<1> DEFINE id == <<saliendo.pid, Head(saliendo.faltan)>>
<1>1. /\ UNCHANGED <<colaExecHilo, colaExitHilo, esperas>>
      /\ IF EstaEn(colaBlockHilo, id)
         THEN /\ colaBlockHilo' = eliminarHiloCola(colaBlockHilo, id)
              /\ colaReadyHilo' = Append(colaReadyHilo, Buscar(colaBlockHilo, id))
         ELSE UNCHANGED <<colaBlockHilo, colaReadyHilo>>
  BY DEF DesbloquearHilosJoin
<1> HIDE DEF id
<1>2. CASE EstaEn(colaBlockHilo, id)
  <2>1. PICK t \in Bloqueados : IdDe(t) = id
    BY <1>2, EstaEnRango DEF IdsDe, Bloqueados
  <2>2. Buscar(colaBlockHilo, id) = t /\ t \in TCBs
    BY <2>1, BuscarUno, TipoLugares DEF Bloqueados, Lugares
  <2>3. Despierta(t)
    BY <1>1, <1>2, <2>1, <2>2 DEF Despierta, Despiertos
  <2> QED
    BY <2>2, <2>3 DEF Movimiento
<1>3. CASE ~EstaEn(colaBlockHilo, id)
  BY <1>1, <1>3, MovimientoNinguno DEF colas
<1> QED
  BY <1>2, <1>3

\* exitHilo of a thread that lives.
LEMMA MovimientoSalir ==
  ASSUME Sano, NEW t \in Listos \cup EnCpu \cup Bloqueados, t \notin Dormidos,
         NEW pid, NEW tid, IdDe(t) = <<pid, tid>>, NEW luego, exitHilo(pid, tid, luego),
         tid # 0 \/ (salida.fase # "nada" /\ pid = salida.pid),
         UNCHANGED <<esperas, nextTid>>
  PROVE  Movimiento
<1> USE DEF Sano, HInv, IInv
<1>1. /\ UNCHANGED Despiertos
      /\ EnCpu' = EnCpu \ {t} /\ Bloqueados' = Bloqueados \ {t}
      /\ colaExitHilo' = colaExitHilo \cup {IdDe(t)}
      /\ colaReadyHilo' = IF t \in Listos THEN eliminarHiloCola(colaReadyHilo, IdDe(t))
                          ELSE colaReadyHilo
      /\ colaBlockHilo' = IF t \in Bloqueados THEN eliminarHiloCola(colaBlockHilo, IdDe(t))
                          ELSE colaBlockHilo
  BY EfectoSalir
<1>2. t \in TCBs /\ t.Pid = pid /\ t.Tid = tid
  BY TipoLugares DEF IdDe
<1>3. Acaba(t)
  BY <1>1, <1>2 DEF Acaba
<1> QED
  BY <1>2, <1>3 DEF Movimiento

\* exitHilo of a thread that is nowhere.
LEMMA MovimientoSalirNadie ==
  ASSUME Sano, NEW pid, NEW tid, <<pid, tid>> \notin IdsDe(Listos \cup EnCpu \cup Bloqueados),
         NEW luego, exitHilo(pid, tid, luego), UNCHANGED esperas
  PROVE  Movimiento
<1> USE DEF Sano, HInv, IInv
<1>1. getTCB(<<pid, tid>>) = TCBNulo
  BY getTCBNada
<1>2. IdDe(TCBNulo) = NingunHilo
  BY DEF IdDe, TCBNulo, NingunHilo
<1>3. /\ ~EstaEn(colaReadyHilo, NingunHilo) /\ ~EstaEn(colaExecHilo, NingunHilo)
      /\ ~EstaEn(colaBlockHilo, NingunHilo)
  BY NingunHiloNoVive, EstaEnRango DEF Vivos, IdsDe, Listos, EnCpu, Bloqueados
<1>4. UNCHANGED colas /\ colaExitHilo' = colaExitHilo \cup {NingunHilo}
  BY <1>1, <1>2, <1>3 DEF exitHilo, exitHiloDe, colas
<1>5. Quieto
  BY <1>4 DEF Quieto, Despiertos
<1> QED
  BY <1>5 DEF Movimiento

\* THREAD_EXIT and THREAD_CANCEL.
LEMMA MovimientoFinalizar ==
  ASSUME ReglasCumplidas, Sano, FinalizarHilo \/ \E tid : CancelarHilo(tid)
  PROVE  Movimiento
<1> USE DEF Sano, HInv, IInv
<1>1. pc = "cpu" /\ UNCHANGED <<esperas, nextTid>>
  BY DEF FinalizarHilo, CancelarHilo, PideCancelar, Llama, procesos
<1>2. PICK a \in TCBs : /\ EnCpu = {a} /\ IdDe(a) = hilo /\ a.Pid = hilo[1] /\ a.Tid = hilo[2]
                        /\ a \notin Bloqueados
  BY <1>1, ConActual
<1>3. CASE FinalizarHilo
  <2>1. exitHilo(hilo[1], hilo[2], "fin") /\ hilo[2] # 0
    BY <1>3 DEF FinalizarHilo, Regla, ReglasCumplidas, ReglasDeHilos
  <2>2. a \in Listos \cup EnCpu \cup Bloqueados /\ a \notin Dormidos
    BY <1>2 DEF Lugares
  <2>3. IdDe(a) = <<hilo[1], hilo[2]>>
    BY <1>2 DEF IdDe
  <2> QED
    BY <1>1, <2>1, <2>2, <2>3, MovimientoSalir
<1>4. ASSUME NEW tid, CancelarHilo(tid) PROVE Movimiento
  <2> DEFINE id == <<hilo[1], tid>>
  <2>1. /\ getTCB(id) # TCBNulo /\ \A e \in esperas : IdDe(e.tcb) # id
        /\ exitHilo(hilo[1], tid, "cancelado") /\ tid # 0
    BY <1>4 DEF CancelarHilo, PideCancelar, Regla, ReglasCumplidas, ReglasDeHilos
  <2>2. PICK t \in Listos \cup EnCpu \cup Bloqueados : IdDe(t) = id
    BY <2>1, getTCBNada DEF IdsDe
  <2>3. t \notin Dormidos
    BY <2>1, <2>2 DEF Dormidos
  <2> QED
    BY <1>1, <2>1, <2>2, <2>3, MovimientoSalir
<1> QED
  BY <1>3, <1>4

\* A loop of exitProcess reads its next element.
LEMMA MovimientoRecorrer ==
  ASSUME Sano, RecorrerCola
  PROVE  Movimiento
<1> USE DEF Sano, HInv, IInv
<1> DEFINE u == salida.arr[salida.i]
<1>1. /\ pc = "exitProcess" /\ salida.fase # "nada" /\ UNCHANGED <<esperas, nextTid>>
      /\ IF u.Pid = salida.pid THEN exitHilo(salida.pid, u.Tid, "exitProcess")
         ELSE UNCHANGED <<colas, colaExitHilo>>
  BY DEF RecorrerCola, procesos
<1>2. CASE u.Pid # salida.pid
  BY <1>1, <1>2, MovimientoNinguno
<1>3. CASE u.Pid = salida.pid
  <2>1. exitHilo(salida.pid, u.Tid, "exitProcess")
    BY <1>1, <1>3
  <2>2. CASE <<salida.pid, u.Tid>> \in IdsDe(Listos \cup EnCpu \cup Bloqueados)
    <3>1. PICK t \in Listos \cup EnCpu \cup Bloqueados : IdDe(t) = <<salida.pid, u.Tid>>
      BY <2>2 DEF IdsDe
    <3>2. t \notin Dormidos
      BY <1>1, <3>1 DEF Recorrido, IdDe
    <3> HIDE DEF u
    <3> QED
      BY <1>1, <2>1, <3>1, <3>2, MovimientoSalir
  <2>3. CASE <<salida.pid, u.Tid>> \notin IdsDe(Listos \cup EnCpu \cup Bloqueados)
    <3> HIDE DEF u
    <3> QED
      BY <1>1, <2>1, <2>3, MovimientoSalirNadie
  <2> QED
    BY <2>2, <2>3
<1> QED
  BY <1>2, <1>3

\* The steps that move nobody.
LEMMA MovimientoResto ==
  ASSUME \/ RecibirPIDyTID \/ RafagaSinSyscall \/ SeguirLockMutex \/ VolverDeCancelar
         \/ SiguienteCola \/ TerminarProceso \/ FinExitProcess \/ FinalizarProceso
         \/ SegmentationFault \/ (\E n : CrearMutex(n)) \/ UNCHANGED vars
  PROVE  Movimiento
<1>1. UNCHANGED <<colas, esperas, colaExitHilo>>
  BY DEF RecibirPIDyTID, RafagaSinSyscall, SeguirLockMutex, VolverDeCancelar, SiguienteCola,
         TerminarProceso, FinExitProcess, FinalizarProceso, SegmentationFault, CrearMutex,
         finales, vars
<1> QED
  BY <1>1, MovimientoNinguno

\* Every step moves at most one thread, in one of these ways.
LEMMA PasoMovimiento ==
  ASSUME ReglasCumplidas, Sano, [Next]_vars
  PROVE  Movimiento
<1>1. CASE Syscall
  <2>1. Prioridades \subseteq Nat
    BY KernelAssumption
  <2> QED
    BY <1>1, <2>1, MovimientoCrearProceso, MovimientoCrearHilo, MovimientoEntrar,
       MovimientoFinalizar, MovimientoResto, MovimientoBloquear, MovimientoLiberar,
       MovimientoDormir
    DEF Syscall
<1>2. CASE DejaCpu
  BY <1>2, MovimientoDormir, MovimientoFinalizar, MovimientoResto, MovimientoDesalojar
  DEF DejaCpu
<1>3. CASE PasoKernel
  BY <1>3, MovimientoEjecutar, MovimientoResto, MovimientoDump, MovimientoDesbloquear,
     MovimientoLiberar, MovimientoRecorrer, MovimientoIniciar
  DEF PasoKernel
<1>4. CASE \E e \in esperas : TerminaIo(e) \/ EncolaIo(e)
  BY <1>4, MovimientoIo
<1>5. CASE UNCHANGED vars
  BY <1>5, MovimientoResto
<1> QED
  BY <1>1, <1>2, <1>3, <1>4, <1>5, SinCruce DEF Next, Terminado

-----------------------------------------------------------------------------
(* The life cycle *)

\* The threads that CicloDeVida calls ready, exec and block, by their ids.
IdsListos == IdsDe(Listos)
IdsCpu == IdsDe(EnCpu)
IdsFuera == IdsDe(Bloqueados \cup Despiertos)

\* Of the ids: each is in one state.
IdsApartados ==
  /\ IdsListos \cap IdsCpu = {} /\ IdsListos \cap IdsFuera = {} /\ IdsCpu \cap IdsFuera = {}
  /\ (IdsListos \cup IdsCpu \cup IdsFuera) \cap colaExitHilo = {}

\* The state of a thread, read from those sets.
EstadosPorIds ==
  \A id : EstadoDe(id) = IF id \in IdsListos THEN "ready"
                         ELSE IF id \in IdsCpu THEN "exec"
                         ELSE IF id \in IdsFuera THEN "block"
                         ELSE IF id \in colaExitHilo THEN "exit" ELSE "no creado"

\* That is its state.
LEMMA EstadoPorIds == EstadosPorIds
<1> SUFFICES ASSUME NEW id
             PROVE  EstadoDe(id) = IF id \in IdsListos THEN "ready"
                                   ELSE IF id \in IdsCpu THEN "exec"
                                   ELSE IF id \in IdsFuera THEN "block"
                                   ELSE IF id \in colaExitHilo THEN "exit" ELSE "no creado"
  BY DEF EstadosPorIds
<1>1. /\ EstaEn(colaReadyHilo, id) <=> id \in IdsListos
      /\ EstaEn(colaExecHilo, id) <=> id \in IdsCpu
      /\ EstaEn(colaBlockHilo, id) <=> id \in IdsDe(Bloqueados)
  BY EstaEnRango DEF IdsListos, IdsCpu, Listos, EnCpu, Bloqueados
<1>2. EnTransito(id) <=> id \in IdsDe(Despiertos)
  BY DEF EnTransito, IdsDe, Despiertos
<1>3. id \in IdsFuera <=> id \in IdsDe(Bloqueados) \/ id \in IdsDe(Despiertos)
  BY DEF IdsFuera, IdsDe
<1> QED
  BY <1>1, <1>2, <1>3 DEF EstadoDe

\* No two threads that live have one id.
LEMMA SanoApartados == Sano => IdsApartados
<1> SUFFICES ASSUME Sano PROVE IdsApartados
  OBVIOUS
<1>1. \A t, u \in Vivos : IdDe(t) = IdDe(u) => t = u
  BY DEF Sano, HInv, Lugares, Distintos
<1>2. Apartados /\ \A t \in Vivos : IdDe(t) \notin colaExitHilo
  BY DEF Sano, HInv, Lugares
<1> QED
  BY <1>1, <1>2 DEF IdsApartados, Apartados, IdsListos, IdsCpu, IdsFuera, IdsDe, Vivos

\* The ids of some threads without one of them.
LEMMA IdsMenos ==
  ASSUME Sano, NEW S \in SUBSET Vivos, NEW t \in Vivos
  PROVE  IdsDe(S \ {t}) = IdsDe(S) \ {IdDe(t)}
  BY DEF Sano, HInv, Lugares, Distintos, IdsDe

\* The ids of some threads with one more.
LEMMA IdsMas ==
  ASSUME NEW S, NEW t
  PROVE  IdsDe(S \cup {t}) = IdsDe(S) \cup {IdDe(t)}
  BY DEF IdsDe

\* What the moves do to those sets.
CambioDeIds(id) ==
  \/ /\ id \notin IdsListos \cup IdsCpu \cup IdsFuera \cup colaExitHilo
     /\ IdsListos' = IdsListos \cup {id} /\ UNCHANGED <<IdsCpu, IdsFuera, colaExitHilo>>
  \/ /\ id \in IdsListos /\ IdsCpu = {}
     /\ IdsListos' = IdsListos \ {id} /\ IdsCpu' = {id} /\ UNCHANGED <<IdsFuera, colaExitHilo>>
  \/ /\ IdsCpu = {id} /\ IdsCpu' = {}
     /\ IdsListos' = IdsListos \cup {id} /\ UNCHANGED <<IdsFuera, colaExitHilo>>
  \/ /\ IdsCpu = {id} /\ IdsCpu' = {}
     /\ IdsFuera' = IdsFuera \cup {id} /\ UNCHANGED <<IdsListos, colaExitHilo>>
  \/ /\ id \in IdsFuera
     /\ IdsFuera' = IdsFuera \ {id} /\ IdsListos' = IdsListos \cup {id}
     /\ UNCHANGED <<IdsCpu, colaExitHilo>>
  \/ /\ id \in IdsListos \cup IdsCpu \cup IdsFuera
     /\ IdsListos' = IdsListos \ {id} /\ IdsCpu' = IdsCpu \ {id}
     /\ IdsFuera' = IdsFuera \ {id} /\ colaExitHilo' = colaExitHilo \cup {id}

\* Moves that the life cycle does not see.
IdsQuietos ==
  /\ UNCHANGED <<IdsListos, IdsCpu, IdsFuera>>
  /\ colaExitHilo \subseteq colaExitHilo' /\ colaExitHilo' \subseteq colaExitHilo \cup {NingunHilo}

\* Each move changes the state of one thread, or of none.
LEMMA IdsPaso ==
  ASSUME Sano, Movimiento
  PROVE  IdsQuietos \/ \E id : CambioDeIds(id)
<1>0. /\ colaReadyHilo \in Seq(TCBs) /\ colaExecHilo \in Seq(TCBs) /\ colaBlockHilo \in Seq(TCBs)
      /\ Unico(colaReadyHilo) /\ Unico(colaExecHilo) /\ Unico(colaBlockHilo)
  BY TipoLugares DEF Sano, HInv, IInv, Lugares
<1>1. CASE Quieto
  BY <1>1 DEF Quieto, IdsQuietos, IdsListos, IdsCpu, IdsFuera, Listos, EnCpu, Bloqueados, colas
<1>2. ASSUME NEW t \in TCBs, Nace(t) PROVE CambioDeIds(IdDe(t))
  <2>1. Listos' = Listos \cup {t} /\ UNCHANGED <<EnCpu, Bloqueados, Despiertos>>
    BY <1>0, <1>2, Agregar DEF Nace, Listos, EnCpu, Bloqueados
  <2>2. IdsListos' = IdsListos \cup {IdDe(t)} /\ UNCHANGED <<IdsCpu, IdsFuera, colaExitHilo>>
    BY <1>2, <2>1, IdsMas DEF IdsListos, IdsCpu, IdsFuera, Nace
  <2>3. IdDe(t) \notin IdsListos \cup IdsCpu \cup IdsFuera \cup colaExitHilo
    BY <1>2 DEF Nace, IdsListos, IdsCpu, IdsFuera, IdsDe, Vivos
  <2> QED
    BY <2>2, <2>3 DEF CambioDeIds
<1>3. ASSUME NEW t \in TCBs, Despacha(t) PROVE CambioDeIds(IdDe(t))
  <2>1. t \in Listos
    <3>1. Siguiente \in DOMAIN colaReadyHilo
      BY <1>0, <1>3, SiguienteTipo DEF Despacha
    <3> QED
      BY <1>3, <3>1 DEF Despacha, Listos, Rango
  <2>2. Listos' = Listos \ {t}
    BY <1>0, <1>3, <2>1, Quitar DEF Despacha, Listos
  <2>3. EnCpu = {} /\ EnCpu' = {t} /\ UNCHANGED <<Bloqueados, Despiertos>>
    BY <1>3, Vacia, Uno DEF Despacha, EnCpu, Bloqueados
  <2>4. IdsListos' = IdsListos \ {IdDe(t)}
    BY <2>1, <2>2, IdsMenos DEF IdsListos, Vivos
  <2>5. /\ IdsCpu = {} /\ IdsCpu' = {IdDe(t)} /\ UNCHANGED <<IdsFuera, colaExitHilo>>
        /\ IdDe(t) \in IdsListos
    BY <1>3, <2>1, <2>3 DEF IdsCpu, IdsFuera, IdsListos, IdsDe, Despacha
  <2> QED
    BY <2>4, <2>5 DEF CambioDeIds
<1>4. ASSUME NEW t \in TCBs, Desaloja(t) PROVE CambioDeIds(IdDe(t))
  <2>1. Listos' = Listos \cup {t}
    BY <1>0, <1>4, Agregar DEF Desaloja, Listos
  <2>2. EnCpu' = {} /\ EnCpu = {t} /\ UNCHANGED <<Bloqueados, Despiertos>>
    BY <1>4, Vacia, Uno DEF Desaloja, EnCpu, Bloqueados
  <2>3. IdsListos' = IdsListos \cup {IdDe(t)}
    BY <2>1, IdsMas DEF IdsListos
  <2>4. IdsCpu = {IdDe(t)} /\ IdsCpu' = {} /\ UNCHANGED <<IdsFuera, colaExitHilo>>
    BY <1>4, <2>2 DEF IdsCpu, IdsFuera, IdsDe, Desaloja
  <2> QED
    BY <2>3, <2>4 DEF CambioDeIds
<1>5. ASSUME NEW t \in TCBs, Bloquea(t) PROVE CambioDeIds(IdDe(t))
  <2>1. Bloqueados' = Bloqueados \cup {t}
    BY <1>0, <1>5, Agregar DEF Bloquea, Bloqueados
  <2>2. EnCpu' = {} /\ EnCpu = {t} /\ UNCHANGED <<Despiertos, colaExitHilo>>
    BY <1>5, Vacia, Uno DEF Bloquea, EnCpu
  <2>3. IdsListos' = IdsListos
    BY <1>5 DEF Bloquea, MismosHilos, IdsListos, IdsDe, Listos, Rango
  <2>4. IdsCpu = {IdDe(t)} /\ IdsCpu' = {} /\ IdsFuera' = IdsFuera \cup {IdDe(t)}
    BY <2>1, <2>2 DEF IdsCpu, IdsFuera, IdsDe
  <2> QED
    BY <2>2, <2>3, <2>4 DEF CambioDeIds
<1>6. ASSUME NEW t \in TCBs, Despierta(t) \/ EntraEnReady(t) PROVE CambioDeIds(IdDe(t))
  <2>1. /\ Listos' = Listos \cup {t} /\ UNCHANGED <<EnCpu, colaExitHilo>>
        /\ t \in Bloqueados \cup Despiertos
    BY <1>0, <1>6, Agregar DEF Despierta, EntraEnReady, Listos, EnCpu
  <2>2. (Bloqueados \cup Despiertos)' = (Bloqueados \cup Despiertos) \ {t}
    <3>1. Bloqueados \cap Despiertos = {}
      BY DEF Sano, HInv, Lugares, Apartados
    <3>2. CASE Despierta(t)
      <4>1. Bloqueados' = Bloqueados \ {t} /\ Despiertos' = Despiertos /\ t \in Bloqueados
        BY <1>0, <3>2, Quitar DEF Despierta, Bloqueados
      <4> QED
        BY <3>1, <4>1
    <3>3. CASE EntraEnReady(t)
      <4>1. Bloqueados' = Bloqueados /\ Despiertos' = Despiertos \ {t} /\ t \in Despiertos
        BY <3>3 DEF EntraEnReady, Bloqueados
      <4> QED
        BY <3>1, <4>1
    <3> QED
      BY <1>6, <3>2, <3>3
  <2>3. IdsListos' = IdsListos \cup {IdDe(t)} /\ IdsCpu' = IdsCpu
    BY <2>1, IdsMas DEF IdsListos, IdsCpu
  <2>4. IdsFuera' = IdsFuera \ {IdDe(t)}
    BY <2>1, <2>2, IdsMenos DEF IdsFuera, Vivos
  <2>5. IdDe(t) \in IdsFuera
    BY <2>1 DEF IdsFuera, IdsDe
  <2> QED
    BY <2>1, <2>3, <2>4, <2>5 DEF CambioDeIds
<1>7. ASSUME NEW t \in TCBs, SaleDeBlock(t) PROVE IdsQuietos
  <2>1. Bloqueados' = Bloqueados \ {t} /\ Despiertos' = Despiertos \cup {t} /\ t \in Bloqueados
    BY <1>0, <1>7, Quitar DEF SaleDeBlock, Bloqueados
  <2>2. (Bloqueados \cup Despiertos)' = Bloqueados \cup Despiertos
    BY <2>1
  <2> QED
    BY <1>7, <2>2 DEF SaleDeBlock, IdsQuietos, IdsListos, IdsCpu, IdsFuera, Listos, EnCpu
<1>8. ASSUME NEW t \in TCBs, Acaba(t) PROVE CambioDeIds(IdDe(t))
  <2>1. /\ EnCpu' = EnCpu \ {t} /\ Bloqueados' = Bloqueados \ {t} /\ Despiertos' = Despiertos
        /\ t \in Listos \cup EnCpu \cup Bloqueados /\ colaExitHilo' = colaExitHilo \cup {IdDe(t)}
    BY <1>8 DEF Acaba
  <2>2. Listos' = Listos \ {t}
    BY <1>0, <1>8, QuitarSi DEF Acaba, Listos
  <2>3. t \notin Despiertos
    BY <2>1 DEF Sano, HInv, Lugares, Apartados
  <2>4. (Bloqueados \cup Despiertos)' = (Bloqueados \cup Despiertos) \ {t}
    BY <2>1, <2>3
  <2>5. /\ IdsListos' = IdsListos \ {IdDe(t)} /\ IdsCpu' = IdsCpu \ {IdDe(t)}
        /\ IdsFuera' = IdsFuera \ {IdDe(t)}
    <3>1. t \in Vivos
      BY <2>1 DEF Vivos
    <3> QED
      BY <2>1, <2>2, <2>4, <3>1, IdsMenos DEF IdsListos, IdsCpu, IdsFuera, Vivos
  <2>6. IdDe(t) \in IdsListos \cup IdsCpu \cup IdsFuera
    BY <2>1 DEF IdsListos, IdsCpu, IdsFuera, IdsDe
  <2> QED
    BY <2>1, <2>5, <2>6 DEF CambioDeIds
<1> QED
  BY <1>1, <1>2, <1>3, <1>4, <1>5, <1>6, <1>7, <1>8 DEF Movimiento

\* The state of each thread, as CicloDeVida has it.
Vista == [h \in HilosPosibles |-> EstadoDe(h)]

\* A change of the state of one thread and of no other.
LEMMA CicloPasa ==
  ASSUME NEW id \in HilosPosibles, NEW desde, NEW hasta,
         EstadoDe(id) = desde, EstadoDe(id)' = hasta,
         \A h \in HilosPosibles : h # id => EstadoDe(h)' = EstadoDe(h)
  PROVE  Vista[id] = desde /\ Vista' = [Vista EXCEPT ![id] = hasta]
  BY DEF Vista

\* No process has the pid of no process.
LEMMA NingunHiloImposible == NingunHilo \notin HilosPosibles
  BY KernelAssumption DEF NingunHilo, HilosPosibles

\* Every step is a step of the life cycle of one thread, or of none.
LEMMA CicloPaso ==
  ASSUME ReglasCumplidas, Sano, [Next]_vars
  PROVE  [Ciclo!Next]_Vista
<1>1. IdsApartados
  BY SanoApartados
<1>2. EstadosPorIds
  BY EstadoPorIds
<1>3. EstadosPorIds'
  BY EstadoPorIds, PTL
<1>4. CASE IdsQuietos
  <2>1. ASSUME NEW h \in HilosPosibles PROVE EstadoDe(h)' = EstadoDe(h)
    <3>1. h \in colaExitHilo' <=> h \in colaExitHilo
      BY <1>4, NingunHiloImposible DEF IdsQuietos
    <3> QED
      BY <1>2, <1>3, <1>4, <3>1 DEF IdsQuietos, EstadosPorIds
  <2>2. Vista' = Vista
    BY <2>1 DEF Vista
  <2> QED
    BY <2>2
<1>5. ASSUME NEW id, CambioDeIds(id) PROVE [Ciclo!Next]_Vista
  <2>1. \A h : h # id => EstadoDe(h)' = EstadoDe(h)
    BY <1>2, <1>3, <1>5 DEF CambioDeIds, EstadosPorIds
  <2>2. \/ EstadoDe(id) = "no creado" /\ EstadoDe(id)' = "ready"
        \/ EstadoDe(id) = "ready" /\ EstadoDe(id)' = "exec" /\ IdsCpu = {}
        \/ EstadoDe(id) = "exec" /\ EstadoDe(id)' = "ready"
        \/ EstadoDe(id) = "exec" /\ EstadoDe(id)' = "block"
        \/ EstadoDe(id) = "block" /\ EstadoDe(id)' = "ready"
        \/ EstadoDe(id) \in {"ready", "exec", "block"} /\ EstadoDe(id)' = "exit"
    BY <1>1, <1>2, <1>3, <1>5 DEF CambioDeIds, IdsApartados, EstadosPorIds
  <2>3. CASE id \notin HilosPosibles
    <3>1. Vista' = Vista
      BY <2>1, <2>3 DEF Vista
    <3> QED
      BY <3>1
  <2>4. CASE id \in HilosPosibles
    <3>1. Vista[id] = EstadoDe(id) /\ Vista' = [Vista EXCEPT ![id] = EstadoDe(id)']
      BY <2>1, <2>4, CicloPasa
    <3>2. IdsCpu = {} => \A g \in HilosPosibles : Vista[g] # "exec"
      BY <1>2 DEF Vista, EstadosPorIds
    <3>3. Ciclo!Next
      BY <2>2, <2>4, <3>1, <3>2
      DEF Ciclo!Next, Ciclo!Crear, Ciclo!Ejecutar, Ciclo!Desalojar, Ciclo!Bloquear,
          Ciclo!Despertar, Ciclo!Terminar, Ciclo!Pasa, Vista
    <3> QED
      BY <3>3
  <2> QED
    BY <2>3, <2>4
<1> QED
  BY <1>4, <1>5, PasoMovimiento, IdsPaso

\* At the start at most the first thread is ready.
LEMMA CicloInit == Init => Ciclo!Init
<1> SUFFICES ASSUME Init PROVE Ciclo!Init
  OBVIOUS
<1>1. /\ colaExecHilo = <<>> /\ colaBlockHilo = <<>> /\ colaExitHilo = {} /\ esperas = {}
      /\ colaReadyHilo = <<>> \/ \E tcb : colaReadyHilo = <<tcb>>
  BY DEF Init
<1>2. /\ EnCpu = {} /\ Bloqueados = {} /\ Despiertos = {}
  BY <1>1, Vacia DEF EnCpu, Bloqueados, Despiertos
<1>3. \A g, h \in IdsListos : g = h
  BY <1>1 DEF IdsListos, IdsDe, Listos, Rango
<1>4. IdsCpu = {} /\ IdsFuera = {}
  BY <1>2 DEF IdsCpu, IdsFuera, IdsDe
<1>5. \A id : EstadoDe(id) = IF id \in IdsListos THEN "ready" ELSE "no creado"
  BY <1>1, <1>4, EstadoPorIds DEF EstadosPorIds
<1>6. /\ Vista \in [HilosPosibles -> {"no creado", "ready"}]
      /\ \A g, h \in HilosPosibles : Vista[g] = "ready" /\ Vista[h] = "ready" => g = h
  BY <1>3, <1>5 DEF Vista
<1> QED
  BY <1>6 DEF Ciclo!Init, Vista

\* Each thread lives the life of CicloDeVida: the queues move it only by the
\* transitions there, and EXIT is for good (utils.go:800, 710, 1105, 1355, 1027).
THEOREM CumpleSiempreCiclo == ReglasCumplidas => (Spec => CumpleCicloDeVida)
<1> SUFFICES ASSUME ReglasCumplidas PROVE Spec => CumpleCicloDeVida
  OBVIOUS
<1>1. Sano /\ [Next]_vars => [Ciclo!Next]_[h \in HilosPosibles |-> EstadoDe(h)]
  BY CicloPaso DEF Vista
<1> QED
  BY <1>1, CicloInit, HilosSanos, PTL DEF Spec, CumpleCicloDeVida, Ciclo!Spec

-----------------------------------------------------------------------------
(* The order of the ready queue *)

\* Where a thread is, in a queue that has no thread twice.
LEMMA PosicionUna ==
  ASSUME NEW q \in Seq(TCBs), Unico(q), NEW k \in 1..Len(q)
  PROVE  EstaEn(q, IdDe(q[k])) /\ Posicion(q, IdDe(q[k])) = k
<1>1. k \in DOMAIN q /\ \A l \in DOMAIN q : IdDe(q[l]) = IdDe(q[k]) => l = k
  BY Indices DEF Unico
<1> QED
  BY <1>1 DEF EstaEn, Posicion

\* Two threads (ida, idb) in a queue, the first before the second.
EnOrden(q, ida, idb) == /\ EstaEn(q, ida) /\ EstaEn(q, idb)
                        /\ Posicion(q, ida) < Posicion(q, idb)

\* Threads that stay at their places, or leave the one that goes, stay in order.
LEMMA OrdenQueda ==
  ASSUME NEW q \in Seq(TCBs), NEW r \in Seq(TCBs), Unico(r),
         NEW i \in 1..Len(q), NEW j \in 1..Len(q), i < j,
         \/ Len(r) >= Len(q) /\ \A k \in 1..Len(q) : IdDe(r[k]) = IdDe(q[k])
         \/ \E p \in 1..Len(q) : p # i /\ p # j /\ Unico(q) /\ r = Sin(q, p)
  PROVE  EnOrden(r, IdDe(q[i]), IdDe(q[j]))
<1>1. Len(q) \in Nat /\ Len(r) \in Nat
  BY Indices
<1>2. PICK k \in 1..Len(r) : \E l \in 1..Len(r) :
        k < l /\ IdDe(r[k]) = IdDe(q[i]) /\ IdDe(r[l]) = IdDe(q[j])
  <2>1. CASE Len(r) >= Len(q) /\ \A k \in 1..Len(q) : IdDe(r[k]) = IdDe(q[k])
    BY <1>1, <2>1
  <2>2. ASSUME NEW p \in 1..Len(q), p # i, p # j, Unico(q), r = Sin(q, p)
        PROVE  \E k, l \in 1..Len(r) :
                 k < l /\ IdDe(r[k]) = IdDe(q[i]) /\ IdDe(r[l]) = IdDe(q[j])
    <3>1. /\ Len(r) = Len(q) - 1
          /\ \A k \in 1..(Len(q) - 1) : r[k] = IF k < p THEN q[k] ELSE q[k + 1]
      BY <2>2, SinUno
    <3> DEFINE k == IF i < p THEN i ELSE i - 1
               l == IF j < p THEN j ELSE j - 1
    <3>2. k \in 1..Len(r) /\ l \in 1..Len(r) /\ k < l
      <4>0. Len(r) = Len(q) - 1 /\ Len(q) \in Nat /\ p \in 1..Len(q) /\ p # i /\ p # j
        BY <1>1, <2>2, <3>1
      <4>1. CASE i < p /\ j < p
        BY <4>0, <4>1
      <4>2. CASE i < p /\ ~(j < p)
        BY <4>0, <4>2
      <4>3. CASE ~(i < p)
        BY <4>0, <4>3
      <4> QED
        BY <4>1, <4>2, <4>3
    <3>3. r[k] = q[i]
      <4>1. CASE i < p
        BY <3>1, <3>2, <4>1
      <4>2. CASE ~(i < p)
        <5>1. k = i - 1 /\ ~(k < p) /\ k + 1 = i
          BY <1>1, <2>2, <4>2
        <5> HIDE DEF k
        <5> QED
          BY <3>1, <3>2, <5>1
      <4> QED
        BY <4>1, <4>2
    <3>4. r[l] = q[j]
      <4>1. CASE j < p
        BY <3>1, <3>2, <4>1
      <4>2. CASE ~(j < p)
        <5>1. l = j - 1 /\ ~(l < p) /\ l + 1 = j
          BY <1>1, <2>2, <4>2
        <5> HIDE DEF l
        <5> QED
          BY <3>1, <3>2, <5>1
      <4> QED
        BY <4>1, <4>2
    <3> HIDE DEF k, l
    <3> QED
      BY <3>2, <3>3, <3>4
  <2> QED
    BY <2>1, <2>2
<1>3. PICK l \in 1..Len(r) : k < l /\ IdDe(r[k]) = IdDe(q[i]) /\ IdDe(r[l]) = IdDe(q[j])
  BY <1>2
<1>4. /\ EstaEn(r, IdDe(r[k])) /\ Posicion(r, IdDe(r[k])) = k
      /\ EstaEn(r, IdDe(r[l])) /\ Posicion(r, IdDe(r[l])) = l
  BY <1>2, <1>3, PosicionUna
<1> QED
  BY <1>3, <1>4 DEF EnOrden

\* What a step may do to two threads of the ready queue, of which a is before b.
Respeta(a, b) ==
  (EstaEn(colaReadyHilo', IdDe(a)) /\ IdDe(a) # IdDe(b)) =>
    \/ EnOrden(colaReadyHilo', IdDe(a), IdDe(b))
    \/ EstaEn(colaExecHilo', IdDe(b)) /\ Algoritmo # "FIFO" /\ b.Prioridad < a.Prioridad
    \/ IdDe(b) \in colaExitHilo'

\* Every move keeps the order of the ready queue, but for the thread that it picks.
LEMMA RespetaPaso ==
  ASSUME Sano, Sano', Movimiento, NEW i \in DOMAIN colaReadyHilo, NEW j \in DOMAIN colaReadyHilo,
         i < j, NEW a, a = colaReadyHilo[i], NEW b, b = colaReadyHilo[j]
  PROVE  Respeta(a, b)
<1> DEFINE q == colaReadyHilo
           r == colaReadyHilo'
<1>1. /\ q \in Seq(TCBs) /\ Unico(q) /\ Len(q) \in Nat /\ DOMAIN q = 1..Len(q)
      /\ i \in 1..Len(q) /\ j \in 1..Len(q) /\ a = q[i] /\ b = q[j]
  <2>1. q \in Seq(TCBs) /\ Unico(q)
    BY TipoLugares DEF Sano, HInv, IInv, Lugares
  <2> QED
    BY <2>1, Indices
<1>2. r \in Seq(TCBs) /\ Unico(r)
  BY DEF Sano, HInv, IInv, Lugares, TypeOK, TipoColas
<1> HIDE DEF q, r
<1>3. ASSUME Len(r) >= Len(q), \A k \in 1..Len(q) : IdDe(r[k]) = IdDe(q[k])
      PROVE  Respeta(a, b)
  <2>1. EnOrden(r, IdDe(a), IdDe(b))
    BY <1>1, <1>2, <1>3, OrdenQueda
  <2> QED
    BY <2>1 DEF Respeta, r
<1>4. ASSUME NEW p \in 1..Len(q), r = Sin(q, p), p # j PROVE Respeta(a, b)
  <2>1. CASE p = i
    <3>1. Rango(r) = Rango(q) \ {a} /\ \A k \in 1..Len(q) : IdDe(q[k]) = IdDe(a) => q[k] = a
      <4>1. Rango(Sin(q, i)) = Rango(q) \ {q[i]}
        BY <1>1, SinUno
      <4>2. \A k \in 1..Len(q) : IdDe(q[k]) = IdDe(q[i]) => k = i
        BY <1>1 DEF Unico
      <4> QED
        BY <1>1, <1>4, <2>1, <4>1, <4>2
    <3>2. ~EstaEn(r, IdDe(a))
      BY <1>1, <3>1, EstaEnRango DEF IdsDe, Rango
    <3> QED
      BY <3>2 DEF Respeta, r
  <2>2. CASE p # i
    <3>1. EnOrden(r, IdDe(a), IdDe(b))
      BY <1>1, <1>2, <1>4, <2>2, OrdenQueda
    <3> QED
      BY <3>1 DEF Respeta, r
  <2> QED
    BY <2>1, <2>2
<1>5. ASSUME NEW t \in TCBs, r = Append(q, t) PROVE Respeta(a, b)
  <2>1. Len(r) = Len(q) + 1 /\ \A k \in 1..Len(q) : r[k] = q[k]
    BY <1>1, <1>5, Agregar
  <2> QED
    BY <1>1, <1>3, <2>1
<1>6. CASE r = q
  <2>1. Len(r) >= Len(q)
    BY <1>1, <1>6
  <2> QED
    BY <1>3, <1>6, <2>1
<1>7. ASSUME MismosHilos(q, r) PROVE Respeta(a, b)
  <2>1. Len(r) = Len(q) /\ \A k \in 1..Len(q) : IdDe(r[k]) = IdDe(q[k])
    <3>1. DOMAIN r = 1..Len(r) /\ Len(r) \in Nat
      BY <1>2, Indices
    <3> QED
      BY <1>1, <1>2, <1>7, <3>1, LenProperties DEF MismosHilos
  <2> QED
    BY <1>1, <1>3, <2>1
<1>8. ASSUME NEW t \in TCBs, Despacha(t) PROVE Respeta(a, b)
  <2>1. q # <<>> /\ t = q[Siguiente] /\ Siguiente \in 1..Len(q) /\ r = Sin(q, Siguiente)
    <3>1. q # <<>> /\ t = q[Siguiente] /\ r = eliminarHiloCola(q, IdDe(q[Siguiente]))
      BY <1>8 DEF Despacha, q, r
    <3>2. Siguiente \in 1..Len(q)
      BY <1>1, <3>1, SiguienteTipo DEF q
    <3> QED
      BY <1>1, <3>1, <3>2, EliminarUno
  <2>2. CASE Siguiente # j
    BY <1>4, <2>1, <2>2
  <2>3. CASE Siguiente = j
    <3>1. Algoritmo # "FIFO"
      BY <1>1, <2>3 DEF Siguiente
    <3>2. obtenerHiloMayorPrioridad = j
      BY <2>3, <3>1 DEF Siguiente
    <3>3. b.Prioridad < a.Prioridad \/ (b.Prioridad = a.Prioridad /\ j <= i)
      BY <1>1, <2>1, <3>2, MayorPrioridad DEF q
    <3>4. b.Prioridad < a.Prioridad
      BY <1>1, <3>3
    <3>5. EstaEn(colaExecHilo', IdDe(b))
      <4>1. colaExecHilo' = <<b>>
        BY <1>1, <1>8, <2>1, <2>3 DEF Despacha
      <4> QED
        BY <4>1 DEF EstaEn
    <3> QED
      BY <3>1, <3>4, <3>5 DEF Respeta
  <2> QED
    BY <2>2, <2>3
<1>9. ASSUME NEW t \in TCBs, Acaba(t) PROVE Respeta(a, b)
  <2>1. CASE t \in Listos
    <3>1. PICK p \in 1..Len(q) : q[p] = t /\ eliminarHiloCola(q, IdDe(t)) = Sin(q, p)
      BY <1>1, <2>1, Quitar DEF Listos, q
    <3>2. r = Sin(q, p) /\ IdDe(t) \in colaExitHilo'
      BY <1>9, <2>1, <3>1 DEF Acaba, q, r
    <3>3. CASE p # j
      BY <1>4, <3>2, <3>3
    <3>4. CASE p = j
      <4>1. t = b
        BY <1>1, <3>1, <3>4
      <4> QED
        BY <3>2, <4>1 DEF Respeta
    <3> QED
      BY <3>3, <3>4
  <2>2. CASE t \notin Listos
    BY <1>6, <1>9, <2>2 DEF Acaba, q, r
  <2> QED
    BY <2>1, <2>2
<1> QED
  BY <1>5, <1>6, <1>7, <1>8, <1>9
  DEF Movimiento, Quieto, colas, Nace, Desaloja, Bloquea, Despierta, SaleDeBlock, EntraEnReady, q, r

\* A thread leaves the ready queue before another that was there earlier only
\* if the algorithm says so, or if it ends: threads that wait never overtake
\* each other (utils.go:800, 843).
THEOREM SiempreOrdenDeReady == ReglasCumplidas => (Spec => OrdenDeReady)
<1> SUFFICES ASSUME ReglasCumplidas PROVE Spec => OrdenDeReady
  OBVIOUS
<1>1. Sano /\ Sano' /\ [Next]_vars =>
        [\A i, j \in DOMAIN colaReadyHilo :
           LET a == colaReadyHilo[i]
               b == colaReadyHilo[j]
           IN (i < j /\ EstaEn(colaReadyHilo', IdDe(a)) /\ IdDe(a) # IdDe(b)) =>
                \/ /\ EstaEn(colaReadyHilo', IdDe(b))
                   /\ Posicion(colaReadyHilo', IdDe(a)) < Posicion(colaReadyHilo', IdDe(b))
                \/ /\ EstaEn(colaExecHilo', IdDe(b))
                   /\ Algoritmo # "FIFO" /\ b.Prioridad < a.Prioridad
                \/ IdDe(b) \in colaExitHilo']_vars
  BY PasoMovimiento, RespetaPaso DEF Respeta, EnOrden
<1> QED
  BY <1>1, HilosSanos, PTL DEF Spec, OrdenDeReady

-----------------------------------------------------------------------------
(* Who lets mutexes go *)

\* The first mutex of a process is replaced, and no other changes.
LEMMA UnMutexCambia ==
  ASSUME TypeOK, NEW pid, MutexesDe(pid) # <<>>, NEW n,
         colaProcesosInicializados' = [colaProcesosInicializados EXCEPT ![pid][1] = n]
  PROVE  /\ MutexesDe(pid) = colaProcesosInicializados[pid]
         /\ \A p \in DOMAIN colaProcesosInicializados :
              \A j \in DOMAIN colaProcesosInicializados[p] :
                colaProcesosInicializados'[p][j] =
                  IF p = pid /\ j = 1 THEN n ELSE colaProcesosInicializados[p][j]
<1> DEFINE ini == colaProcesosInicializados
<1>1. /\ ini \in [DOMAIN ini -> Seq(Mutexes)] /\ pid \in DOMAIN ini /\ MutexesDe(pid) = ini[pid]
  BY PrimerMutexTipo DEF TypeOK, TipoProcesos
<1>2. DOMAIN ini[pid] = 1..Len(ini[pid]) /\ 1 \in DOMAIN ini[pid]
  BY <1>1, LenProperties, EmptySeq
<1>3. /\ ini'[pid] = [ini[pid] EXCEPT ![1] = n]
      /\ \A p \in DOMAIN ini \ {pid} : ini'[p] = ini[p]
  BY <1>1
<1> QED
  BY <1>1, <1>2, <1>3

\* Mutex j of process p keeps its holder, if it has one, unless that thread
\* runs or ends.
SueltaSuDuenio(p, j) ==
  LET m == colaProcesosInicializados[p][j]
      n == colaProcesosInicializados'[p][j]
  IN (m.HiloUsando # -1 /\ n.HiloUsando # m.HiloUsando) =>
       \/ pc = "cpu" /\ hilo = <<p, m.HiloUsando>>
       \/ pc = "exitHilo" /\ IdDe(saliendo.hilo) = <<p, m.HiloUsando>>

SueltanDuenios ==
  \A p \in DOMAIN colaProcesosInicializados \cap DOMAIN colaProcesosInicializados' :
    \A j \in DOMAIN colaProcesosInicializados[p] : SueltaSuDuenio(p, j)

\* Processes that start or go, and mutexes that are created.
LEMMA DuenioIgual ==
  ASSUME \A p \in DOMAIN colaProcesosInicializados \cap DOMAIN colaProcesosInicializados' :
           \A j \in DOMAIN colaProcesosInicializados[p] :
             colaProcesosInicializados'[p][j] = colaProcesosInicializados[p][j]
  PROVE  SueltanDuenios
  BY DEF SueltanDuenios, SueltaSuDuenio

\* A process that starts has no mutexes yet.
LEMMA DuenioArrancar ==
  ASSUME Sano, NEW pid, pid = Len(nextTid) + 1, NEW prioridad, NEW abre,
         ArrancarProceso(pid, prioridad, abre)
  PROVE  SueltanDuenios
<1>1. pid \notin DOMAIN colaProcesosInicializados
  BY LenProperties DEF Sano, IInv, TypeOK, TipoProcesos, PidsEnOrden, Pids
<1> QED
  BY <1>1, DuenioIgual DEF ArrancarProceso

\* The two ways in which a process starts.
LEMMA DuenioNuevos ==
  ASSUME Sano, \/ \E p \in Prioridades, hay, abre \in BOOLEAN : CrearProceso(p, hay, abre)
               \/ \E abre \in BOOLEAN : IniciarPendiente(abre)
  PROVE  SueltanDuenios
<1> USE DEF Sano, IInv
<1>1. ASSUME NEW p \in Prioridades, NEW hay \in BOOLEAN, NEW abre \in BOOLEAN,
             CrearProceso(p, hay, abre)
      PROVE  SueltanDuenios
  <2>1. CASE hay /\ colaProcesosSinIniciar = <<>>
    <3>1. nextPid = Len(nextTid) + 1
      BY <2>1, LenProperties, EmptySeq DEF PidsEnOrden, TypeOK, TipoProcesos
    <3> QED
      BY <1>1, <2>1, <3>1, DuenioArrancar DEF CrearProceso
  <2>2. CASE ~(hay /\ colaProcesosSinIniciar = <<>>)
    BY <1>1, <2>2, DuenioIgual DEF CrearProceso
  <2> QED
    BY <2>1, <2>2
<1>2. ASSUME NEW abre \in BOOLEAN, IniciarPendiente(abre) PROVE SueltanDuenios
  <2> DEFINE S == [Pid : Nat, Prioridad : Nat]
             q == colaProcesosSinIniciar
  <2>1. q \in Seq(S) /\ q # <<>>
    BY <1>2 DEF IniciarPendiente, TypeOK, TipoProcesos
  <2>2. Head(q) = q[1] /\ 1 \in DOMAIN q
    <3> HIDE DEF S
    <3> QED
      BY <2>1, EmptySeq, LenProperties
  <2>3. Head(q).Pid = Len(nextTid) + 1
    BY <2>2 DEF PidsEnOrden
  <2> QED
    BY <1>2, <2>3, DuenioArrancar DEF IniciarPendiente
<1> QED
  BY <1>1, <1>2

\* MUTEX_CREATE adds a mutex at the end and keeps the others.
LEMMA DuenioCrear ==
  ASSUME Sano, NEW nombre, CrearMutex(nombre)
  PROVE  SueltanDuenios
<1> DEFINE pid == hilo[1]
           ini == colaProcesosInicializados
           nuevo == mutexCreate(nombre)
<1>1. /\ pid \in DOMAIN ini /\ ini[pid] \in Seq(Mutexes)
      /\ ini' = [ini EXCEPT ![pid] = Append(ini[pid], nuevo)]
  BY DEF CrearMutex, Llama, Sano, IInv, TypeOK, TipoProcesos
<1> HIDE DEF nuevo
<1>2. \A j \in DOMAIN ini[pid] : Append(ini[pid], nuevo)[j] = ini[pid][j]
  <2>1. DOMAIN ini[pid] = 1..Len(ini[pid]) /\ Len(ini[pid]) \in Nat
    BY <1>1, LenProperties
  <2> QED
    BY <1>1, <2>1
<1>3. \A p \in DOMAIN ini : \A j \in DOMAIN ini[p] : ini'[p][j] = ini[p][j]
  BY <1>1, <1>2
<1> QED
  BY <1>3, DuenioIgual

\* MUTEX_LOCK gives a mutex that nobody holds.
LEMMA DuenioBloquear ==
  ASSUME Sano, NEW nombre, BloquearMutex(nombre)
  PROVE  SueltanDuenios
<1> USE DEF Sano, HInv, IInv
<1> DEFINE ini == colaProcesosInicializados
           pid == hilo[1]
           m == MutexesDe(pid)[1]
<1>1. CASE UNCHANGED ini
  BY <1>1, DuenioIgual
<1>2. ASSUME MutexesDe(pid) # <<>>, NEW n, ini' = [ini EXCEPT ![pid][1] = n],
             m.HiloUsando = -1 \/ n.HiloUsando = m.HiloUsando
      PROVE  SueltanDuenios
  <2>1. /\ MutexesDe(pid) = ini[pid]
        /\ \A p \in DOMAIN ini : \A j \in DOMAIN ini[p] :
             ini'[p][j] = IF p = pid /\ j = 1 THEN n ELSE ini[p][j]
    BY <1>2, UnMutexCambia
  <2> QED
    BY <1>2, <2>1 DEF SueltanDuenios, SueltaSuDuenio
<1>3. MutexesDe(pid) # <<>> => m \in Mutexes /\ Coherente(m)
  <2> SUFFICES ASSUME MutexesDe(pid) # <<>> PROVE m \in Mutexes /\ Coherente(m)
    OBVIOUS
  <2>1. pid \in DOMAIN ini /\ MutexesDe(pid) = ini[pid] /\ DOMAIN MutexesDe(pid) = {1} /\ m \in Mutexes
    BY ElMutex
  <2> QED
    BY <2>1 DEF MutexCoherente
<1>4. ASSUME MutexesDe(pid) # <<>>, TomarMutex(getTCB(hilo)) PROVE SueltanDuenios
  <2>1. m.HiloUsando = -1
    BY <1>3, <1>4 DEF TomarMutex, Coherente
  <2> QED
    BY <1>2, <1>4, <2>1 DEF TomarMutex
<1>5. ASSUME MutexesDe(pid) # <<>>, EsperarMutex(getTCB(hilo)) PROVE SueltanDuenios
  <2> DEFINE n == [m EXCEPT !.colaBloqueados = Append(@, getTCB(hilo))]
  <2>1. ini' = [ini EXCEPT ![pid][1] = n]
    BY <1>5 DEF EsperarMutex
  <2>2. n.HiloUsando = m.HiloUsando
    BY <1>3, <1>5 DEF Mutexes
  <2> HIDE DEF n
  <2> QED
    BY <1>2, <1>5, <2>1, <2>2
<1> QED
  BY <1>1, <1>4, <1>5 DEF BloquearMutex

\* unlockMutex takes from a mutex the holder that it is told.
LEMMA DuenioUnlock ==
  ASSUME Sano, NEW pid, NEW tid, NEW nombre, unlockMutex(pid, tid, nombre),
         \A m \in Mutexes :
           (MutexesDe(pid) # <<>> /\ m = MutexesDe(pid)[1] /\ m.HiloUsando = tid /\ tid # -1) =>
             \/ pc = "cpu" /\ hilo = <<pid, tid>>
             \/ pc = "exitHilo" /\ IdDe(saliendo.hilo) = <<pid, tid>>
  PROVE  SueltanDuenios
<1> USE DEF Sano, HInv, IInv
<1> DEFINE ini == colaProcesosInicializados
           m == MutexesDe(pid)[1]
<1>1. CASE UNCHANGED ini
  BY <1>1, DuenioIgual
<1>2. ASSUME MutexesDe(pid) # <<>>, m.HiloUsando = tid, NEW n, ini' = [ini EXCEPT ![pid][1] = n]
      PROVE  SueltanDuenios
  <2>1. /\ MutexesDe(pid) = ini[pid] /\ m \in Mutexes
        /\ \A p \in DOMAIN ini : \A j \in DOMAIN ini[p] :
             ini'[p][j] = IF p = pid /\ j = 1 THEN n ELSE ini[p][j]
    BY <1>2, UnMutexCambia, ElMutex
  <2>2. tid # -1 => \/ pc = "cpu" /\ hilo = <<pid, tid>>
                    \/ pc = "exitHilo" /\ IdDe(saliendo.hilo) = <<pid, tid>>
    BY <1>2, <2>1
  <2> QED
    BY <1>2, <2>1, <2>2 DEF SueltanDuenios, SueltaSuDuenio
<1> QED
  BY <1>1, <1>2 DEF unlockMutex

\* MUTEX_UNLOCK, by the thread that runs.
LEMMA DuenioLiberar ==
  ASSUME Sano, NEW nombre, LiberarMutex(nombre)
  PROVE  SueltanDuenios
<1>1. pc = "cpu" /\ unlockMutex(hilo[1], getTCB(hilo).Tid, nombre)
  BY DEF LiberarMutex, Llama
<1>2. getTCB(hilo).Tid = hilo[2] /\ hilo = <<hilo[1], hilo[2]>>
  BY <1>1, ConActual DEF IdDe
<1>3. unlockMutex(hilo[1], hilo[2], nombre)
  BY <1>1, <1>2
<1> QED
  BY <1>1, <1>2, <1>3, DuenioUnlock

\* The end of exitHilo, of the thread that ends.  A second exitHilo of the
\* thread that caused exitProcess, which looks for the mutex of tid 0, finds
\* none: no thread of the process is left to hold it.
LEMMA DuenioLiberarAlSalir ==
  ASSUME Sano, LiberarAlSalir
  PROVE  SueltanDuenios
<1> USE DEF Sano, HInv, IInv
<1> DEFINE P == saliendo.pid
           tid == saliendo.hilo.Tid
           ms == MutexesDe(P)
<1>1. pc = "exitHilo" /\ SaliendoSano
  BY DEF LiberarAlSalir, Cadena
<1>2. CASE UNCHANGED colaProcesosInicializados
  BY <1>2, DuenioIgual
<1>3. ASSUME NEW m \in Mutexes, ms # <<>>, m = ms[1], m.HiloUsando = tid, tid # -1
      PROVE  IdDe(saliendo.hilo) = <<P, tid>>
  <2>1. CASE saliendo.hilo.Pid = P
    BY <2>1 DEF IdDe
  <2>2. CASE /\ saliendo.hilo = TCBNulo /\ saliendo.luego = "exitProcess" /\ salida.fase = "block"
             /\ hilo \notin IdsDe(Bloqueados)
    <3>1. /\ P = salida.pid /\ P = hilo[1] /\ colaExecHilo = <<>>
          /\ \A t \in Listos \cup Despiertos : t.Pid # P
          /\ \A t \in Bloqueados : t.Pid # P
      <4>1. \A t \in Bloqueados : IdDe(t) # hilo
        BY <2>2 DEF IdsDe
      <4> QED
        BY <1>1, <2>2, <4>1 DEF SaliendoSano, Recorrido
    <3>2. EnCpu = {}
      BY <3>1, Vacia DEF EnCpu
    <3>3. \A t \in Vivos : t.Pid # P
      BY <3>1, <3>2 DEF Vivos
    <3>4. <<P, tid>> \in IdsDe(Vivos) \cup {IdDe(saliendo.hilo)}
      BY <1>3, ElMutex DEF MutexSano
    <3>5. <<P, tid>> \notin IdsDe(Vivos)
      BY <3>3 DEF IdsDe, IdDe
    <3> QED
      BY <3>4, <3>5
  <2> QED
    BY <1>1, <2>1, <2>2 DEF SaliendoSano
<1>4. ASSUME NEW nombre, unlockMutex(P, tid, nombre) PROVE SueltanDuenios
  BY <1>1, <1>3, <1>4, DuenioUnlock
<1> QED
  BY <1>2, <1>4 DEF LiberarAlSalir

\* The steps that touch the processes or their mutexes.
LEMMA MutexTocados ==
  ASSUME [Next]_vars
  PROVE  \/ \E p \in Prioridades, hay, abre \in BOOLEAN : CrearProceso(p, hay, abre)
         \/ \E abre \in BOOLEAN : IniciarPendiente(abre)
         \/ \E n \in Nombres : CrearMutex(n) \/ BloquearMutex(n) \/ LiberarMutex(n)
         \/ LiberarAlSalir \/ TerminarProceso
         \/ UNCHANGED colaProcesosInicializados
  BY DEF Next, Syscall, DejaCpu, PasoKernel, Terminado, vars, procesos, EntrarHilo,
         CancelarHilo, PideCancelar, Cruce, DesbloquearCruzado, RecorrerCruzado,
         CancelarCruzado, exitHiloCruzado, DumpMemory, CrearHilo, ManejarIo, FinalizarHilo, FinalizarProceso, SegmentationFault,
         DevolverPidTid, ejecutarInstruccion, RecibirPIDyTID, RafagaSinSyscall, SeguirLockMutex,
         RespuestaDump, DesbloquearHilosJoin, VolverDeCancelar, RecorrerCola, SiguienteCola,
         FinExitProcess, TerminaIo, EncolaIo

\* Every step lets the mutexes of others alone.
LEMMA DuenioPaso ==
  ASSUME Sano, [Next]_vars
  PROVE  SueltanDuenios
<1>1. ASSUME TerminarProceso PROVE SueltanDuenios
  BY <1>1, DuenioIgual DEF TerminarProceso
<1> QED
  BY <1>1, MutexTocados, DuenioIgual, DuenioNuevos, DuenioCrear, DuenioBloquear, DuenioLiberar,
     DuenioLiberarAlSalir

\* Only the thread that holds a mutex, by its call or by its end, lets it go
\* (utils.go:1334, 732).
THEOREM SiempreSueltaElDuenio == ReglasCumplidas => (Spec => SoloElDuenioLibera)
<1> SUFFICES ASSUME ReglasCumplidas PROVE Spec => SoloElDuenioLibera
  OBVIOUS
<1>1. Sano /\ [Next]_vars =>
        [\A p \in DOMAIN colaProcesosInicializados \cap DOMAIN colaProcesosInicializados' :
           \A j \in DOMAIN colaProcesosInicializados[p] :
             LET m == colaProcesosInicializados[p][j]
                 n == colaProcesosInicializados'[p][j]
             IN (m.HiloUsando # -1 /\ n.HiloUsando # m.HiloUsando) =>
                  \/ pc = "cpu" /\ hilo = <<p, m.HiloUsando>>
                  \/ pc = "exitHilo" /\ IdDe(saliendo.hilo) = <<p, m.HiloUsando>>]_vars
  BY DuenioPaso DEF SueltanDuenios, SueltaSuDuenio
<1> QED
  BY <1>1, HilosSanos, PTL DEF Spec, SoloElDuenioLibera

-----------------------------------------------------------------------------
(* The threads never all wait for each other *)

\* In block a thread that is remembered is before the one that remembers it:
\* it joined a thread that was still in ready.
BloqueEnOrden ==
  \A k, l \in DOMAIN colaBlockHilo :
    IdDe(colaBlockHilo[k]) \in Recuerdos(colaBlockHilo[l]) => k < l

\* The main thread of a process lives, until exitProcess.
Principales ==
  \A p \in DOMAIN colaProcesosInicializados :
    <<p, 0>> \in IdsDe(Vivos) \/ (salida.fase # "nada" /\ p = salida.pid)

\* exitProcess takes its process away before it starts another.
Cerrado == salida.fase = "iniciar" => salida.pid \notin DOMAIN colaProcesosInicializados

\* A thread that holds a mutex is in block only for an IO or a dump, or to end.
DuenioSuelto ==
  \A t \in Bloqueados : Posee(IdDe(t)) => t \in Dormidos \/ Condenado(t)

\* The scheduler goes on only while a process is left.
HayProceso == pc = "libre" => DOMAIN colaProcesosInicializados # {}

Suelto == /\ BloqueEnOrden /\ Principales /\ Cerrado /\ HayProceso
          /\ NoEspera => DuenioSuelto

\* Nobody remembers a thread that is in the CPU.
LEMMA NadieRecuerda ==
  ASSUME Sano, NEW t \in EnCpu, NEW u \in Vivos
  PROVE  IdDe(t) \notin Recuerdos(u)
<1> USE DEF Sano, HInv, IInv
<1> SUFFICES ASSUME IdDe(t) \in Recuerdos(u) PROVE FALSE
  OBVIOUS
<1>1. IdDe(t) \in colaExitHilo \cup IdsDe(EnJoin)
  BY DEF Joins, Recordados
<1>2. IdDe(t) \in IdsDe(Bloqueados)
  BY <1>1 DEF Lugares, Vivos, EnJoin, IdsDe
<1> QED
  BY <1>2 DEF Lugares, Distintos, Apartados, Vivos, IdsDe

\* Removals keep the order of block, and a thread that enters it is the last
\* there and is remembered by nobody.
LEMMA OrdenPaso ==
  ASSUME Sano, Movimiento, BloqueEnOrden
  PROVE  BloqueEnOrden'
<1> DEFINE q == colaBlockHilo
           r == colaBlockHilo'
           n == Len(q)
<1>1. q \in Seq(TCBs) /\ Unico(q) /\ n \in Nat /\ DOMAIN q = 1..n
  <2>1. q \in Seq(TCBs) /\ Unico(q)
    BY TipoLugares DEF Sano, HInv, IInv, Lugares
  <2> QED
    BY <2>1, Indices
<1>2. \A k, l \in 1..n : IdDe(q[k]) \in Recuerdos(q[l]) => k < l
  BY <1>1 DEF BloqueEnOrden
<1>3. CASE r = q
  BY <1>3 DEF BloqueEnOrden
<1>4. ASSUME NEW t \in Bloqueados, r = eliminarHiloCola(q, IdDe(t)) PROVE BloqueEnOrden'
  <2> HIDE DEF q, r
  <2>1. PICK p \in 1..n : r = Sin(q, p)
    <3>1. t \in Rango(q)
      BY <1>4 DEF Bloqueados, q
    <3> QED
      BY <1>1, <1>4, <3>1, Quitar
  <2>2. /\ DOMAIN r = 1..(n - 1)
        /\ \A k \in 1..(n - 1) : r[k] = IF k < p THEN q[k] ELSE q[k + 1]
    <3>1. r \in Seq(TCBs) /\ Len(r) = n - 1 /\ \A k \in 1..(n - 1) : r[k] = IF k < p THEN q[k] ELSE q[k + 1]
      BY <1>1, <2>1, SinUno
    <3> QED
      BY <3>1, LenProperties
  <2>3. ASSUME NEW k \in 1..(n - 1), NEW l \in 1..(n - 1), IdDe(r[k]) \in Recuerdos(r[l])
        PROVE  k < l
    <3> DEFINE i == IF k < p THEN k ELSE k + 1
               j == IF l < p THEN l ELSE l + 1
    <3>1. i \in 1..n /\ j \in 1..n
      BY <1>1, <2>1
    <3>2. r[k] = q[i] /\ r[l] = q[j]
      BY <2>2
    <3>3. i < j
      <4> HIDE DEF i, j
      <4> QED
        BY <1>2, <2>3, <3>1, <3>2
    <3> QED
      BY <1>1, <2>1, <3>3
  <2> QED
    BY <2>2, <2>3 DEF BloqueEnOrden, r
<1>5. ASSUME NEW t \in TCBs, Bloquea(t) PROVE BloqueEnOrden'
  <2>1. t \in EnCpu /\ r = Append(q, t)
    BY <1>5, Uno DEF Bloquea, EnCpu
  <2>2. IdDe(t) \notin Recuerdos(t) /\ \A l \in 1..n : IdDe(t) \notin Recuerdos(q[l])
    <3>1. t \in Vivos
      BY <2>1 DEF Vivos
    <3>2. \A l \in 1..n : q[l] \in Vivos
      BY <1>1 DEF Vivos, Bloqueados, Rango
    <3> QED
      BY <2>1, <3>1, <3>2, NadieRecuerda
  <2> HIDE DEF q, r
  <2>3. DOMAIN r = 1..(n + 1) /\ r[n + 1] = t /\ \A k \in 1..n : r[k] = q[k]
    <3>1. r \in Seq(TCBs) /\ Len(r) = n + 1 /\ r[n + 1] = t /\ \A k \in 1..n : r[k] = q[k]
      BY <1>1, <2>1, Agregar
    <3> QED
      BY <3>1, LenProperties
  <2>4. ASSUME NEW k \in 1..(n + 1), NEW l \in 1..(n + 1), IdDe(r[k]) \in Recuerdos(r[l])
        PROVE  k < l
    <3>1. (k \in 1..n \/ k = n + 1) /\ (l \in 1..n \/ l = n + 1)
      BY <1>1
    <3>2. k # n + 1
      BY <2>2, <2>3, <2>4, <3>1
    <3>3. CASE l = n + 1
      BY <1>1, <3>1, <3>2, <3>3
    <3>4. CASE l \in 1..n
      BY <1>2, <2>3, <2>4, <3>1, <3>2, <3>4
    <3> QED
      BY <3>1, <3>3, <3>4
  <2> QED
    BY <2>3, <2>4 DEF BloqueEnOrden, r
<1> QED
  BY <1>3, <1>4, <1>5
  DEF Movimiento, Quieto, colas, Nace, Despacha, Desaloja, Despierta, SaleDeBlock, EntraEnReady, Acaba

\* What a step that does not touch the loops of exitProcess keeps.
MismaFase == /\ salida'.fase = salida.fase /\ salida'.pid = salida.pid
             /\ salida.fase # "nada" => hilo' = hilo

\* A change of a queue that exitProcess walks changes only what it reads.
LEMMA ReflejaFase ==
  ASSUME Sano, TypeOK', salida' \in ReflejosDe(salida), salida.fase # "nada" => hilo' = hilo
  PROVE  MismaFase
<1>1. /\ salida \in Salida /\ colaReadyHilo' \in Seq(TCBs) /\ colaBlockHilo' \in Seq(TCBs)
  BY DEF Sano, IInv, TypeOK, TipoFinales, TipoColas
<1> QED
  BY <1>1, ReflejosDeHechos DEF MismaFase

\* How exitProcess starts, goes on and ends.
LEMMA FasePaso ==
  ASSUME ReglasCumplidas, Sano, TypeOK', [Next]_vars
  PROVE  \/ MismaFase
         \/ salida.fase = "nada" /\ salida'.fase = "ready"
         \/ SiguienteCola \/ TerminarProceso \/ FinExitProcess
<1> USE DEF Sano, HInv, IInv
<1>1. ASSUME \/ DesbloquearHilosJoin \/ LiberarAlSalir
             \/ \E e \in esperas : TerminaIo(e) \/ EncolaIo(e)
      PROVE  MismaFase
  <2>1. salida' \in ReflejosDe(salida)
    BY <1>1 DEF DesbloquearHilosJoin, LiberarAlSalir, TerminaIo, EncolaIo, Reflejar
  <2>2. salida.fase # "nada" => hilo' = hilo
    BY <1>1 DEF DesbloquearHilosJoin, LiberarAlSalir, TerminaIo, EncolaIo, cadena, Cadena,
       SaliendoSano
  <2> QED
    BY <2>1, <2>2, ReflejaFase
<1>2. ASSUME RecorrerCola PROVE MismaFase
  <2> DEFINE s == [salida EXCEPT !.i = @ + 1]
  <2>1. /\ salida \in Salida /\ colaReadyHilo' \in Seq(TCBs) /\ colaBlockHilo' \in Seq(TCBs)
    BY DEF TypeOK, TipoFinales, TipoColas
  <2>2. s \in Salida /\ s.pid = salida.pid /\ s.fase = salida.fase
    <3>1. salida.i + 1 \in Nat \ {0}
      BY <2>1 DEF Salida
    <3> HIDE DEF Sano, HInv, IInv
    <3> QED
      BY <2>1, <3>1 DEF Salida
  <2>3. salida' \in ReflejosDe(s) /\ hilo' = hilo
    BY <1>2 DEF RecorrerCola
  <2> HIDE DEF s
  <2>4. salida'.pid = s.pid /\ salida'.fase = s.fase
    BY <2>1, <2>2, <2>3, ReflejosDeHechos
  <2> QED
    BY <2>2, <2>3, <2>4 DEF MismaFase
<1>3. ASSUME UNCHANGED salida, pc \notin {"exitHilo", "exitProcess"} \/ hilo' = hilo
      PROVE  MismaFase
  BY <1>3 DEF MismaFase, Cadena
<1>4. ASSUME pc \notin {"exitHilo", "exitProcess"}, \E pid : exitProcess(pid)
      PROVE  salida.fase = "nada" /\ salida'.fase = "ready"
  BY <1>4 DEF exitProcess, Bucle, Cadena
<1>5. ASSUME Syscall \/ DejaCpu \/ Terminado \/ UNCHANGED vars
      PROVE  \/ UNCHANGED salida /\ (pc \notin {"exitHilo", "exitProcess"} \/ hilo' = hilo)
             \/ pc \notin {"exitHilo", "exitProcess"} /\ \E pid : exitProcess(pid)
  BY <1>5 DEF Syscall, DejaCpu, Terminado, vars, finales, cadena, Llama, CrearProceso, CrearHilo,
     EntrarHilo, CancelarHilo, PideCancelar, CrearMutex, BloquearMutex, LiberarMutex, DumpMemory,
     ManejarIo, FinalizarHilo, FinalizarProceso, SegmentationFault, DevolverPidTid
<1>6. ASSUME PasoKernel
      PROVE  \/ UNCHANGED salida /\ (pc \notin {"exitHilo", "exitProcess"} \/ hilo' = hilo)
             \/ pc \notin {"exitHilo", "exitProcess"} /\ \E pid : exitProcess(pid)
             \/ DesbloquearHilosJoin \/ LiberarAlSalir \/ RecorrerCola
             \/ SiguienteCola \/ TerminarProceso \/ FinExitProcess
  BY <1>6 DEF PasoKernel, finales, cadena, ejecutarInstruccion, RecibirPIDyTID, RafagaSinSyscall,
     SeguirLockMutex, RespuestaDump, VolverDeCancelar, IniciarPendiente
<1> QED
  BY <1>1, <1>2, <1>3, <1>4, <1>5, <1>6, SinCruce DEF Next

\* The main thread of a process that starts is new; other processes keep theirs.
LEMMA ArrancaPaso ==
  ASSUME Sano, \/ \E p \in Prioridades, hay, abre \in BOOLEAN : CrearProceso(p, hay, abre)
               \/ \E abre \in BOOLEAN : IniciarPendiente(abre)
  PROVE  \/ UNCHANGED colaProcesosInicializados
         \/ \E p : /\ p = Len(nextTid) + 1 /\ <<p, 0>> \in IdsDe(Vivos')
                   /\ DOMAIN colaProcesosInicializados' = DOMAIN colaProcesosInicializados \cup {p}
                   /\ colaProcesosInicializados'[p] = <<>>
                   /\ \A o \in DOMAIN colaProcesosInicializados :
                        colaProcesosInicializados'[o] = colaProcesosInicializados[o]
<1> USE DEF Sano, HInv, IInv
<1>1. ASSUME NEW pid, pid = Len(nextTid) + 1, NEW prioridad \in Nat, NEW abre,
             ArrancarProceso(pid, prioridad, abre),
             UNCHANGED <<colaExecHilo, colaBlockHilo, esperas, colaExitHilo>>
      PROVE  /\ <<pid, 0>> \in IdsDe(Vivos')
             /\ DOMAIN colaProcesosInicializados' = DOMAIN colaProcesosInicializados \cup {pid}
             /\ colaProcesosInicializados'[pid] = <<>>
             /\ \A o \in DOMAIN colaProcesosInicializados :
                  colaProcesosInicializados'[o] = colaProcesosInicializados[o]
  <2>1. PICK t \in TCBs :
          /\ t.Pid = pid /\ t.Tid = 0 /\ t \in Vivos'
          /\ DOMAIN colaProcesosInicializados' = DOMAIN colaProcesosInicializados \cup {pid}
          /\ colaProcesosInicializados'[pid] = <<>>
          /\ \A o \in DOMAIN colaProcesosInicializados :
               colaProcesosInicializados'[o] = colaProcesosInicializados[o]
    <3>1. \E t \in TCBs :
            /\ t.Pid = pid /\ t.Tid = 0 /\ Vivos' = Vivos \cup {t}
            /\ DOMAIN colaProcesosInicializados' = DOMAIN colaProcesosInicializados \cup {pid}
            /\ colaProcesosInicializados'[pid] = <<>>
            /\ \A o \in DOMAIN colaProcesosInicializados :
                 colaProcesosInicializados'[o] = colaProcesosInicializados[o]
      BY <1>1, EfectoArrancar
    <3> QED
      BY <3>1
  <2> QED
    BY <2>1 DEF IdsDe, IdDe
<1>2. ASSUME NEW prioridad \in Prioridades, NEW hay \in BOOLEAN, NEW abre \in BOOLEAN,
             CrearProceso(prioridad, hay, abre), hay /\ colaProcesosSinIniciar = <<>>
      PROVE  /\ nextPid = Len(nextTid) + 1 /\ prioridad \in Nat
             /\ ArrancarProceso(nextPid, prioridad, abre)
             /\ UNCHANGED <<colaExecHilo, colaBlockHilo, esperas, colaExitHilo>>
  <2>1. nextPid = Len(nextTid) + 1
    BY <1>2, LenProperties, EmptySeq DEF PidsEnOrden, TypeOK, TipoProcesos
  <2> QED
    BY <1>2, <2>1, KernelAssumption DEF CrearProceso, finales
<1>3. ASSUME NEW prioridad \in Prioridades, NEW hay \in BOOLEAN, NEW abre \in BOOLEAN,
             CrearProceso(prioridad, hay, abre), ~(hay /\ colaProcesosSinIniciar = <<>>)
      PROVE  UNCHANGED colaProcesosInicializados
  BY <1>3 DEF CrearProceso
<1>4. ASSUME NEW abre \in BOOLEAN, IniciarPendiente(abre)
      PROVE  \E pid, prioridad : /\ pid = Len(nextTid) + 1 /\ prioridad \in Nat
                                 /\ ArrancarProceso(pid, prioridad, abre)
                                 /\ UNCHANGED <<colaExecHilo, colaBlockHilo, esperas, colaExitHilo>>
  <2> DEFINE q == colaProcesosSinIniciar
             S == [Pid : Nat, Prioridad : Nat]
  <2>1. q \in Seq(S) /\ q # <<>>
    BY <1>4 DEF IniciarPendiente, TypeOK, TipoProcesos
  <2>2. Head(q) = q[1] /\ 1 \in DOMAIN q /\ Head(q) \in S
    <3> HIDE DEF S
    <3>1. Head(q) = q[1] /\ 1 \in 1..Len(q) /\ DOMAIN q = 1..Len(q)
      BY <2>1, EmptySeq, LenProperties
    <3> QED
      BY <2>1, <3>1, ElementOfSeq
  <2>3. Head(q).Pid = Len(nextTid) + 1
    BY <2>2 DEF PidsEnOrden
  <2> QED
    BY <1>4, <2>2, <2>3 DEF IniciarPendiente, finales
<1> QED
  <2>1. ASSUME NEW prioridad \in Prioridades, NEW hay \in BOOLEAN, NEW abre \in BOOLEAN,
               CrearProceso(prioridad, hay, abre), hay /\ colaProcesosSinIniciar = <<>>
        PROVE  \E pid, pr, ab : /\ pid = Len(nextTid) + 1 /\ pr \in Nat
                                /\ ArrancarProceso(pid, pr, ab)
                                /\ UNCHANGED <<colaExecHilo, colaBlockHilo, esperas, colaExitHilo>>
    BY <1>2, <2>1
  <2> QED
    BY <1>1, <1>3, <1>4, <2>1

\* Processes appear with a main thread, and go only in TerminarProceso.
LEMMA DominioPaso ==
  ASSUME Sano, [Next]_vars
  PROVE  /\ \A p \in DOMAIN colaProcesosInicializados' :
              \/ p \in DOMAIN colaProcesosInicializados
              \/ p = Len(nextTid) + 1 /\ <<p, 0>> \in IdsDe(Vivos')
         /\ \/ TerminarProceso
            \/ DOMAIN colaProcesosInicializados \subseteq DOMAIN colaProcesosInicializados'
<1>1. CASE \/ \E p \in Prioridades, hay, abre \in BOOLEAN : CrearProceso(p, hay, abre)
           \/ \E abre \in BOOLEAN : IniciarPendiente(abre)
  BY <1>1, ArrancaPaso
<1>2. CASE /\ \A p \in Prioridades, hay, abre \in BOOLEAN : ~CrearProceso(p, hay, abre)
           /\ \A abre \in BOOLEAN : ~IniciarPendiente(abre)
  <2>1. CASE Next
    BY <1>2, <2>1, ProcesosOtros DEF Sano
  <2>2. CASE UNCHANGED vars
    BY <2>2 DEF vars, procesos
  <2> QED
    BY <2>1, <2>2
<1> QED
  BY <1>1, <1>2

\* exitProcess has no process any more when it starts another.
LEMMA CerradoPaso ==
  ASSUME ReglasCumplidas, Sano, TypeOK', [Next]_vars, Cerrado
  PROVE  Cerrado'
<1> USE DEF Sano, HInv, IInv
<1> SUFFICES ASSUME salida'.fase = "iniciar"
             PROVE  salida'.pid \notin DOMAIN colaProcesosInicializados'
  BY DEF Cerrado
<1>1. CASE MismaFase
  <2>1. /\ salida.fase = "iniciar" /\ salida'.pid = salida.pid
        /\ salida.pid \notin DOMAIN colaProcesosInicializados
    BY <1>1 DEF MismaFase, Cerrado
  <2>2. salida.pid \in 1..Len(nextTid)
    BY <2>1, CreadosTipo DEF Recorrido
  <2>3. salida.pid # Len(nextTid) + 1
    BY <2>2, LenProperties DEF TypeOK, TipoProcesos
  <2> QED
    BY <2>1, <2>3, DominioPaso
<1>2. CASE SiguienteCola \/ FinExitProcess
  BY <1>2 DEF SiguienteCola, FinExitProcess, Bucle, SinSalida
<1>3. CASE TerminarProceso
  <2>1. salida.pid \in DOMAIN colaProcesosInicializados
    BY <1>3 DEF TerminarProceso, EnFase, Recorrido
  <2>2. salida' = [salida EXCEPT !.fase = "iniciar"] /\ salida \in Salida
    BY <1>3, <2>1 DEF TerminarProceso, TypeOK, TipoFinales
  <2>3. salida'.pid = salida.pid
    BY <2>2 DEF Salida
  <2> QED
    BY <1>3, <2>1, <2>3 DEF TerminarProceso
<1> QED
  BY <1>1, <1>2, <1>3, FasePaso

\* The scheduler waits already, or it has seen a process.
Vuelve == pc = "libre" \/ DOMAIN colaProcesosInicializados # {}

\* The chain is with the scheduler only after that.
LEMMA VuelvePaso ==
  ASSUME ReglasCumplidas, Sano, [Next]_vars, pc' = "libre"
  PROVE  Vuelve
<1>1. CASE Syscall
  BY <1>1 DEF Syscall, CrearProceso, CrearHilo, EntrarHilo, joinHilo, CancelarHilo,
     PideCancelar, CrearMutex, BloquearMutex, TomarMutex, EsperarMutex, LiberarMutex, DumpMemory,
     enviarTCBCpu, exitHilo, exitHiloDe, Retornar, Vuelve
<1>2. CASE DejaCpu
  BY <1>2 DEF DejaCpu, ManejarIo, FinalizarHilo, FinalizarProceso, SegmentationFault,
     DevolverPidTid, exitProcess, exitHilo, exitHiloDe, Retornar, Vuelve
<1>3. CASE PasoKernel
  <2>1. CASE LiberarAlSalir
    <3>1. saliendo \in Saliendo
      BY DEF Sano, IInv, TypeOK, TipoFinales
    <3>2. saliendo.luego # "libre"
      BY <3>1 DEF Saliendo
    <3> QED
      BY <2>1, <3>2 DEF LiberarAlSalir, Retornar, Vuelve
  <2>2. CASE ~LiberarAlSalir
    BY <1>3, <2>2 DEF PasoKernel, cadena, ejecutarInstruccion, RecibirPIDyTID, RafagaSinSyscall,
       SeguirLockMutex, RespuestaDump, DesbloquearHilosJoin, VolverDeCancelar, RecorrerCola,
       SiguienteCola, TerminarProceso, IniciarPendiente, FinExitProcess, enviarTCBCpu,
       exitProcess, exitHilo, exitHiloDe, EnFase, Retornar, Vuelve
  <2> QED
    BY <2>1, <2>2
<1>4. CASE \/ Terminado \/ UNCHANGED vars
           \/ \E e \in esperas : TerminaIo(e) \/ EncolaIo(e)
  BY <1>4 DEF Terminado, vars, cadena, TerminaIo, EncolaIo, Vuelve
<1> QED
  BY <1>1, <1>2, <1>3, <1>4, SinCruce DEF Next

\* The calls return to the scheduler only if a process is left.
LEMMA HayProcesoPaso ==
  ASSUME ReglasCumplidas, Sano, [Next]_vars, HayProceso
  PROVE  HayProceso'
<1> SUFFICES ASSUME pc' = "libre" PROVE DOMAIN colaProcesosInicializados' # {}
  BY DEF HayProceso
<1>1. Vuelve
  BY VuelvePaso
<1>2. DOMAIN colaProcesosInicializados # {}
  BY <1>1 DEF HayProceso, Vuelve
<1>3. ~TerminarProceso
  BY DEF TerminarProceso, EnFase
<1> QED
  BY <1>2, <1>3, DominioPaso

\* A thread goes on living unless it is the one that ends.
LEMMA VivosSiguen ==
  ASSUME Sano, Movimiento, NEW id \in IdsDe(Vivos), id \notin IdsDe(Vivos')
  PROVE  \E t \in TCBs : Acaba(t) /\ IdDe(t) = id
<1> USE DEF Sano, HInv, IInv
<1>1. /\ IdsDe(Vivos) = IdsListos \cup IdsCpu \cup IdsFuera
      /\ IdsDe(Vivos') = IdsListos' \cup IdsCpu' \cup IdsFuera'
  BY DEF IdsListos, IdsCpu, IdsFuera, IdsDe, Vivos
<1>2. id \in colaExitHilo' /\ id \notin colaExitHilo /\ id # NingunHilo
  <2>1. id \in colaExitHilo'
    BY <1>1, IdsPaso DEF IdsQuietos, CambioDeIds
  <2> QED
    BY <2>1, NingunHiloNoVive DEF Lugares, IdsDe
<1> QED
  BY <1>2 DEF Movimiento, Quieto, Nace, Despacha, Desaloja, Bloquea, Despierta, SaleDeBlock,
     EntraEnReady, Acaba

\* Main threads end only in exitProcess, which takes their process away.
LEMMA PrincipalesPaso ==
  ASSUME ReglasCumplidas, Sano, TypeOK', [Next]_vars, Movimiento, Principales,
         Cerrado
  PROVE  Principales'
<1> SUFFICES ASSUME NEW p \in DOMAIN colaProcesosInicializados', <<p, 0>> \notin IdsDe(Vivos')
             PROVE  salida'.fase # "nada" /\ p = salida'.pid
  BY DEF Principales
<1>1. p \in DOMAIN colaProcesosInicializados
  BY DominioPaso
<1>2. salida.fase # "nada" /\ p = salida.pid
  <2>1. CASE <<p, 0>> \in IdsDe(Vivos)
    <3>1. PICK t \in TCBs : Acaba(t) /\ IdDe(t) = <<p, 0>>
      BY <2>1, VivosSiguen
    <3> QED
      BY <3>1 DEF Acaba, IdDe
  <2>2. CASE <<p, 0>> \notin IdsDe(Vivos)
    BY <1>1, <2>2 DEF Principales
  <2> QED
    BY <2>1, <2>2
<1>3. CASE MismaFase
  BY <1>2, <1>3 DEF MismaFase
<1>4. CASE SiguienteCola
  BY <1>2, <1>4 DEF SiguienteCola, Bucle
<1>5. CASE TerminarProceso
  <2>1. salida.pid \in DOMAIN colaProcesosInicializados /\ salida \in Salida
    BY <1>1, <1>2 DEF Sano, IInv, TypeOK, TipoFinales
  <2>2. salida' = [salida EXCEPT !.fase = "iniciar"]
    BY <1>5, <2>1 DEF TerminarProceso
  <2> QED
    BY <1>2, <2>1, <2>2 DEF Salida
<1>6. CASE FinExitProcess
  BY <1>1, <1>2, <1>6 DEF FinExitProcess, EnFase, Cerrado
<1> QED
  BY <1>2, <1>3, <1>4, <1>5, <1>6, FasePaso

\* A thread that sleeps goes on sleeping until it leaves block or is to end.
LEMMA DormidoSigue ==
  ASSUME ReglasCumplidas, Sano, [Next]_vars, NEW t \in Dormidos, t \in Bloqueados'
  PROVE  t \in Dormidos' \/ Condenado(t)'
<1> USE DEF Sano, HInv, IInv
<1>1. PICK e \in esperas : e.tcb = t /\ e.paso # "encolar"
  BY DEF Dormidos
<1>2. e \in esperas' => t \in Dormidos'
  BY <1>1 DEF Dormidos
<1>3. ASSUME NEW f \in esperas, TerminaIo(f) PROVE e \in esperas'
  <2>1. f.paso = "durmiendo" /\ colaBlockHilo' = eliminarHiloCola(colaBlockHilo, IdDe(f.tcb))
        /\ esperas' = (esperas \ {f}) \cup {[f EXCEPT !.paso = "encolar"]}
    BY <1>3 DEF TerminaIo, SinSuHilo, QuedaEncolar
  <2>2. f.tcb \in Bloqueados
    BY <2>1 DEF Dormidos, Lugares
  <2>3. Bloqueados' = Bloqueados \ {f.tcb}
    BY <2>1, <2>2, TipoLugares, Quitar DEF Bloqueados, Lugares
  <2> QED
    BY <1>1, <2>1, <2>3
<1>4. ASSUME NEW f \in esperas, EncolaIo(f) PROVE e \in esperas'
  BY <1>1, <1>4 DEF EncolaIo
<1>5. ASSUME NEW f \in esperas, RespuestaDump(f, TRUE) PROVE e \in esperas'
  <2> SUFFICES ASSUME e \notin esperas' PROVE FALSE
    OBVIOUS
  <2>1. e = f /\ t \in Bloqueados
    BY <1>5 DEF RespuestaDump, Lugares
  <2>2. colaBlockHilo' = eliminarHiloCola(colaBlockHilo, IdDe(t))
    BY <1>1, <1>5, <2>1 DEF RespuestaDump
  <2>3. Bloqueados' = Bloqueados \ {t}
    BY <2>1, <2>2, TipoLugares, Quitar DEF Bloqueados, Lugares
  <2> QED
    BY <2>3
<1>6. ASSUME NEW f \in esperas, RespuestaDump(f, FALSE), e \notin esperas'
      PROVE  Condenado(t)'
  <2>1. e = f /\ f.paso = "dump" /\ salida' = Bucle(hilo[1], "ready", colaReadyHilo) /\ hilo' = hilo
    BY <1>6 DEF RespuestaDump, exitProcess
  <2>2. IdDe(t) = hilo
    BY <1>1, <2>1 DEF Dumps
  <2>3. salida'.fase = "ready"
    BY <2>1 DEF Bucle
  <2> QED
    BY <2>1, <2>2, <2>3 DEF Condenado
<1>7. \/ \E f \in esperas : TerminaIo(f) \/ EncolaIo(f)
      \/ \E f \in esperas : RespuestaDump(f, TRUE) \/ RespuestaDump(f, FALSE)
      \/ esperas \subseteq esperas'
  BY SinCruce DEF Next, Syscall, DejaCpu, PasoKernel, Terminado, vars, CrearProceso, CrearHilo, EntrarHilo,
     CancelarHilo, PideCancelar, CrearMutex, BloquearMutex, LiberarMutex, DumpMemory, ManejarIo,
     Bloquear, FinalizarHilo, FinalizarProceso, SegmentationFault, DevolverPidTid, ejecutarInstruccion,
     RecibirPIDyTID, RafagaSinSyscall, SeguirLockMutex, DesbloquearHilosJoin, LiberarAlSalir,
     VolverDeCancelar, RecorrerCola, SiguienteCola, TerminarProceso, IniciarPendiente,
     FinExitProcess
<1> QED
  BY <1>2, <1>3, <1>4, <1>5, <1>6, <1>7

\* Who holds a mutex, when those of one process change and the others do not.
LEMMA PoseeCambia ==
  ASSUME NEW pid, NEW id, Posee(id)', ~Posee(id), NEW n,
         \A p \in DOMAIN colaProcesosInicializados' :
           \/ p \in DOMAIN colaProcesosInicializados
              /\ colaProcesosInicializados'[p] = colaProcesosInicializados[p]
           \/ /\ p = pid
              /\ \A j \in DOMAIN colaProcesosInicializados'[p] :
                   \/ colaProcesosInicializados'[p][j] = n
                   \/ /\ p \in DOMAIN colaProcesosInicializados
                      /\ j \in DOMAIN colaProcesosInicializados[p]
                      /\ colaProcesosInicializados'[p][j] = colaProcesosInicializados[p][j]
  PROVE  id[1] = pid /\ id[2] = n.HiloUsando
<1> DEFINE ini == colaProcesosInicializados
           p == id[1]
<1>1. p \in DOMAIN ini' /\ \E j \in DOMAIN ini'[p] : ini'[p][j].HiloUsando = id[2]
  BY DEF Posee, MutexesDe
<1>2. PICK j \in DOMAIN ini'[p] : ini'[p][j].HiloUsando = id[2]
  BY <1>1
<1>3. p \in DOMAIN ini => \A k \in DOMAIN ini[p] : ini[p][k].HiloUsando # id[2]
  BY DEF Posee, MutexesDe
<1> QED
  BY <1>1, <1>2, <1>3

\* A mutex goes to a thread that is not in block any more.
LEMMA GanaUnlock ==
  ASSUME Sano, NEW pid, NEW tid, NEW nombre, unlockMutex(pid, tid, nombre),
         NEW id \in Ids, Posee(id)', ~Posee(id)
  PROVE  id \notin IdsDe(Bloqueados')
<1> USE DEF Sano, HInv, IInv
<1> DEFINE ini == colaProcesosInicializados
           m == MutexesDe(pid)[1]
           primero == Head(m.colaBloqueados)
<1>1. CASE UNCHANGED ini
  BY <1>1 DEF Posee, MutexesDe
<1>2. ASSUME MutexesDe(pid) # <<>>, NEW n \in Mutexes, ini' = [ini EXCEPT ![pid][1] = n]
      PROVE  id[1] = pid /\ id[2] = n.HiloUsando
  <2>1. /\ DOMAIN ini' = DOMAIN ini /\ \A q \in DOMAIN ini : q # pid => ini'[q] = ini[q]
        /\ DOMAIN ini'[pid] = {1} /\ ini'[pid][1] = n
    BY <1>2, ElMutex
  <2> QED
    BY <2>1, PoseeCambia
<1>3. MutexesDe(pid) # <<>> => /\ m \in Mutexes /\ m.colaBloqueados \in Seq(TCBs) /\ MutexSano(pid, m)
                              /\ pid \in DOMAIN ini
  BY ElMutex
<1>4. CASE /\ MutexesDe(pid) # <<>> /\ m.colaBloqueados = <<>>
           /\ ini' = [ini EXCEPT ![pid][1] = [m EXCEPT !.Bloqueado = FALSE, !.HiloUsando = -1]]
  <2> DEFINE n == [m EXCEPT !.Bloqueado = FALSE, !.HiloUsando = -1]
  <2>1. n \in Mutexes /\ n.HiloUsando = -1 /\ ini' = [ini EXCEPT ![pid][1] = n]
    BY <1>3, <1>4 DEF Mutexes
  <2> HIDE DEF n
  <2>2. id[2] = -1
    BY <1>2, <1>4, <2>1
  <2>3. id[2] \in Nat
    BY DEF Ids
  <2> QED
    BY <2>2, <2>3
<1>5. CASE /\ MutexesDe(pid) # <<>> /\ m.colaBloqueados # <<>>
           /\ ini' = [ini EXCEPT ![pid][1] =
                        [m EXCEPT !.HiloUsando = primero.Tid, !.colaBloqueados = Tail(@)]]
           /\ colaBlockHilo' = eliminarHiloCola(colaBlockHilo, IdDe(primero))
  <2> DEFINE n == [m EXCEPT !.HiloUsando = primero.Tid, !.colaBloqueados = Tail(@)]
  <2>1. /\ primero \in Bloqueados /\ primero.Pid = pid /\ primero \in TCBs
        /\ Tail(m.colaBloqueados) \in Seq(TCBs)
    BY <1>3, <1>5, Cabeza, TipoLugares DEF MutexSano
  <2>2. n \in Mutexes /\ n.HiloUsando = primero.Tid /\ ini' = [ini EXCEPT ![pid][1] = n]
    BY <1>3, <1>5, <2>1 DEF Mutexes, TCBs
  <2> HIDE DEF n
  <2>3. id = IdDe(primero)
    <3>1. id[1] = pid /\ id[2] = primero.Tid
      BY <1>2, <1>5, <2>2
    <3> HIDE DEF primero
    <3> QED
      BY <2>1, <3>1 DEF Ids, IdDe
  <2>4. Bloqueados' = Bloqueados \ {primero}
    <3> HIDE DEF primero
    <3> QED
      BY <1>5, <2>1, TipoLugares, Quitar DEF Bloqueados, Lugares
  <2> HIDE DEF primero
  <2> QED
    BY <2>1, <2>3, <2>4 DEF IdsDe, Lugares, Distintos, Vivos
<1> QED
  BY <1>1, <1>4, <1>5 DEF unlockMutex

\* MUTEX_LOCK gives the mutex to the thread of the CPU.
LEMMA GanaBloquear ==
  ASSUME Sano, NEW nombre, BloquearMutex(nombre), NEW id \in Ids, Posee(id)', ~Posee(id)
  PROVE  id \notin IdsDe(Bloqueados')
<1> USE DEF Sano, HInv, IInv
<1> DEFINE ini == colaProcesosInicializados
           pid == hilo[1]
           m == MutexesDe(pid)[1]
<1>1. PICK a \in TCBs : /\ getTCB(hilo) = a /\ IdDe(a) = hilo /\ a.Tid = hilo[2]
                        /\ hilo \notin IdsDe(Bloqueados)
  BY ConActual DEF BloquearMutex, Llama
<1>2. CASE UNCHANGED ini
  BY <1>2 DEF Posee, MutexesDe
<1>3. ASSUME MutexesDe(pid) # <<>>, NEW n \in Mutexes, ini' = [ini EXCEPT ![pid][1] = n]
      PROVE  /\ id[1] = pid /\ id[2] = n.HiloUsando /\ n.HiloUsando # m.HiloUsando
  <2>1. /\ DOMAIN ini' = DOMAIN ini /\ \A q \in DOMAIN ini : q # pid => ini'[q] = ini[q]
        /\ DOMAIN ini'[pid] = {1} /\ ini'[pid][1] = n
        /\ MutexesDe(pid) = ini[pid] /\ 1 \in DOMAIN ini[pid] /\ pid \in DOMAIN ini
    BY <1>3, ElMutex
  <2>2. id[1] = pid /\ id[2] = n.HiloUsando
    BY <2>1, PoseeCambia
  <2>3. n.HiloUsando # m.HiloUsando
    BY <2>1, <2>2 DEF Posee
  <2> QED
    BY <2>2, <2>3
<1>4. MutexesDe(pid) # <<>> => m \in Mutexes
  BY ElMutex
<1>5. CASE MutexesDe(pid) # <<>> /\ TomarMutex(a)
  <2> DEFINE n == [m EXCEPT !.Bloqueado = TRUE, !.HiloUsando = a.Tid]
  <2>1. n \in Mutexes /\ n.HiloUsando = a.Tid /\ ini' = [ini EXCEPT ![pid][1] = n]
    <3>1. a.Tid \in Nat
      BY DEF TCBs
    <3> QED
      BY <1>4, <1>5, <3>1 DEF TomarMutex, Mutexes
  <2> HIDE DEF n
  <2>2. id = hilo
    <3>1. id[1] = hilo[1] /\ id[2] = hilo[2]
      BY <1>1, <1>3, <1>5, <2>1
    <3> QED
      BY <1>1, <3>1 DEF Ids, IdDe
  <2>3. colaBlockHilo' = colaBlockHilo
    BY <1>5 DEF TomarMutex, colas
  <2> QED
    BY <1>1, <2>2, <2>3 DEF Bloqueados
<1>6. CASE MutexesDe(pid) # <<>> /\ EsperarMutex(a)
  <2> DEFINE n == [m EXCEPT !.colaBloqueados = Append(@, a)]
  <2>1. n \in Mutexes /\ n.HiloUsando = m.HiloUsando /\ ini' = [ini EXCEPT ![pid][1] = n]
    <3>1. m.colaBloqueados \in Seq(TCBs)
      BY <1>6, ElMutex
    <3>2. Append(m.colaBloqueados, a) \in Seq(TCBs)
      BY <3>1, AppendProperties
    <3> QED
      BY <1>4, <1>6, <3>2 DEF EsperarMutex, Mutexes
  <2> HIDE DEF n
  <2> QED
    BY <1>3, <1>6, <2>1
<1> QED
  BY <1>1, <1>2, <1>5, <1>6 DEF BloquearMutex

\* Nobody who is in block has got a mutex in this step.
LEMMA GanaPaso ==
  ASSUME Sano, [Next]_vars, NEW id \in Ids, Posee(id)', ~Posee(id)
  PROVE  id \notin IdsDe(Bloqueados')
<1> USE DEF Sano, HInv, IInv
<1> DEFINE ini == colaProcesosInicializados
<1>1. UNCHANGED ini => FALSE
  BY DEF Posee, MutexesDe
<1>2. ASSUME \A p \in DOMAIN ini' : \/ ini'[p] = <<>>
                                    \/ p \in DOMAIN ini /\ ini'[p] = ini[p]
      PROVE  FALSE
  <2>1. \E j \in DOMAIN ini'[id[1]] : id[1] \in DOMAIN ini' /\ ini'[id[1]][j].HiloUsando = id[2]
    BY DEF Posee, MutexesDe
  <2>2. ini'[id[1]] # <<>> /\ id[1] \in DOMAIN ini'
    BY <2>1, EmptySeq
  <2>3. id[1] \in DOMAIN ini /\ ini'[id[1]] = ini[id[1]]
    BY <1>2, <2>2
  <2> QED
    BY <2>1, <2>3 DEF Posee, MutexesDe
<1>3. ASSUME \/ \E p \in Prioridades, hay, abre \in BOOLEAN : CrearProceso(p, hay, abre)
             \/ \E abre \in BOOLEAN : IniciarPendiente(abre)
      PROVE  FALSE
  BY <1>1, <1>2, <1>3, ArrancaPaso
<1>4. ASSUME TerminarProceso PROVE FALSE
  BY <1>1, <1>2, <1>4 DEF TerminarProceso
<1>5. ASSUME NEW n, CrearMutex(n) PROVE FALSE
  <2> DEFINE pid == hilo[1]
             nuevo == mutexCreate(n)
  <2>1. /\ pid \in DOMAIN ini /\ ini[pid] \in Seq(Mutexes) /\ nuevo.HiloUsando = -1
        /\ ini' = [ini EXCEPT ![pid] = Append(ini[pid], nuevo)]
    BY <1>5 DEF CrearMutex, Llama, TypeOK, TipoProcesos, mutexCreate
  <2> HIDE DEF nuevo
  <2>2. \A j \in DOMAIN ini'[pid] : \/ ini'[pid][j] = nuevo
                                    \/ j \in DOMAIN ini[pid] /\ ini'[pid][j] = ini[pid][j]
    <3> DEFINE q == ini[pid]
    <3>1. /\ Len(q) \in Nat /\ DOMAIN q = 1..Len(q) /\ DOMAIN Append(q, nuevo) = 1..(Len(q) + 1)
          /\ Append(q, nuevo)[Len(q) + 1] = nuevo
          /\ \A j \in 1..Len(q) : Append(q, nuevo)[j] = q[j]
      BY <2>1, LenProperties
    <3>2. ini'[pid] = Append(q, nuevo)
      BY <2>1
    <3> HIDE DEF q
    <3>3. \A j \in 1..(Len(q) + 1) : j \in 1..Len(q) \/ j = Len(q) + 1
      BY <3>1
    <3> QED
      BY <3>1, <3>2, <3>3 DEF q
  <2>3. id[2] = -1
    <3>1. \A p \in DOMAIN ini' : p # pid => p \in DOMAIN ini /\ ini'[p] = ini[p]
      BY <2>1
    <3>2. \A p \in DOMAIN ini' :
            \/ p \in DOMAIN ini /\ ini'[p] = ini[p]
            \/ /\ p = pid
               /\ \A j \in DOMAIN ini'[p] :
                    \/ ini'[p][j] = nuevo
                    \/ /\ p \in DOMAIN ini
                       /\ j \in DOMAIN ini[p]
                       /\ ini'[p][j] = ini[p][j]
      BY <2>1, <2>2, <3>1
    <3>3. PICK j \in DOMAIN ini'[id[1]] : id[1] \in DOMAIN ini' /\ ini'[id[1]][j].HiloUsando = id[2]
      BY DEF Posee, MutexesDe
    <3>4. id[1] \in DOMAIN ini => \A k \in DOMAIN ini[id[1]] : ini[id[1]][k].HiloUsando # id[2]
      BY DEF Posee, MutexesDe
    <3> QED
      BY <2>1, <3>2, <3>3, <3>4
  <2> QED
    BY <2>3 DEF Ids
<1>6. ASSUME NEW n, LiberarMutex(n) PROVE id \notin IdsDe(Bloqueados')
  BY <1>6, GanaUnlock DEF LiberarMutex
<1>7. ASSUME LiberarAlSalir PROVE id \notin IdsDe(Bloqueados')
  BY <1>1, <1>7, GanaUnlock DEF LiberarAlSalir
<1>8. \/ \E p \in Prioridades, hay, abre \in BOOLEAN : CrearProceso(p, hay, abre)
      \/ \E abre \in BOOLEAN : IniciarPendiente(abre)
      \/ \E n \in Nombres : CrearMutex(n) \/ BloquearMutex(n) \/ LiberarMutex(n)
      \/ LiberarAlSalir \/ TerminarProceso
      \/ UNCHANGED colaProcesosInicializados
  BY MutexTocados
<1> QED
  BY <1>1, <1>3, <1>4, <1>5, <1>6, <1>7, <1>8, GanaBloquear

\* A thread enters block in one way only.
LEMMA EntraEnBlock ==
  ASSUME Sano, Movimiento, NEW t \in Bloqueados', t \notin Bloqueados
  PROVE  Bloquea(t)
<1> USE DEF Sano, HInv, IInv
<1> DEFINE q == colaBlockHilo
<1>1. q \in Seq(TCBs) /\ Unico(q) /\ Bloqueados = Rango(q) /\ Bloqueados' = Rango(colaBlockHilo')
  BY TipoLugares DEF Lugares, Bloqueados
<1>2. ASSUME NEW u \in TCBs, Bloquea(u) PROVE t = u
  <2>1. colaBlockHilo' = Append(q, u)
    BY <1>2 DEF Bloquea
  <2> HIDE DEF q
  <2>2. Rango(Append(q, u)) = Rango(q) \cup {u}
    BY <1>1, Agregar
  <2> QED
    BY <1>1, <2>1, <2>2
<1>3. ASSUME NEW u \in TCBs, u \in Bloqueados, colaBlockHilo' = eliminarHiloCola(q, IdDe(u))
      PROVE  FALSE
  <2> HIDE DEF q
  <2>1. Rango(colaBlockHilo') = Rango(q) \ {u}
    BY <1>1, <1>3, Quitar
  <2> QED
    BY <1>1, <2>1
<1>4. ASSUME colaBlockHilo' = q PROVE FALSE
  BY <1>1, <1>4
<1>5. ASSUME Quieto PROVE FALSE
  BY <1>4, <1>5 DEF Quieto, colas
<1>6. ASSUME NEW u \in TCBs, \/ Nace(u) \/ Despacha(u) \/ Desaloja(u) \/ EntraEnReady(u)
      PROVE  FALSE
  BY <1>4, <1>6 DEF Nace, Despacha, Desaloja, EntraEnReady
<1>7. ASSUME NEW u \in TCBs, \/ Despierta(u) \/ SaleDeBlock(u) \/ Acaba(u)
      PROVE  FALSE
  BY <1>3, <1>4, <1>7 DEF Despierta, SaleDeBlock, Acaba
<1> QED
  BY <1>2, <1>5, <1>6, <1>7 DEF Movimiento

\* The thread that caused exitProcess leaves block before exitProcess ends.
LEMMA CondenadoSigue ==
  ASSUME ReglasCumplidas, Sano, TypeOK', [Next]_vars, NEW t \in Bloqueados, Condenado(t)
  PROVE  Condenado(t)'
<1> USE DEF Sano, HInv, IInv
<1>1. salida.fase # "nada" /\ IdDe(t) = hilo
  BY DEF Condenado
<1>2. CASE MismaFase
  BY <1>1, <1>2 DEF MismaFase, Condenado
<1>3. CASE SiguienteCola
  BY <1>1, <1>3 DEF SiguienteCola, Bucle, cadena, Condenado
<1>4. CASE TerminarProceso
  <2>1. salida.pid \in DOMAIN colaProcesosInicializados /\ salida \in Salida
    BY <1>4 DEF TerminarProceso, EnFase, Recorrido, TypeOK, TipoFinales
  <2>2. salida' = [salida EXCEPT !.fase = "iniciar"] /\ hilo' = hilo
    BY <1>4, <2>1 DEF TerminarProceso
  <2> QED
    BY <1>1, <2>1, <2>2 DEF Salida, Condenado
<1>5. CASE FinExitProcess
  BY <1>1, <1>5 DEF FinExitProcess, EnFase, Recorrido, IdsDe
<1> QED
  BY <1>1, <1>2, <1>3, <1>4, <1>5, FasePaso

\* The holders of mutexes still block only for an IO or a dump.
LEMMA DueniosPaso ==
  ASSUME ReglasCumplidas, Sano, TypeOK', [Next]_vars, Movimiento, NoEspera,
         DuenioSuelto
  PROVE  DuenioSuelto'
<1> USE DEF Sano, HInv, IInv
<1> SUFFICES ASSUME NEW t \in Bloqueados', Posee(IdDe(t))'
             PROVE  t \in Dormidos' \/ Condenado(t)'
  BY DEF DuenioSuelto
<1>1. t \in TCBs /\ IdDe(t) \in Ids /\ IdDe(t) \in IdsDe(Bloqueados')
  <2>1. t \in TCBs
    <3>1. colaBlockHilo' \in Seq(TCBs)
      BY DEF TypeOK, TipoColas
    <3>2. PICK k \in DOMAIN colaBlockHilo' : colaBlockHilo'[k] = t
      BY DEF Bloqueados, Rango
    <3> QED
      BY <3>1, <3>2, ElementOfSeq, LenProperties
  <2> QED
    BY <2>1 DEF TCBs, Ids, IdDe, IdsDe
<1>2. Posee(IdDe(t))
  BY <1>1, GanaPaso
<1>3. CASE t \in Bloqueados
  BY <1>2, <1>3, DormidoSigue, CondenadoSigue DEF DuenioSuelto
<1>4. CASE t \notin Bloqueados
  BY <1>2, <1>4, EntraEnBlock DEF Bloquea
<1> QED
  BY <1>3, <1>4

\* Every step keeps it.
LEMMA SueltoPaso ==
  ASSUME ReglasCumplidas, Sano, Suelto, [Next]_vars
  PROVE  Suelto'
<1>1. TypeOK' /\ Movimiento
  BY HilosPaso, PasoMovimiento DEF Sano, IInv
<1>2. BloqueEnOrden' /\ Principales' /\ Cerrado' /\ HayProceso'
  BY <1>1, OrdenPaso, PrincipalesPaso, CerradoPaso, HayProcesoPaso DEF Suelto
<1>3. NoEspera => DuenioSuelto'
  BY <1>1, DueniosPaso DEF Suelto
<1> QED
  BY <1>2, <1>3, Zenon DEF Suelto, NoEspera

\* At first the only thread is the main one of the first process, if it fits.
LEMMA SueltoInit == Init => Suelto
<1> SUFFICES ASSUME Init PROVE Suelto
  OBVIOUS
<1> DEFINE tcb == [Pid |-> 1, Tid |-> 0, Prioridad |-> 0, HilosBloqueados |-> <<>>]
<1>1. colaBlockHilo = <<>> /\ salida = SinSalida
  BY DEF Init
<1>2. BloqueEnOrden /\ DuenioSuelto
  BY <1>1, EmptySeq DEF BloqueEnOrden, DuenioSuelto, Bloqueados, Rango
<1>3. CASE colaProcesosInicializados = [p \in {1} |-> <<>>] /\ colaReadyHilo = <<tcb>>
  <2>1. <<1, 0>> \in IdsDe(Vivos)
    <3>1. tcb \in Listos
      BY <1>3 DEF Listos, Rango
    <3>2. IdDe(tcb) = <<1, 0>>
      BY DEF IdDe
    <3> QED
      BY <3>1, <3>2 DEF IdsDe, Vivos
  <2>2. Principales /\ HayProceso
    BY <1>3, <2>1 DEF Principales, HayProceso
  <2> QED
    BY <1>1, <1>2, <2>2 DEF Suelto, Cerrado, SinSalida
<1>4. CASE colaProcesosInicializados = [p \in {} |-> <<>>] /\ pc = "detenido"
  <2>1. DOMAIN colaProcesosInicializados = {}
    BY <1>4
  <2> QED
    BY <1>1, <1>2, <1>4, <2>1 DEF Suelto, Principales, HayProceso, Cerrado, SinSalida
<1>5. \/ colaProcesosInicializados = [p \in {1} |-> <<>>] /\ colaReadyHilo = <<tcb>>
      \/ colaProcesosInicializados = [p \in {} |-> <<>>] /\ pc = "detenido"
  BY DEF Init
<1> QED
  BY <1>3, <1>4, <1>5

\* The last thread to block waits neither for a thread that it joined, which
\* blocked before, nor for a mutex, whose holder is not blocked.
LEMMA SueltoLibre ==
  ASSUME Sano, Suelto, NoEspera
  PROVE  NadieTrabado
<1> USE DEF Sano, HInv, IInv
<1> SUFFICES ASSUME pc = "libre", colaReadyHilo = <<>>, esperas = {} PROVE FALSE
  BY DEF NadieTrabado
<1> DEFINE q == colaBlockHilo
           n == Len(q)
           t == q[n]
           ini == colaProcesosInicializados
<1>1. colaExecHilo = <<>> /\ saliendo = SinSalir /\ salida.fase = "nada"
  BY DEF Cadena
<1>2. Vivos = Bloqueados /\ Dormidos = {} /\ \A u : ~Condenado(u)
  BY <1>1, Vacia DEF Vivos, Listos, EnCpu, Dormidos, Despiertos, Condenado
<1>3. Faltan = {}
  BY <1>1, EmptySeq DEF Faltan, SinSalir
<1>4. q \in Seq(TCBs) /\ n \in 1..n /\ DOMAIN q = 1..n /\ t \in Bloqueados
  <2>1. Bloqueados # {}
    BY <1>1, <1>2 DEF Suelto, HayProceso, Principales, IdsDe
  <2>2. q \in Seq(TCBs)
    BY TipoLugares
  <2>3. n \in Nat /\ DOMAIN q = 1..n
    BY <2>2, LenProperties
  <2>4. n # 0
    BY <2>1, <2>3 DEF Bloqueados, Rango
  <2>5. n \in 1..n
    BY <2>3, <2>4
  <2> QED
    BY <2>2, <2>3, <2>5 DEF Bloqueados, Rango
<1>5. t \notin EnJoin
  <2> SUFFICES ASSUME t \in EnJoin PROVE FALSE
    OBVIOUS
  <2>1. IdDe(t) \in Recordados
    BY DEF Joins, IdsDe
  <2>2. PICK u \in Bloqueados : IdDe(t) \in Recuerdos(u)
    BY <1>2, <1>3, <2>1 DEF Recordados
  <2>3. PICK l \in 1..n : q[l] = u
    BY <1>4 DEF Bloqueados, Rango
  <2>4. n < l
    BY <1>4, <2>2, <2>3 DEF Suelto, BloqueEnOrden
  <2> QED
    BY <1>4, <2>4
<1>6. PICK p \in DOMAIN ini : \E j \in DOMAIN ini[p] : t \in Rango(ini[p][j].colaBloqueados)
  BY <1>2, <1>4, <1>5 DEF EnJoin, EnMutex
<1>7. PICK j \in DOMAIN ini[p] : t \in Rango(ini[p][j].colaBloqueados)
  BY <1>6
<1> DEFINE m == ini[p][j]
<1>8. m.HiloUsando # -1
  <2>1. m.colaBloqueados # <<>>
    BY <1>7, EmptySeq DEF Rango
  <2> QED
    BY <2>1 DEF MutexCoherente, Coherente
<1>9. <<p, m.HiloUsando>> \in IdsDe(Bloqueados)
  <2>1. <<p, m.HiloUsando>> \in IdsDe(Vivos) \cup {IdDe(saliendo.hilo)}
    BY <1>8 DEF MutexSanos, MutexSano
  <2>2. IdDe(saliendo.hilo) = <<0, 0>>
    BY <1>1 DEF SinSalir, TCBNulo, IdDe
  <2>3. p # 0
    BY LenProperties DEF PidsEnOrden, Pids, TypeOK, TipoProcesos
  <2> QED
    BY <1>2, <2>1, <2>2, <2>3
<1>10. PICK d \in Bloqueados : IdDe(d) = <<p, m.HiloUsando>>
  BY <1>9 DEF IdsDe
<1>11. Posee(IdDe(d))
  <2>1. IdDe(d)[1] = p /\ IdDe(d)[2] = m.HiloUsando /\ MutexesDe(p) = ini[p]
    BY <1>10 DEF MutexesDe
  <2> QED
    BY <2>1 DEF Posee
<1> QED
  BY <1>2, <1>11 DEF Suelto, DuenioSuelto

\* Both invariants of threads, under the rules.
LEMMA SanoYSuelto == ReglasCumplidas => (Spec => [](Sano /\ Suelto))
<1> SUFFICES ASSUME ReglasCumplidas PROVE Spec => [](Sano /\ Suelto)
  OBVIOUS
<1>1. Sano /\ Suelto /\ [Next]_vars => Suelto'
  BY SueltoPaso
<1> QED
  BY <1>1, HilosSanos, SueltoInit, PTL DEF Spec

\* The threads that are left never all wait for each other: while the scheduler
\* waits for a thread, one is ready or an IO is on its way to make one ready
\* (utils.go:803).  Without the rule of NoEspera two threads can wait for each
\* other, one for a mutex and one in a join.
THEOREM SiempreSinTrabarse == (ReglasCumplidas /\ NoEspera) => (Spec => []NadieTrabado)
<1> SUFFICES ASSUME ReglasCumplidas, NoEspera PROVE Spec => []NadieTrabado
  OBVIOUS
<1>1. Sano /\ Suelto => NadieTrabado
  BY SueltoLibre
<1> QED
  BY <1>1, SanoYSuelto, PTL
=============================================================================
