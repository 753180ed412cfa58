---------------------------- MODULE KernelProofs ----------------------------
(***************************************************************************)
(* Proofs about the kernel, for every algorithm, every set of names and    *)
(* priorities, every bound and every set of rules.                         *)
(***************************************************************************)
EXTENDS KernelProps, SequenceTheorems, FiniteSetTheorems, WellFoundedInduction, TLAPS

-----------------------------------------------------------------------------
(* Data *)

\* A non-empty set of naturals has a least element.
LEMMA MenorNatural ==
  ASSUME NEW T \in SUBSET Nat, T # {}
  PROVE  \E x \in T : \A y \in T : x <= y
<1> DEFINE R == {ss \in Nat \X Nat : ss[1] < ss[2]}
<1>1. IsWellFoundedOn(R, Nat)
  BY NatLessThanWellFounded DEF OpToRel
<1>2. PICK x \in T : \A y \in T : ~ (<<y, x>> \in R)
  BY <1>1, WFMin
<1>3. ASSUME NEW y \in T PROVE x <= y
  <2>1. <<y, x>> \in Nat \X Nat /\ <<y, x>>[1] = y /\ <<y, x>>[2] = x
    OBVIOUS
  <2>2. ~ (<<y, x>>[1] < <<y, x>>[2])
    BY <1>2, <2>1
  <2> QED
    BY <2>1, <2>2
<1> QED
  BY <1>3

\* A function on 1..n with values in S is a sequence over S.
LEMMA FuncionEsSeq ==
  ASSUME NEW S, NEW n \in Nat, NEW f \in [1..n -> S]
  PROVE  f \in Seq(S)
  BY SeqDef

\* A queue of one thread is a queue.
LEMMA IsASeqUno ==
  ASSUME NEW S, NEW e \in S
  PROVE  <<e>> \in Seq(S)
  OBVIOUS

\* eliminarHiloCola (utils.go:1055) returns a queue, whatever it removes.
LEMMA EliminarTipo ==
  ASSUME NEW cola \in Seq(TCBs), NEW id
  PROVE  eliminarHiloCola(cola, id) \in Seq(TCBs)
<1> DEFINE antes(R, i) == Cardinality(R \cap (1..i))
           quitas == CHOOSE R \in SUBSET DOMAIN cola :
                       \A i \in DOMAIN cola :
                         i \in R <=> IdDe(Corrido(cola, i, antes(R, i - 1))) = id
           n == Len(cola)
<1>1. CASE ~EstaEn(cola, id)
  BY <1>1, EmptySeq DEF eliminarHiloCola
<1>2. CASE EstaEn(cola, id)
  <2>1. n \in Nat \ {0} /\ DOMAIN cola = 1..n /\ \A i \in 1..n : cola[i] \in TCBs
    BY <1>2, LenProperties, ElementOfSeq DEF EstaEn
  <2>2. ASSUME NEW i \in 1..(n - 1) PROVE antes(quitas, i) \in Nat
    <3>1. IsFiniteSet(1..i)
      BY <2>1, FS_Interval
    <3>2. quitas \cap (1..i) \in SUBSET (1..i)
      OBVIOUS
    <3> QED
      BY <3>1, <3>2, FS_Subset, FS_CardinalityType
  <2>3. ASSUME NEW i \in 1..(n - 1) PROVE Corrido(cola, i, antes(quitas, i)) \in TCBs
    <3> HIDE DEF antes, quitas
    <3> QED
      BY <2>1, <2>2 DEF Corrido
  <2>4. [i \in 1..(n - 1) |-> Corrido(cola, i, antes(quitas, i))] \in [1..(n - 1) -> TCBs]
    BY <2>3
  <2>5. eliminarHiloCola(cola, id) = [i \in 1..(n - 1) |-> Corrido(cola, i, antes(quitas, i))]
    BY <1>2 DEF eliminarHiloCola
  <2>6. n - 1 \in Nat
    BY <2>1
  <2> HIDE DEF antes, quitas
  <2> QED
    BY <2>4, <2>5, <2>6, FuncionEsSeq
<1> QED
  BY <1>1, <1>2

\* A thread that is in a queue is found there.
LEMMA BuscarTipo ==
  ASSUME NEW S, NEW cola \in Seq(S), NEW id, EstaEn(cola, id)
  PROVE  /\ Posicion(cola, id) \in 1..Len(cola)
         /\ IdDe(cola[Posicion(cola, id)]) = id
         /\ Buscar(cola, id) \in S
<1>1. DOMAIN cola = 1..Len(cola)
  BY LenProperties
<1>2. Posicion(cola, id) \in DOMAIN cola /\ IdDe(cola[Posicion(cola, id)]) = id
  BY DEF EstaEn, Posicion
<1> QED
  BY <1>1, <1>2, ElementOfSeq DEF Buscar

\* TCB{}, what getTCB (utils.go:554) returns without the thread, is a TCB.
LEMMA TCBNuloTipo == TCBNulo \in TCBs
<1>1. <<>> \in Seq(Nat)
  BY EmptySeq
<1> QED
  BY <1>1 DEF TCBNulo, TCBs

\* getTCB (utils.go:554) returns a TCB, found or not.
LEMMA getTCBTipo ==
  ASSUME TipoColas, NEW id
  PROVE  getTCB(id) \in TCBs
  BY BuscarTipo, TCBNuloTipo DEF getTCB, TipoColas

\* The id of a TCB is a pid and a tid.
LEMMA IdTipo ==
  ASSUME NEW tcb \in TCBs
  PROVE  /\ tcb.Pid \in Nat /\ tcb.Tid \in Nat /\ tcb.Prioridad \in Nat
         /\ tcb.HilosBloqueados \in Seq(Nat)
         /\ IdDe(tcb) \in Ids
  BY DEF TCBs, IdDe, Ids

\* The scan of the ready queue (utils.go:843) ends in the first of the threads
\* with the best priority.
LEMMA MayorPrioridad ==
  ASSUME colaReadyHilo \in Seq(TCBs), colaReadyHilo # <<>>
  PROVE  LET i == obtenerHiloMayorPrioridad
         IN /\ i \in 1..Len(colaReadyHilo)
            /\ \A j \in 1..Len(colaReadyHilo) :
                 \/ colaReadyHilo[i].Prioridad < colaReadyHilo[j].Prioridad
                 \/ colaReadyHilo[i].Prioridad = colaReadyHilo[j].Prioridad /\ i <= j
<1> DEFINE q == colaReadyHilo
           D == 1..Len(q)
           P == {q[i].Prioridad : i \in D}
<1>1. Len(q) \in Nat \ {0} /\ DOMAIN q = D /\ \A i \in D : q[i].Prioridad \in Nat
  BY EmptySeq, LenProperties, ElementOfSeq, IdTipo
<1>2. PICK p \in P : \A r \in P : p <= r
  <2>1. P \in SUBSET Nat /\ P # {}
    BY <1>1
  <2> QED
    BY <2>1, MenorNatural
<1> DEFINE I == {i \in D : q[i].Prioridad = p}
<1>3. PICK i \in I : \A j \in I : i <= j
  <2>1. I \in SUBSET Nat /\ I # {}
    BY <1>1
  <2> QED
    BY <2>1, MenorNatural
<1>4. \A j \in D : \/ q[i].Prioridad < q[j].Prioridad
                   \/ q[i].Prioridad = q[j].Prioridad /\ i <= j
  <2> TAKE j \in D
  <2>1. q[i].Prioridad = p /\ p \in Nat /\ q[j].Prioridad \in P /\ q[j].Prioridad \in Nat
    BY <1>1
  <2>2. p <= q[j].Prioridad
    BY <1>2, <2>1
  <2>3. q[j].Prioridad = p => i <= j
    BY <1>3
  <2> QED
    BY <2>1, <2>2, <2>3
<1> QED
  BY <1>1, <1>3, <1>4 DEF obtenerHiloMayorPrioridad

\* The thread that is dispatched next is in the ready queue.
LEMMA SiguienteTipo ==
  ASSUME colaReadyHilo \in Seq(TCBs), colaReadyHilo # <<>>
  PROVE  Siguiente \in 1..Len(colaReadyHilo)
<1>1. Len(colaReadyHilo) \in Nat \ {0}
  BY EmptySeq, LenProperties
<1> QED
  BY <1>1, MayorPrioridad DEF Siguiente

\* The mutexes of getPCB are those of the process, or none.
LEMMA MutexesDeTipo ==
  ASSUME TypeOK, NEW pid
  PROVE  MutexesDe(pid) \in Seq(Mutexes)
  BY EmptySeq DEF MutexesDe, TypeOK, TipoProcesos

\* The array that a loop of exitProcess walks stays an array of TCBs.
LEMMA ReflejosTipo ==
  ASSUME NEW s \in Salida, NEW vieja, NEW nueva \in Seq(TCBs),
         NEW t \in Reflejos(s, vieja, nueva)
  PROVE  t \in Salida
<1> DEFINE arr == [i \in 1..Len(s.arr) |-> IF i <= Len(nueva) THEN nueva[i] ELSE s.arr[i]]
<1>1. s.arr \in Seq(TCBs) /\ Len(s.arr) \in Nat /\ Len(nueva) \in Nat
  BY LenProperties DEF Salida
<1>2. arr \in [1..Len(s.arr) -> TCBs]
  BY <1>1, ElementOfSeq
<1>3. arr \in Seq(TCBs)
  BY <1>1, <1>2, FuncionEsSeq
<1>4. \E a \in BOOLEAN : t = [s EXCEPT !.arr = IF s.alias THEN arr ELSE @, !.alias = a]
  BY DEF Reflejos, Salida
<1> HIDE DEF arr
<1> QED
  BY <1>1, <1>3, <1>4 DEF Salida

\* The same, for the loop that exitProcess is in.
LEMMA ReflejosDeTipo ==
  ASSUME NEW s \in Salida, colaReadyHilo' \in Seq(TCBs), colaBlockHilo' \in Seq(TCBs),
         NEW t \in ReflejosDe(s)
  PROVE  t \in Salida
  BY ReflejosTipo DEF ReflejosDe

-----------------------------------------------------------------------------
(* The inductive invariant *)

\* Where the chain goes on is known: exitHilo has a caller to return to, and a
\* loop of lockMutex that goes on is one of those that wait.
CadenaOK ==
  /\ pc = "exitHilo" => saliendo.luego # "nada"
  /\ pc = "lockMutex" => pendientes # <<>>

\* TypeOK is not inductive: a tid is read at nextTid[pid], whose domain is what
\* PidsEnOrden says, and pc is taken from saliendo.luego.
IInv == TypeOK /\ PidsEnOrden /\ CadenaOK

\* The chain that works for no thread.
LEMMA NingunHiloTipo == NingunHilo \in Ids
  BY DEF NingunHilo, Ids

\* The calls return to a known place.
LEMMA RetornarTipo ==
  ASSUME TipoCadena, NEW ini, Retornar(ini), pendientes' = pendientes
  PROVE  /\ TipoCadena'
         /\ pc' # "exitHilo"
         /\ pc' = "lockMutex" => pendientes' # <<>>
  BY NingunHiloTipo DEF TipoCadena, Retornar

\* A thread that is sent to the CPU has an id.
LEMMA EnviarTipo ==
  ASSUME TipoCadena, TipoColas, NEW tcb \in TCBs, enviarTCBCpu(IdDe(tcb)),
         pendientes' \in Seq(Ids)
  PROVE  /\ TipoCadena'
         /\ pc' \notin {"exitHilo", "lockMutex"}
  BY IdTipo DEF TipoCadena, enviarTCBCpu

\* The first thread of a process gets the tid of the slot of its pid.
LEMMA ArrancarTipo ==
  ASSUME TipoProcesos, TipoColas, NEW pid, pid = Len(nextTid) + 1,
         NEW prioridad \in Nat, NEW abre, ArrancarProceso(pid, prioridad, abre)
  PROVE  /\ colaReadyHilo' \in Seq(TCBs)
         /\ colaProcesosInicializados' \in
              [DOMAIN colaProcesosInicializados \cup {pid} -> Seq(Mutexes)]
         /\ nextTid' \in Seq(Nat) /\ Len(nextTid') = Len(nextTid) + 1
         /\ sinContexto' \subseteq Ids
<1> DEFINE siguientes == Append(nextTid, 0)
           tcb == [Pid |-> pid, Tid |-> siguientes[pid], Prioridad |-> prioridad,
                   HilosBloqueados |-> <<>>]
<1>1. /\ siguientes \in Seq(Nat) /\ Len(siguientes) = Len(nextTid) + 1 /\ siguientes[pid] = 0
      /\ pid \in 1..Len(siguientes) /\ pid \in Nat
  BY AppendProperties, LenProperties DEF TipoProcesos
<1>2. tcb \in TCBs
  BY <1>1, EmptySeq DEF TCBs
<1>3. colaReadyHilo' \in Seq(TCBs)
  BY <1>2, AppendProperties DEF ArrancarProceso, TipoColas
<1>4. colaProcesosInicializados' \in
        [DOMAIN colaProcesosInicializados \cup {pid} -> Seq(Mutexes)]
  BY EmptySeq DEF ArrancarProceso, TipoProcesos
<1>5. nextTid' \in Seq(Nat) /\ Len(nextTid') = Len(nextTid) + 1
  <2>1. nextTid' = [siguientes EXCEPT ![pid] = siguientes[pid] + 1]
    BY DEF ArrancarProceso
  <2> HIDE DEF siguientes
  <2>2. siguientes[pid] + 1 \in Nat
    BY <1>1
  <2> QED
    BY <1>1, <2>1, <2>2, ExceptSeq
<1>6. sinContexto' \subseteq Ids
  <2>1. sinContexto' \subseteq sinContexto \cup {IdDe(tcb)}
    BY DEF ArrancarProceso
  <2> HIDE DEF tcb
  <2> QED
    BY <1>2, <2>1, IdTipo DEF TipoProcesos
<1> QED
  BY <1>3, <1>4, <1>5, <1>6

MutexesTipo(ini) == ini \in [DOMAIN ini -> Seq(Mutexes)]

\* Replacing the first mutex of a process keeps the types and the processes.
LEMMA CambiarMutexTipo ==
  ASSUME NEW ini, MutexesTipo(ini), NEW pid \in DOMAIN ini, ini[pid] # <<>>,
         NEW m \in Mutexes
  PROVE  /\ MutexesTipo([ini EXCEPT ![pid][1] = m])
         /\ DOMAIN [ini EXCEPT ![pid][1] = m] = DOMAIN ini
<1>1. ini[pid] \in Seq(Mutexes) /\ 1 \in 1..Len(ini[pid])
  BY EmptySeq DEF MutexesTipo
<1>2. [ini[pid] EXCEPT ![1] = m] \in Seq(Mutexes)
  BY <1>1, ExceptSeq
<1>3. [ini EXCEPT ![pid][1] = m] = [ini EXCEPT ![pid] = [ini[pid] EXCEPT ![1] = m]]
  OBVIOUS
<1> QED
  BY <1>2, <1>3 DEF MutexesTipo

\* The first mutex of a process that has one.
LEMMA PrimerMutexTipo ==
  ASSUME TypeOK, NEW pid, MutexesDe(pid) # <<>>
  PROVE  /\ pid \in DOMAIN colaProcesosInicializados
         /\ MutexesDe(pid) = colaProcesosInicializados[pid]
         /\ MutexesDe(pid)[1] \in Mutexes
         /\ MutexesDe(pid)[1].colaBloqueados \in Seq(TCBs)
<1>1. MutexesDe(pid)[1] \in Mutexes
  BY MutexesDeTipo, EmptySeq, ElementOfSeq
<1> QED
  BY <1>1 DEF MutexesDe, Mutexes

\* unlockMutex (utils.go:1334), also when nothing is released.
LEMMA unlockMutexTipo ==
  ASSUME TypeOK, NEW pid, NEW tid, NEW nombre, unlockMutex(pid, tid, nombre)
  PROVE  /\ colaReadyHilo' \in Seq(TCBs) /\ colaBlockHilo' \in Seq(TCBs)
         /\ MutexesTipo(colaProcesosInicializados')
         /\ DOMAIN colaProcesosInicializados' = DOMAIN colaProcesosInicializados
<1> DEFINE ms == MutexesDe(pid)
           m == ms[1]
           primero == Head(m.colaBloqueados)
           ini == colaProcesosInicializados
<1>1. MutexesTipo(ini) /\ TipoColas
  BY DEF TypeOK, TipoProcesos, MutexesTipo
<1>2. CASE UNCHANGED <<colaProcesosInicializados, colaReadyHilo, colaBlockHilo>>
  BY <1>1, <1>2 DEF TipoColas
<1>3. ASSUME ms # <<>>, NEW nuevo \in Mutexes, ini' = [ini EXCEPT ![pid][1] = nuevo]
      PROVE  MutexesTipo(ini') /\ DOMAIN ini' = DOMAIN ini
  <2>1. pid \in DOMAIN ini /\ ini[pid] # <<>>
    BY <1>3, PrimerMutexTipo
  <2> QED
    BY <1>1, <1>3, <2>1, CambiarMutexTipo
<1>4. CASE /\ ms # <<>>
           /\ ini' = [ini EXCEPT ![pid][1] = [m EXCEPT !.Bloqueado = FALSE, !.HiloUsando = -1]]
           /\ UNCHANGED <<colaReadyHilo, colaBlockHilo>>
  <2>1. [m EXCEPT !.Bloqueado = FALSE, !.HiloUsando = -1] \in Mutexes
    BY <1>4, PrimerMutexTipo DEF Mutexes
  <2> QED
    BY <1>1, <1>3, <1>4, <2>1 DEF TipoColas
<1>5. CASE /\ ms # <<>> /\ m.colaBloqueados # <<>>
           /\ ini' = [ini EXCEPT ![pid][1] =
                        [m EXCEPT !.HiloUsando = primero.Tid, !.colaBloqueados = Tail(@)]]
           /\ colaBlockHilo' = eliminarHiloCola(colaBlockHilo, IdDe(primero))
           /\ colaReadyHilo' = Append(colaReadyHilo, primero)
  <2>1. primero \in TCBs /\ Tail(m.colaBloqueados) \in Seq(TCBs)
    BY <1>5, PrimerMutexTipo, HeadTailProperties
  <2>2. [m EXCEPT !.HiloUsando = primero.Tid, !.colaBloqueados = Tail(@)] \in Mutexes
    BY <1>5, <2>1, IdTipo, PrimerMutexTipo DEF Mutexes
  <2>3. colaReadyHilo' \in Seq(TCBs) /\ colaBlockHilo' \in Seq(TCBs)
    BY <1>1, <1>5, <2>1, EliminarTipo, AppendProperties DEF TipoColas
  <2> QED
    BY <1>3, <1>5, <2>2, <2>3
<1> QED
  BY <1>2, <1>4, <1>5 DEF unlockMutex

\* The part of exitHilo (utils.go:710) after getTCB, for a thread of any queue or of none.
LEMMA exitHiloDeTipo ==
  ASSUME TypeOK, NEW pid \in Nat, NEW tcb \in TCBs,
         NEW luego \in {"fin", "cancelado", "exitProcess"}, NEW block \in Seq(TCBs),
         exitHiloDe(pid, tcb, luego, block)
  PROVE  /\ TipoColas'
         /\ colaExitHilo' \subseteq Ids
         /\ saliendo' \in Saliendo /\ saliendo'.luego = luego
         /\ pc' = "exitHilo"
<1>1. IdDe(tcb) \in Ids /\ tcb.HilosBloqueados \in Seq(Nat)
  BY IdTipo
<1>2. TipoColas'
  BY EliminarTipo DEF exitHiloDe, TypeOK, TipoColas
<1>3. colaExitHilo' \subseteq Ids
  BY <1>1 DEF exitHiloDe, TypeOK, TipoFinales
<1>4. saliendo' = [pid |-> pid, hilo |-> tcb, faltan |-> tcb.HilosBloqueados, luego |-> luego]
  BY DEF exitHiloDe
<1>5. saliendo' \in Saliendo /\ saliendo'.luego = luego
  BY <1>1, <1>4 DEF Saliendo
<1> QED
  BY <1>2, <1>3, <1>5 DEF exitHiloDe

\* exitHilo, for the thread of these ids.
LEMMA exitHiloTipo ==
  ASSUME TypeOK, NEW pid \in Nat, NEW tid, NEW luego \in {"fin", "cancelado", "exitProcess"},
         exitHilo(pid, tid, luego)
  PROVE  /\ TipoColas'
         /\ colaExitHilo' \subseteq Ids
         /\ saliendo' \in Saliendo /\ saliendo'.luego = luego
         /\ pc' = "exitHilo"
<1>1. getTCB(<<pid, tid>>) \in TCBs /\ colaBlockHilo \in Seq(TCBs)
  BY getTCBTipo DEF TypeOK, TipoColas
<1> QED
  BY <1>1, exitHiloDeTipo DEF exitHilo

\* A goroutine of IO that takes its thread out of block in the middle of a search.
LEMMA CruceTipo ==
  ASSUME TypeOK, NEW e \in esperas
  PROVE  /\ e.tcb \in TCBs
         /\ SinSuHilo(e) \in Seq(TCBs)
         /\ QuedaEncolar(e) => esperas' \subseteq Esperas
<1>1. e \in Esperas /\ e.tcb \in TCBs /\ [e EXCEPT !.paso = "encolar"] \in Esperas
  BY DEF TypeOK, Esperas
<1> QED
  BY <1>1, EliminarTipo DEF TypeOK, TipoColas, SinSuHilo, QuedaEncolar

\* exitHilo when its search is crossed: TCB{} ends.
LEMMA exitHiloCruzadoTipo ==
  ASSUME TypeOK, NEW pid \in Nat, NEW tid, NEW luego \in {"fin", "cancelado", "exitProcess"},
         NEW e \in esperas, exitHiloCruzado(pid, tid, luego, e)
  PROVE  /\ TipoColas' /\ esperas' \subseteq Esperas
         /\ colaExitHilo' \subseteq Ids
         /\ saliendo' \in Saliendo /\ saliendo'.luego = luego
         /\ pc' = "exitHilo"
<1>1. exitHiloDe(pid, TCBNulo, luego, SinSuHilo(e)) /\ QuedaEncolar(e)
  BY DEF exitHiloCruzado
<1>2. SinSuHilo(e) \in Seq(TCBs) /\ esperas' \subseteq Esperas
  BY <1>1, CruceTipo
<1> QED
  BY <1>1, <1>2, exitHiloDeTipo, TCBNuloTipo

-----------------------------------------------------------------------------
(* Every step keeps the types, and the chain has somewhere to go on *)

Bien == TypeOK' /\ CadenaOK'

\* What an action leaves alone keeps its type.
LEMMA SinCambio ==
  ASSUME TypeOK
  PROVE  /\ UNCHANGED colas => TipoColas'
         /\ UNCHANGED procesos => TipoProcesos'
         /\ UNCHANGED finales => TipoFinales'
         /\ UNCHANGED esperas => (esperas \subseteq Esperas)'
  BY DEF TypeOK, TipoColas, TipoProcesos, TipoFinales, colas, procesos, finales

\* The thread of the chain, which the handlers look up by its id.
LEMMA ActualTipo ==
  ASSUME TypeOK
  PROVE  /\ getTCB(hilo) \in TCBs
         /\ hilo[1] \in Nat /\ hilo[2] \in Nat
         /\ pendientes \in Seq(Ids)
  BY getTCBTipo DEF TypeOK, TipoCadena, Ids

\* Dispatch, the end of a burst and eviction keep the types.
LEMMA TipoDespacho ==
  ASSUME IInv, ejecutarInstruccion \/ RecibirPIDyTID \/ RafagaSinSyscall \/ DevolverPidTid
  PROVE  Bien
<1> USE SinCambio, ActualTipo DEF IInv, Bien
<1>1. CASE ejecutarInstruccion
  <2>1. colaReadyHilo[Siguiente] \in TCBs
    BY <1>1, SiguienteTipo, ElementOfSeq DEF ejecutarInstruccion, TypeOK, TipoColas
  <2>2. TipoColas'
    BY <1>1, <2>1, EliminarTipo, IsASeqUno DEF ejecutarInstruccion, TypeOK, TipoColas
  <2>3. TipoCadena' /\ CadenaOK'
    BY <1>1, <2>1, EnviarTipo DEF ejecutarInstruccion, TypeOK, CadenaOK
  <2> QED
    BY <1>1, <2>2, <2>3 DEF ejecutarInstruccion, TypeOK
<1>2. CASE RecibirPIDyTID
  <2>1. TipoCadena' /\ CadenaOK'
    BY <1>2 DEF RecibirPIDyTID, TypeOK, TipoCadena, CadenaOK
  <2> QED
    BY <1>2, <2>1 DEF RecibirPIDyTID, TypeOK
<1>3. CASE RafagaSinSyscall
  <2>1. TipoCadena' /\ CadenaOK'
    BY <1>3, RetornarTipo DEF RafagaSinSyscall, TypeOK, CadenaOK
  <2> QED
    BY <1>3, <2>1 DEF RafagaSinSyscall, TypeOK
<1>4. CASE DevolverPidTid
  <2>1. TipoColas'
    BY <1>4, EliminarTipo, AppendProperties DEF DevolverPidTid, TypeOK, TipoColas
  <2>2. TipoCadena' /\ CadenaOK'
    BY <1>4, RetornarTipo DEF DevolverPidTid, TypeOK, CadenaOK
  <2> QED
    BY <1>4, <2>1, <2>2 DEF DevolverPidTid, TypeOK
<1> QED
  BY <1>1, <1>2, <1>3, <1>4

\* PROCESS_CREATE and THREAD_CREATE keep the types.
LEMMA TipoCrear ==
  ASSUME IInv, NEW prioridad \in Nat, NEW hay, NEW abre,
         CrearProceso(prioridad, hay, abre) \/ CrearHilo(prioridad, abre)
  PROVE  Bien
<1> USE SinCambio, ActualTipo DEF IInv, Bien
<1>1. CASE CrearProceso(prioridad, hay, abre)
  <2>1. TipoCadena' /\ CadenaOK'
    BY <1>1, EnviarTipo DEF CrearProceso, TypeOK, CadenaOK
  <2>2. nextPid' \in Nat
    BY <1>1 DEF CrearProceso, TypeOK, TipoProcesos
  <2>3. CASE hay /\ colaProcesosSinIniciar = <<>>
    <3>1. nextPid = Len(nextTid) + 1
      BY <2>3, LenProperties, EmptySeq DEF PidsEnOrden, TypeOK, TipoProcesos
    <3>2. ArrancarProceso(nextPid, prioridad, abre) /\ UNCHANGED colaProcesosSinIniciar
      BY <1>1, <2>3 DEF CrearProceso
    <3>3. TipoColas' /\ TipoProcesos'
      BY <1>1, <2>2, <3>1, <3>2, ArrancarTipo
      DEF CrearProceso, TypeOK, TipoColas, TipoProcesos
    <3> QED
      BY <1>1, <2>1, <3>3 DEF CrearProceso, TypeOK
  <2>4. CASE ~(hay /\ colaProcesosSinIniciar = <<>>)
    <3> DEFINE S == [Pid : Nat, Prioridad : Nat]
               proceso == [Pid |-> nextPid, Prioridad |-> prioridad]
    <3>a. proceso \in S /\ colaProcesosSinIniciar \in Seq(S)
      BY DEF TypeOK, TipoProcesos
    <3>b. colaProcesosSinIniciar' = Append(colaProcesosSinIniciar, proceso)
      BY <1>1, <2>4 DEF CrearProceso
    <3>1. colaProcesosSinIniciar' \in Seq(S)
      <4> HIDE DEF S, proceso
      <4> QED
        BY <3>a, <3>b, AppendProperties
    <3>2. colaProcesosSinIniciar' \in Seq([Pid : Nat, Prioridad : Nat])
      BY <3>1
    <3>3. TipoColas' /\ TipoProcesos'
      BY <1>1, <2>2, <2>4, <3>2 DEF CrearProceso, TypeOK, TipoColas, TipoProcesos
    <3> QED
      BY <1>1, <2>1, <3>3 DEF CrearProceso, TypeOK
  <2> QED
    BY <2>3, <2>4
<1>2. CASE CrearHilo(prioridad, abre)
  <2> DEFINE pid == hilo[1]
             tcb == [Pid |-> pid, Tid |-> nextTid[pid], Prioridad |-> prioridad,
                     HilosBloqueados |-> <<>>]
  <2>1. pid \in 1..Len(nextTid) /\ nextTid[pid] \in Nat
    BY <1>2, ElementOfSeq DEF CrearHilo, Llama, PidsEnOrden, Pids, TypeOK, TipoProcesos
  <2>2. tcb \in TCBs
    BY <2>1, EmptySeq DEF TCBs
  <2>3. TipoColas'
    BY <1>2, <2>2, AppendProperties DEF CrearHilo, TypeOK, TipoColas
  <2>4. nextTid' \in Seq(Nat)
    <3>1. nextTid' = [nextTid EXCEPT ![pid] = nextTid[pid] + 1]
      BY <1>2 DEF CrearHilo
    <3>3. nextTid[pid] + 1 \in Nat
      BY <2>1
    <3>2. nextTid \in Seq(Nat)
      BY DEF TypeOK, TipoProcesos
    <3> HIDE DEF pid
    <3> QED
      BY <2>1, <3>1, <3>2, <3>3, ExceptSeq
  <2>5. sinContexto' \subseteq Ids
    <3>1. sinContexto' \subseteq sinContexto \cup {IdDe(tcb)}
      BY <1>2 DEF CrearHilo
    <3> HIDE DEF tcb
    <3> QED
      BY <2>2, <3>1, IdTipo DEF TypeOK, TipoProcesos
  <2>6. TipoProcesos'
    BY <1>2, <2>4, <2>5 DEF CrearHilo, TypeOK, TipoProcesos
  <2>7. getTCB(<<pid, 0>>) \in TCBs
    BY getTCBTipo DEF TypeOK
  <2>8. TipoCadena' /\ CadenaOK'
    BY <1>2, <2>7, EnviarTipo DEF CrearHilo, TypeOK, CadenaOK
  <2> QED
    BY <1>2, <2>3, <2>6, <2>8 DEF CrearHilo, TypeOK
<1> QED
  BY <1>1, <1>2

\* THREAD_JOIN keeps the types.
LEMMA TipoJoin ==
  ASSUME IInv, NEW tid \in Nat, EntrarHilo(tid)
  PROVE  Bien
<1> USE SinCambio, ActualTipo DEF IInv, Bien
<1>1. CASE EstaEn(colaReadyHilo, <<hilo[1], tid>>)
  <2> DEFINE q == colaReadyHilo
             i == Posicion(q, <<hilo[1], tid>>)
             nuevo == [q[i] EXCEPT !.HilosBloqueados = Append(@, hilo[2])]
  <2>1. q \in Seq(TCBs) /\ i \in 1..Len(q) /\ q[i] \in TCBs
    BY <1>1, BuscarTipo, ElementOfSeq DEF TypeOK, TipoColas
  <2>2. nuevo \in TCBs
    BY <2>1, AppendProperties DEF TCBs
  <2>3. q' = [q EXCEPT ![i] = nuevo]
    BY <1>1 DEF EntrarHilo, joinHilo
  <2>4. q' \in Seq(TCBs)
    <3> HIDE DEF nuevo, i
    <3> QED
      BY <2>1, <2>2, <2>3, ExceptSeq
  <2>5. colaExecHilo' \in Seq(TCBs) /\ colaBlockHilo' \in Seq(TCBs)
    <3>1. /\ colaExecHilo' = eliminarHiloCola(colaExecHilo, IdDe(getTCB(hilo)))
          /\ colaBlockHilo' = Append(colaBlockHilo, getTCB(hilo))
      BY <1>1 DEF EntrarHilo, joinHilo
    <3> QED
      BY <3>1, EliminarTipo, AppendProperties DEF TypeOK, TipoColas
  <2>6. TipoCadena' /\ CadenaOK'
    BY <1>1, RetornarTipo DEF EntrarHilo, joinHilo, TypeOK, CadenaOK
  <2> QED
    BY <2>4, <2>5, <2>6 DEF EntrarHilo, TypeOK, TipoColas
<1>2. CASE ~EstaEn(colaReadyHilo, <<hilo[1], tid>>)
  <2>1. TipoCadena' /\ CadenaOK'
    BY <1>2, EnviarTipo DEF EntrarHilo, TypeOK, CadenaOK
  <2> QED
    BY <1>2, <2>1 DEF EntrarHilo, TypeOK
<1> QED
  BY <1>1, <1>2

\* The three syscalls of mutexes keep the types.
LEMMA TipoMutex ==
  ASSUME IInv, NEW nombre \in Nombres,
         CrearMutex(nombre) \/ BloquearMutex(nombre) \/ LiberarMutex(nombre)
  PROVE  Bien
<1> USE SinCambio, ActualTipo DEF IInv, Bien
<1> DEFINE ini == colaProcesosInicializados
           pid == hilo[1]
           ms == MutexesDe(pid)
           actual == getTCB(hilo)
<1>1. CASE CrearMutex(nombre)
  <2>1. mutexCreate(nombre) \in Mutexes
    BY EmptySeq DEF mutexCreate, Mutexes
  <2>2. pid \in DOMAIN ini /\ ini \in [DOMAIN ini -> Seq(Mutexes)]
    BY <1>1 DEF CrearMutex, Llama, TypeOK, TipoProcesos
  <2>3. Append(ini[pid], mutexCreate(nombre)) \in Seq(Mutexes)
    BY <2>1, <2>2, AppendProperties
  <2>4. ini' = [ini EXCEPT ![pid] = Append(ini[pid], mutexCreate(nombre))]
    BY <1>1 DEF CrearMutex
  <2>5. TipoProcesos'
    BY <1>1, <2>2, <2>3, <2>4 DEF CrearMutex, TypeOK, TipoProcesos
  <2>6. TipoCadena' /\ CadenaOK'
    BY <1>1, EnviarTipo DEF CrearMutex, TypeOK, CadenaOK
  <2> QED
    BY <1>1, <2>5, <2>6 DEF CrearMutex, TypeOK
<1>2. ASSUME ms # <<>>, NEW m \in Mutexes, ini' = [ini EXCEPT ![pid][1] = m],
             UNCHANGED <<colaProcesosSinIniciar, nextPid, nextTid, sinContexto>>
      PROVE  TipoProcesos'
  <2>1. pid \in DOMAIN ini /\ ini[pid] # <<>> /\ MutexesTipo(ini)
    BY <1>2, PrimerMutexTipo DEF TypeOK, TipoProcesos, MutexesTipo
  <2>2. MutexesTipo(ini')
    BY <1>2, <2>1, CambiarMutexTipo
  <2> QED
    BY <1>2, <2>2 DEF TypeOK, TipoProcesos, MutexesTipo
<1>3. ASSUME BloquearMutex(nombre), ms # <<>>, TomarMutex(actual)
      PROVE  Bien
  <2> DEFINE m == [ms[1] EXCEPT !.Bloqueado = TRUE, !.HiloUsando = actual.Tid]
  <2>1. m \in Mutexes
    BY <1>3, PrimerMutexTipo, IdTipo DEF Mutexes
  <2>2. TipoProcesos'
    BY <1>2, <1>3, <2>1 DEF TomarMutex, BloquearMutex
  <2>3. CASE EstaEn(colaExecHilo, IdDe(actual))
    <3>1. enviarTCBCpu(IdDe(actual)) /\
          pendientes' \in {pendientes, <<IdDe(actual)>> \o pendientes}
      BY <1>3, <2>3 DEF TomarMutex
    <3>2. pendientes' \in Seq(Ids)
      BY <3>1, IdTipo, IsASeqUno, ConcatProperties
    <3> QED
      BY <3>1, <3>2, <2>2, <1>3, EnviarTipo DEF TomarMutex, BloquearMutex, TypeOK, CadenaOK
  <2>4. CASE ~EstaEn(colaExecHilo, IdDe(actual))
    BY <2>2, <2>4, <1>3, RetornarTipo DEF TomarMutex, BloquearMutex, TypeOK, CadenaOK
  <2> QED
    BY <2>3, <2>4
<1>4. ASSUME BloquearMutex(nombre), ms # <<>>, EsperarMutex(actual)
      PROVE  Bien
  <2> DEFINE m == [ms[1] EXCEPT !.colaBloqueados = Append(@, actual)]
  <2>1. m \in Mutexes
    <3>1. ms[1] \in Mutexes /\ Append(ms[1].colaBloqueados, actual) \in Seq(TCBs)
      BY <1>4, PrimerMutexTipo, AppendProperties
    <3> HIDE DEF ms, actual
    <3> QED
      BY <3>1 DEF Mutexes
  <2>2. TipoProcesos'
    BY <1>2, <1>4, <2>1 DEF EsperarMutex, BloquearMutex
  <2>3. TipoColas'
    BY <1>4, EliminarTipo, AppendProperties DEF EsperarMutex, TypeOK, TipoColas
  <2>4. TipoCadena' /\ CadenaOK'
    BY <1>4, RetornarTipo DEF EsperarMutex, TypeOK, CadenaOK
  <2> QED
    BY <1>4, <2>2, <2>3, <2>4 DEF BloquearMutex, TypeOK
<1>5. CASE BloquearMutex(nombre) /\ UNCHANGED <<colas, ini, pendientes>>
           /\ (enviarTCBCpu(IdDe(actual)) \/ Retornar(ini))
  <2>1. TipoCadena' /\ CadenaOK'
    BY <1>5, RetornarTipo, EnviarTipo DEF TypeOK, CadenaOK
  <2>2. UNCHANGED procesos /\ UNCHANGED finales /\ UNCHANGED esperas
    BY <1>5 DEF BloquearMutex, procesos
  <2> QED
    BY <1>5, <2>1, <2>2 DEF TypeOK
<1>6. CASE LiberarMutex(nombre)
  <2>1. unlockMutex(pid, actual.Tid, nombre)
    BY <1>6 DEF LiberarMutex
  <2>2. TipoProcesos' /\ TipoColas'
    BY <1>6, <2>1, unlockMutexTipo
    DEF LiberarMutex, TypeOK, TipoProcesos, TipoColas, MutexesTipo
  <2>3. TipoCadena' /\ CadenaOK'
    BY <1>6, EnviarTipo DEF LiberarMutex, TypeOK, CadenaOK
  <2> QED
    BY <1>6, <2>2, <2>3 DEF LiberarMutex, TypeOK
<1>8. BloquearMutex(nombre) => Bien
  <2> HIDE DEF Bien, ms, ini, actual
  <2> QED
    BY <1>3, <1>4, <1>5 DEF BloquearMutex, ms, ini, actual
<1> QED
  BY <1>1, <1>6, <1>8

\* So does the rest of the loop of lockMutex.
LEMMA TipoSeguir ==
  ASSUME IInv, SeguirLockMutex
  PROVE  Bien
<1> USE SinCambio, ActualTipo DEF IInv, Bien
<1>1. Head(pendientes) \in Ids /\ Tail(pendientes) \in Seq(Ids)
  BY HeadTailProperties DEF SeguirLockMutex, CadenaOK
<1>2. TipoCadena' /\ CadenaOK'
  BY <1>1 DEF SeguirLockMutex, enviarTCBCpu, TypeOK, TipoCadena, CadenaOK
<1> QED
  BY <1>2 DEF SeguirLockMutex, TypeOK

\* Bloquear, shared by IO and DUMP_MEMORY.
LEMMA BloquearTipo ==
  ASSUME TypeOK, NEW tcb \in TCBs, NEW paso \in {"durmiendo", "dump"}, Bloquear(tcb, paso)
  PROVE  /\ colaExecHilo' \in Seq(TCBs) /\ colaBlockHilo' \in Seq(TCBs)
         /\ esperas' \subseteq Esperas
<1>1. [tcb |-> tcb, paso |-> paso] \in Esperas
  BY DEF Esperas
<1>2. /\ colaExecHilo' = eliminarHiloCola(colaExecHilo, IdDe(tcb))
      /\ colaBlockHilo' = Append(colaBlockHilo, tcb)
      /\ esperas' = esperas \cup {[tcb |-> tcb, paso |-> paso]}
  BY DEF Bloquear
<1> QED
  BY <1>1, <1>2, EliminarTipo, AppendProperties DEF TypeOK, TipoColas

\* IO and DUMP_MEMORY keep the types.
LEMMA TipoIoDump ==
  ASSUME IInv, ManejarIo \/ DumpMemory
  PROVE  Bien
<1> USE SinCambio, ActualTipo DEF IInv, Bien
<1>2. CASE ManejarIo
  <2>1. Bloquear(getTCB(hilo), "durmiendo")
    BY <1>2 DEF ManejarIo
  <2>2. TipoColas' /\ esperas' \subseteq Esperas
    BY <1>2, <2>1, BloquearTipo DEF ManejarIo, TypeOK, TipoColas
  <2>3. TipoCadena' /\ CadenaOK'
    BY <1>2, RetornarTipo DEF ManejarIo, TypeOK, CadenaOK
  <2> QED
    BY <1>2, <2>2, <2>3 DEF ManejarIo, TypeOK
<1>3. CASE DumpMemory
  <2>1. Bloquear(getTCB(hilo), "dump")
    BY <1>3 DEF DumpMemory
  <2>2. TipoColas' /\ esperas' \subseteq Esperas
    BY <1>3, <2>1, BloquearTipo DEF DumpMemory, TypeOK, TipoColas
  <2>3. TipoCadena' /\ CadenaOK'
    BY <1>3 DEF DumpMemory, TypeOK, TipoCadena, CadenaOK
  <2> QED
    BY <1>3, <2>2, <2>3 DEF DumpMemory, TypeOK
<1> QED
  BY <1>2, <1>3

\* The two steps of the goroutine of ManejarIo keep the types.
LEMMA TipoIo ==
  ASSUME IInv, NEW e \in esperas, TerminaIo(e) \/ EncolaIo(e)
  PROVE  Bien
<1> USE SinCambio DEF IInv, Bien
<1>1. e.tcb \in TCBs /\ [e EXCEPT !.paso = "encolar"] \in Esperas
  BY DEF TypeOK, Esperas
<1>4. ASSUME TipoColas', Reflejar, UNCHANGED <<colaExitHilo, saliendo>>
      PROVE  TipoFinales'
  BY <1>4, ReflejosDeTipo DEF Reflejar, TypeOK, TipoColas, TipoFinales
<1>5. ASSUME UNCHANGED cadena, UNCHANGED saliendo
      PROVE  TipoCadena' /\ CadenaOK'
  BY <1>5 DEF cadena, TypeOK, TipoCadena, CadenaOK
<1>6. CASE TerminaIo(e)
  <2>1. TipoColas'
    BY <1>6, CruceTipo DEF TerminaIo, TypeOK, TipoColas
  <2>2. esperas' \subseteq Esperas
    BY <1>6, CruceTipo DEF TerminaIo, TypeOK
  <2> QED
    BY <1>4, <1>5, <1>6, <2>1, <2>2 DEF TerminaIo, TypeOK
<1>7. CASE EncolaIo(e)
  <2>1. TipoColas'
    BY <1>1, <1>7, AppendProperties DEF EncolaIo, TypeOK, TipoColas
  <2>2. esperas' \subseteq Esperas
    BY <1>7 DEF EncolaIo, TypeOK
  <2> QED
    BY <1>4, <1>5, <1>7, <2>1, <2>2 DEF EncolaIo, TypeOK
<1> QED
  BY <1>6, <1>7

\* A loop of exitProcess starts on a queue of TCBs.
LEMMA BucleTipo ==
  ASSUME NEW pid \in Nat, NEW fase \in {"ready", "exec", "block", "memoria"},
         NEW cola \in Seq(TCBs)
  PROVE  Bucle(pid, fase, cola) \in Salida
  BY DEF Bucle, Salida

\* So do the calls that start exitProcess, and the answer to a dump.
LEMMA TipoSalir ==
  ASSUME IInv, NEW hecho,
         \/ \E e \in esperas : RespuestaDump(e, hecho)
         \/ FinalizarProceso \/ SegmentationFault
  PROVE  Bien
<1> USE SinCambio, ActualTipo DEF IInv, Bien
<1>1. ASSUME exitProcess(hilo[1]), UNCHANGED <<hilo, pendientes, colaExitHilo, saliendo>>
      PROVE  TipoCadena' /\ TipoFinales' /\ CadenaOK'
  <2>1. salida' \in Salida
    BY <1>1, BucleTipo DEF exitProcess, TypeOK, TipoColas
  <2> QED
    BY <1>1, <2>1 DEF exitProcess, TypeOK, TipoCadena, TipoFinales, CadenaOK
<1>2. ASSUME Retornar(colaProcesosInicializados),
             UNCHANGED <<pendientes, colaExitHilo, saliendo, salida>>
      PROVE  TipoCadena' /\ TipoFinales' /\ CadenaOK'
  BY <1>2, RetornarTipo DEF TypeOK, TipoFinales, CadenaOK
<1>3. CASE \E e \in esperas : RespuestaDump(e, hecho)
  <2>1. PICK e \in esperas : RespuestaDump(e, hecho)
    BY <1>3
  <2>2. e.tcb \in TCBs /\ esperas' \subseteq Esperas
    BY <2>1 DEF RespuestaDump, TypeOK, Esperas
  <2>3. TipoProcesos'
    BY <2>1 DEF RespuestaDump
  <2>4. TipoColas'
    <3>1. colaExecHilo' = colaExecHilo
      BY <2>1 DEF RespuestaDump
    <3>2. \/ UNCHANGED <<colaBlockHilo, colaReadyHilo>>
          \/ /\ colaBlockHilo' = eliminarHiloCola(colaBlockHilo, IdDe(e.tcb))
             /\ colaReadyHilo' = Append(colaReadyHilo, e.tcb)
      BY <2>1 DEF RespuestaDump
    <3>3. TipoColas
      BY DEF TypeOK
    <3>4. CASE UNCHANGED <<colaBlockHilo, colaReadyHilo>>
      BY <3>1, <3>3, <3>4 DEF TipoColas
    <3>5. CASE /\ colaBlockHilo' = eliminarHiloCola(colaBlockHilo, IdDe(e.tcb))
               /\ colaReadyHilo' = Append(colaReadyHilo, e.tcb)
      <4>1. colaBlockHilo' \in Seq(TCBs)
        BY <3>3, <3>5, EliminarTipo DEF TipoColas
      <4>2. colaReadyHilo' \in Seq(TCBs)
        BY <2>2, <3>3, <3>5, AppendProperties DEF TipoColas
      <4> QED
        BY <3>1, <3>3, <4>1, <4>2 DEF TipoColas
    <3> QED
      BY <3>2, <3>4, <3>5
  <2>5. TipoCadena' /\ TipoFinales' /\ CadenaOK'
    BY <1>1, <1>2, <2>1 DEF RespuestaDump
  <2> QED
    BY <2>2, <2>3, <2>4, <2>5 DEF TypeOK
<1>4. CASE FinalizarProceso
  <2>1. TipoCadena' /\ TipoFinales' /\ CadenaOK'
    BY <1>1, <1>2, <1>4 DEF FinalizarProceso
  <2> QED
    BY <1>4, <2>1 DEF FinalizarProceso, TypeOK
<1>5. CASE SegmentationFault
  <2>1. TipoCadena' /\ TipoFinales' /\ CadenaOK'
    BY <1>1, <1>5 DEF SegmentationFault
  <2> QED
    BY <1>5, <2>1 DEF SegmentationFault, TypeOK
<1> QED
  BY <1>3, <1>4, <1>5

\* THREAD_EXIT, THREAD_CANCEL and the wake-up of joined threads keep the types.
LEMMA TipoExitHilo ==
  ASSUME IInv, NEW tid \in Nat,
         DesbloquearHilosJoin \/ FinalizarHilo \/ CancelarHilo(tid) \/ VolverDeCancelar
  PROVE  Bien
<1> USE SinCambio, ActualTipo DEF IInv, Bien
<1>1. CASE DesbloquearHilosJoin
  <2> DEFINE id == <<saliendo.pid, Head(saliendo.faltan)>>
  <2>1. saliendo \in Saliendo /\ Tail(saliendo.faltan) \in Seq(Nat)
    BY <1>1, HeadTailProperties DEF DesbloquearHilosJoin, TypeOK, TipoFinales, Saliendo
  <2>2. saliendo' = [saliendo EXCEPT !.faltan = Tail(@)]
    BY <1>1 DEF DesbloquearHilosJoin
  <2>3. saliendo' \in Saliendo /\ saliendo'.luego = saliendo.luego
    BY <2>1, <2>2 DEF Saliendo
  <2>4. TipoColas'
    <3>1. CASE EstaEn(colaBlockHilo, id)
      <4>1. Buscar(colaBlockHilo, id) \in TCBs
        BY <3>1, BuscarTipo DEF TypeOK, TipoColas
      <4>2. /\ colaBlockHilo' = eliminarHiloCola(colaBlockHilo, id)
            /\ colaReadyHilo' = Append(colaReadyHilo, Buscar(colaBlockHilo, id))
            /\ colaExecHilo' = colaExecHilo
        BY <1>1, <3>1 DEF DesbloquearHilosJoin
      <4> QED
        BY <4>1, <4>2, EliminarTipo, AppendProperties DEF TypeOK, TipoColas
    <3>2. CASE ~EstaEn(colaBlockHilo, id)
      BY <1>1, <3>2 DEF DesbloquearHilosJoin, TypeOK, TipoColas
    <3> QED
      BY <3>1, <3>2
  <2>5. TipoFinales'
    BY <1>1, <2>3, <2>4, ReflejosDeTipo
    DEF DesbloquearHilosJoin, Reflejar, TypeOK, TipoColas, TipoFinales
  <2>6. TipoCadena' /\ CadenaOK'
    BY <1>1, <2>3 DEF DesbloquearHilosJoin, cadena, TypeOK, TipoCadena, CadenaOK
  <2> QED
    BY <1>1, <2>4, <2>5, <2>6 DEF DesbloquearHilosJoin, TypeOK
<1>2. ASSUME NEW t \in Nat, NEW luego \in {"fin", "cancelado"}, exitHilo(hilo[1], t, luego),
             UNCHANGED <<procesos, hilo, pendientes, salida, esperas>>
      PROVE  Bien
  <2>1. /\ TipoColas' /\ colaExitHilo' \subseteq Ids /\ saliendo' \in Saliendo
        /\ saliendo'.luego = luego /\ pc' = "exitHilo"
    BY <1>2, exitHiloTipo
  <2>2. TipoCadena' /\ TipoFinales' /\ CadenaOK'
    BY <1>2, <2>1 DEF TypeOK, TipoCadena, TipoFinales, CadenaOK
  <2> QED
    BY <1>2, <2>1, <2>2 DEF TypeOK
<1>3. CASE FinalizarHilo
  BY <1>2, <1>3 DEF FinalizarHilo
<1>4. CASE CancelarHilo(tid)
  BY <1>2, <1>4 DEF CancelarHilo
<1>5. CASE VolverDeCancelar
  <2>1. TipoCadena' /\ CadenaOK'
    BY <1>5, EnviarTipo DEF VolverDeCancelar, TypeOK, CadenaOK
  <2> QED
    BY <1>5, <2>1 DEF VolverDeCancelar, TypeOK
<1> QED
  BY <1>1, <1>3, <1>4, <1>5

\* The end of exitHilo keeps the types.
LEMMA TipoLiberarAlSalir ==
  ASSUME IInv, LiberarAlSalir
  PROVE  Bien
<1> USE SinCambio DEF IInv, Bien
<1> DEFINE ms == MutexesDe(saliendo.pid)
           tid == saliendo.hilo.Tid
<1>1. /\ colaReadyHilo' \in Seq(TCBs) /\ colaBlockHilo' \in Seq(TCBs)
      /\ MutexesTipo(colaProcesosInicializados')
  <2>1. \/ unlockMutex(saliendo.pid, tid, getMutexUsando(ms, tid).Nombre)
        \/ UNCHANGED <<colaProcesosInicializados, colaReadyHilo, colaBlockHilo>>
    BY DEF LiberarAlSalir
  <2>2. CASE unlockMutex(saliendo.pid, tid, getMutexUsando(ms, tid).Nombre)
    BY <2>2, unlockMutexTipo
  <2>3. CASE UNCHANGED <<colaProcesosInicializados, colaReadyHilo, colaBlockHilo>>
    BY <2>3 DEF TypeOK, TipoColas, TipoProcesos, MutexesTipo
  <2> QED
    BY <2>1, <2>2, <2>3
<1>2. TipoColas' /\ TipoProcesos'
  BY <1>1 DEF LiberarAlSalir, TypeOK, TipoColas, TipoProcesos, MutexesTipo
<1>3. SinSalir \in Saliendo
  BY EmptySeq, TCBNuloTipo DEF SinSalir, Saliendo
<1>4. TipoFinales'
  BY <1>1, <1>3, ReflejosDeTipo DEF LiberarAlSalir, Reflejar, TypeOK, TipoFinales
<1>5. TipoCadena' /\ CadenaOK'
  <2>1. pc = "exitHilo" /\ pendientes' = pendientes
    BY DEF LiberarAlSalir
  <2>2. saliendo.luego \in {"fin", "cancelado", "exitProcess"}
    BY <2>1 DEF CadenaOK, TypeOK, TipoFinales, Saliendo
  <2>3. CASE Retornar(colaProcesosInicializados)
    BY <2>1, <2>3, RetornarTipo DEF TypeOK, CadenaOK
  <2>4. CASE saliendo.luego # "fin" /\ pc' = saliendo.luego /\ UNCHANGED hilo
    BY <2>1, <2>2, <2>4 DEF TypeOK, TipoCadena, CadenaOK
  <2> QED
    BY <2>3, <2>4 DEF LiberarAlSalir
<1> QED
  BY <1>2, <1>4, <1>5 DEF LiberarAlSalir, TypeOK

\* The steps of exitProcess keep the types.
LEMMA TipoExitProcess ==
  ASSUME IInv, NEW abre,
         \/ RecorrerCola \/ SiguienteCola \/ TerminarProceso
         \/ IniciarPendiente(abre) \/ FinExitProcess
  PROVE  Bien
<1> USE SinCambio DEF IInv, Bien
<1>1. CASE RecorrerCola
  <2> DEFINE avanzada == [salida EXCEPT !.i = @ + 1]
             tcb == salida.arr[salida.i]
  <2>1. salida \in Salida /\ salida.pid \in Nat /\ avanzada \in Salida
    BY DEF TypeOK, TipoFinales, Salida
  <2>2. tcb \in TCBs /\ tcb.Tid \in Nat
    BY <1>1, <2>1, ElementOfSeq, IdTipo DEF RecorrerCola, Salida
  <2>3. CASE exitHilo(salida.pid, tcb.Tid, "exitProcess")
    <3>1. /\ TipoColas' /\ colaExitHilo' \subseteq Ids /\ saliendo' \in Saliendo
          /\ saliendo'.luego = "exitProcess" /\ pc' = "exitHilo"
      BY <2>1, <2>2, <2>3, exitHiloTipo
    <3>2. salida' \in Salida
      BY <1>1, <2>1, <3>1, ReflejosDeTipo DEF RecorrerCola, TipoColas
    <3>3. TipoCadena' /\ TipoFinales' /\ CadenaOK'
      BY <1>1, <3>1, <3>2 DEF RecorrerCola, TypeOK, TipoCadena, TipoFinales, CadenaOK
    <3> QED
      BY <1>1, <3>1, <3>3 DEF RecorrerCola, TypeOK
  <2>4. CASE UNCHANGED <<colas, colaExitHilo, saliendo, pc>>
    <3>1. TipoColas' /\ colaReadyHilo' \in Seq(TCBs) /\ colaBlockHilo' \in Seq(TCBs)
      BY <2>4 DEF TypeOK, TipoColas
    <3>2. salida' \in Salida
      BY <1>1, <2>1, <3>1, ReflejosDeTipo DEF RecorrerCola
    <3>3. TipoCadena' /\ TipoFinales' /\ CadenaOK'
      BY <1>1, <2>4, <3>2 DEF RecorrerCola, TypeOK, TipoCadena, TipoFinales, CadenaOK
    <3> QED
      BY <1>1, <3>1, <3>3 DEF RecorrerCola, TypeOK
  <2> QED
    BY <1>1, <2>3, <2>4 DEF RecorrerCola
<1>2. CASE SiguienteCola
  <2>1. salida.pid \in Nat
    BY DEF TypeOK, TipoFinales, Salida
  <2>2. salida' \in Salida
    BY <1>2, <2>1, BucleTipo, EmptySeq DEF SiguienteCola, TypeOK, TipoColas
  <2>3. TipoCadena' /\ TipoFinales' /\ CadenaOK'
    BY <1>2, <2>2 DEF SiguienteCola, cadena, TypeOK, TipoCadena, TipoFinales, CadenaOK
  <2> QED
    BY <1>2, <2>3 DEF SiguienteCola, TypeOK
<1>3. CASE TerminarProceso
  <2>1. TipoColas' /\ esperas' \subseteq Esperas
    BY <1>3 DEF TerminarProceso, TypeOK
  <2>2. TipoCadena' /\ CadenaOK'
    BY <1>3 DEF TerminarProceso, EnFase, TypeOK, TipoCadena, CadenaOK
  <2>3. TipoFinales'
    BY <1>3 DEF TerminarProceso, TypeOK, TipoFinales, Salida
  <2>4. TipoProcesos'
    BY <1>3 DEF TerminarProceso, TypeOK, TipoProcesos
  <2> QED
    BY <2>1, <2>2, <2>3, <2>4 DEF TypeOK
<1>4. CASE IniciarPendiente(abre)
  <2> DEFINE S == [Pid : Nat, Prioridad : Nat]
             q == colaProcesosSinIniciar
  <2>1. Head(q) \in S /\ Tail(q) \in Seq(S) /\ 1 \in DOMAIN q /\ Head(q) = q[1]
    <3> HIDE DEF S
    <3>1. q \in Seq(S) /\ q # <<>>
      BY <1>4 DEF IniciarPendiente, TypeOK, TipoProcesos, S
    <3> QED
      BY <3>1, HeadTailProperties, EmptySeq, LenProperties
  <2>2. Head(q).Pid = Len(nextTid) + 1 /\ Head(q).Prioridad \in Nat
    BY <2>1 DEF PidsEnOrden
  <2>3. ArrancarProceso(Head(q).Pid, Head(q).Prioridad, abre)
    BY <1>4 DEF IniciarPendiente
  <2>4. TipoProcesos' /\ colaReadyHilo' \in Seq(TCBs)
    BY <1>4, <2>1, <2>2, <2>3, ArrancarTipo DEF IniciarPendiente, TypeOK, TipoProcesos
  <2>5. TipoColas'
    BY <1>4, <2>4 DEF IniciarPendiente, TypeOK, TipoColas
  <2>6. TipoCadena' /\ CadenaOK' /\ TipoFinales'
    BY <1>4 DEF IniciarPendiente, finales, cadena, TypeOK, TipoCadena, CadenaOK, TipoFinales
  <2> QED
    BY <1>4, <2>4, <2>5, <2>6 DEF IniciarPendiente, TypeOK
<1>5. CASE FinExitProcess
  <2>1. SinSalida \in Salida
    BY EmptySeq DEF SinSalida, Salida
  <2>2. TipoCadena' /\ CadenaOK'
    BY <1>5, RetornarTipo DEF FinExitProcess, TypeOK, CadenaOK
  <2> QED
    BY <1>5, <2>1, <2>2 DEF FinExitProcess, TypeOK, TipoFinales
<1> QED
  BY <1>1, <1>2, <1>3, <1>4, <1>5

\* The searches of block that a goroutine of IO crosses keep the types.
LEMMA TipoCruce ==
  ASSUME IInv, NEW e \in esperas, NEW tid \in Nat,
         DesbloquearCruzado(e) \/ RecorrerCruzado(e) \/ CancelarCruzado(tid, e)
  PROVE  Bien
<1> USE SinCambio, ActualTipo DEF IInv, Bien
<1>1. CASE DesbloquearCruzado(e)
  <2> DEFINE id == <<saliendo.pid, Head(saliendo.faltan)>>
             tcb == Buscar(colaBlockHilo, id)
             block == SinSuHilo(e)
  <2>1. saliendo \in Saliendo /\ Tail(saliendo.faltan) \in Seq(Nat)
    BY <1>1, HeadTailProperties DEF DesbloquearCruzado, TypeOK, TipoFinales, Saliendo
  <2>2. saliendo' = [saliendo EXCEPT !.faltan = Tail(@)]
    BY <1>1 DEF DesbloquearCruzado
  <2>3. saliendo' \in Saliendo /\ saliendo'.luego = saliendo.luego
    BY <2>1, <2>2 DEF Saliendo
  <2>4. esperas' \subseteq Esperas /\ block \in Seq(TCBs)
    BY <1>1, CruceTipo DEF DesbloquearCruzado
  <2>5. ASSUME salida' \in Salida, TipoColas'
        PROVE  Bien
    <3>1. TipoFinales'
      BY <1>1, <2>3, <2>5 DEF DesbloquearCruzado, TypeOK, TipoFinales
    <3>2. TipoCadena' /\ CadenaOK'
      BY <1>1, <2>3 DEF DesbloquearCruzado, cadena, TypeOK, TipoCadena, CadenaOK
    <3> QED
      BY <1>1, <2>4, <2>5, <3>1, <3>2 DEF DesbloquearCruzado, TypeOK
  <2>6. salida \in Salida
    BY DEF TypeOK, TipoFinales
  <2>7. CASE colaBlockHilo' = block /\ UNCHANGED colaReadyHilo /\ Reflejar
    <3>1. TipoColas'
      BY <1>1, <2>4, <2>7 DEF DesbloquearCruzado, TypeOK, TipoColas
    <3>2. salida' \in Salida
      BY <2>6, <2>7, <3>1, ReflejosDeTipo DEF Reflejar, TipoColas
    <3> QED
      BY <2>5, <3>1, <3>2
  <2>8. CASE /\ LoRepite(e, id)
             /\ colaBlockHilo' = <<>> /\ colaReadyHilo' = colaReadyHilo \o <<tcb, tcb>>
             /\ IF salida.fase = "block"
                THEN \E s \in Reflejos(salida, colaBlockHilo, block) :
                       salida' = [s EXCEPT !.alias = FALSE]
                ELSE Reflejar
    <3>1. tcb \in TCBs
      BY <2>8, BuscarTipo DEF LoRepite, SeCruza, TypeOK, TipoColas
    <3>2. <<tcb, tcb>> \in Seq(TCBs)
      <4> HIDE DEF tcb
      <4> QED
        BY <3>1
    <3>3. colaReadyHilo' \in Seq(TCBs)
      <4> HIDE DEF tcb
      <4> QED
        BY <2>8, <3>2, ConcatProperties DEF TypeOK, TipoColas
    <3>4. TipoColas'
      BY <1>1, <2>8, <3>3, EmptySeq DEF DesbloquearCruzado, TypeOK, TipoColas
    <3>5. CASE salida.fase = "block"
      <4>1. PICK s \in Reflejos(salida, colaBlockHilo, block) : salida' = [s EXCEPT !.alias = FALSE]
        BY <2>8, <3>5
      <4>2. s \in Salida
        BY <2>4, <2>6, ReflejosTipo
      <4>3. salida' \in Salida
        <5> HIDE DEF block
        <5> QED
          BY <4>1, <4>2 DEF Salida
      <4> QED
        BY <2>5, <3>4, <4>3
    <3>6. CASE salida.fase # "block"
      BY <2>5, <2>6, <2>8, <3>4, <3>6, ReflejosDeTipo DEF Reflejar, TipoColas
    <3> QED
      BY <3>5, <3>6
  <2> HIDE DEF block
  <2>9. \/ colaBlockHilo' = block /\ UNCHANGED colaReadyHilo /\ Reflejar
        \/ /\ LoRepite(e, id)
           /\ colaBlockHilo' = <<>> /\ colaReadyHilo' = colaReadyHilo \o <<tcb, tcb>>
           /\ IF salida.fase = "block"
              THEN \E s \in Reflejos(salida, colaBlockHilo, block) :
                     salida' = [s EXCEPT !.alias = FALSE]
              ELSE Reflejar
    BY <1>1 DEF DesbloquearCruzado, block
  <2> QED
    BY <2>7, <2>8, <2>9
<1>2. CASE RecorrerCruzado(e)
  <2> DEFINE avanzada == [salida EXCEPT !.i = @ + 1]
             tcb == salida.arr[salida.i]
  <2>1. salida \in Salida /\ salida.pid \in Nat /\ avanzada \in Salida
    BY DEF TypeOK, TipoFinales, Salida
  <2>2. exitHiloCruzado(salida.pid, tcb.Tid, "exitProcess", e)
    BY <1>2 DEF RecorrerCruzado
  <2>3. /\ TipoColas' /\ esperas' \subseteq Esperas
        /\ colaExitHilo' \subseteq Ids /\ saliendo' \in Saliendo
        /\ saliendo'.luego = "exitProcess" /\ pc' = "exitHilo"
    BY <2>1, <2>2, exitHiloCruzadoTipo
  <2>4. salida' \in Salida
    BY <1>2, <2>1, <2>3, ReflejosDeTipo DEF RecorrerCruzado, TipoColas
  <2>5. TipoCadena' /\ TipoFinales' /\ CadenaOK'
    BY <1>2, <2>3, <2>4 DEF RecorrerCruzado, TypeOK, TipoCadena, TipoFinales, CadenaOK
  <2> QED
    BY <1>2, <2>3, <2>5 DEF RecorrerCruzado, TypeOK
<1>3. CASE CancelarCruzado(tid, e)
  <2>1. exitHiloCruzado(hilo[1], tid, "cancelado", e)
    BY <1>3 DEF CancelarCruzado
  <2>2. /\ TipoColas' /\ esperas' \subseteq Esperas
        /\ colaExitHilo' \subseteq Ids /\ saliendo' \in Saliendo
        /\ saliendo'.luego = "cancelado" /\ pc' = "exitHilo"
    BY <2>1, exitHiloCruzadoTipo
  <2>3. TipoCadena' /\ TipoFinales' /\ CadenaOK'
    BY <1>3, <2>2 DEF CancelarCruzado, TypeOK, TipoCadena, TipoFinales, CadenaOK
  <2> QED
    BY <1>3, <2>2, <2>3 DEF CancelarCruzado, TypeOK
<1> QED
  BY <1>1, <1>2, <1>3

-----------------------------------------------------------------------------
(* Pids *)

\* Only the admission of processes touches what PidsEnOrden relates.
LEMMA PidsIgual ==
  ASSUME IInv, UNCHANGED <<colaProcesosSinIniciar, nextPid>>, Len(nextTid') = Len(nextTid),
         DOMAIN colaProcesosInicializados' \subseteq DOMAIN colaProcesosInicializados
  PROVE  PidsEnOrden'
  BY DEF IInv, PidsEnOrden, Pids

\* PROCESS_CREATE: the process starts with the pid after the last slot of
\* nextTid, or waits behind those that wait already.
LEMMA PidsCrear ==
  ASSUME IInv, NEW prioridad \in Nat, NEW hay, NEW abre, CrearProceso(prioridad, hay, abre)
  PROVE  PidsEnOrden'
<1> DEFINE q == colaProcesosSinIniciar
           S == [Pid : Nat, Prioridad : Nat]
           proceso == [Pid |-> nextPid, Prioridad |-> prioridad]
<1>1. /\ q \in Seq(S) /\ nextPid \in Nat /\ nextTid \in Seq(Nat) /\ proceso \in S
      /\ Len(nextTid) \in Nat /\ Len(q) \in Nat /\ DOMAIN q = 1..Len(q)
      /\ TipoProcesos /\ TipoColas
  BY LenProperties DEF IInv, TypeOK, TipoProcesos
<1>2. /\ Len(nextTid) + Len(q) = nextPid - 1
      /\ \A i \in 1..Len(q) : q[i].Pid = Len(nextTid) + i
      /\ DOMAIN colaProcesosInicializados \subseteq 1..Len(nextTid)
  BY <1>1 DEF IInv, PidsEnOrden, Pids
<1>3. nextPid' = nextPid + 1
  BY DEF CrearProceso
<1>4. CASE hay /\ q = <<>>
  <2>1. Len(q) = 0 /\ nextPid = Len(nextTid) + 1
    BY <1>1, <1>2, <1>4, EmptySeq
  <2>2. ArrancarProceso(nextPid, prioridad, abre) /\ q' = q
    BY <1>4 DEF CrearProceso
  <2>3. /\ Len(nextTid') = Len(nextTid) + 1
        /\ DOMAIN colaProcesosInicializados' = DOMAIN colaProcesosInicializados \cup {nextPid}
    BY <1>1, <2>1, <2>2, ArrancarTipo
  <2> QED
    BY <1>1, <1>2, <1>3, <1>4, <2>1, <2>2, <2>3 DEF PidsEnOrden, Pids
<1>5. CASE ~(hay /\ q = <<>>)
  <2>1. q' = Append(q, proceso) /\ UNCHANGED <<nextTid, colaProcesosInicializados>>
    BY <1>5 DEF CrearProceso
  <2>2. /\ Len(q') = Len(q) + 1 /\ q' \in Seq(S)
        /\ \A i \in 1..Len(q) : q'[i] = q[i]
        /\ q'[Len(q) + 1] = proceso
    <3> HIDE DEF S, proceso
    <3> QED
      BY <1>1, <2>1, AppendProperties
  <2>3. DOMAIN q' = 1..(Len(q) + 1)
    BY <2>2, LenProperties
  <2>4. ASSUME NEW i \in 1..(Len(q) + 1) PROVE q'[i].Pid = Len(nextTid) + i
    <3>1. CASE i \in 1..Len(q)
      BY <1>2, <2>2, <3>1
    <3>2. CASE i = Len(q) + 1
      <4>1. q'[i].Pid = nextPid
        BY <2>2, <3>2
      <4> QED
        BY <1>1, <1>2, <3>2, <4>1
    <3> QED
      BY <1>1, <3>1, <3>2
  <2> QED
    BY <1>1, <1>2, <1>3, <2>1, <2>2, <2>3, <2>4 DEF PidsEnOrden, Pids
<1> QED
  BY <1>4, <1>5

\* When a process ends, the first that waits takes the next slot.
LEMMA PidsIniciar ==
  ASSUME IInv, NEW abre, IniciarPendiente(abre)
  PROVE  PidsEnOrden'
<1> DEFINE q == colaProcesosSinIniciar
           S == [Pid : Nat, Prioridad : Nat]
<1>1. /\ q \in Seq(S) /\ q # <<>> /\ nextTid \in Seq(Nat) /\ nextPid \in Nat
      /\ Len(nextTid) \in Nat /\ TipoProcesos /\ TipoColas
  BY LenProperties DEF IInv, TypeOK, TipoProcesos, IniciarPendiente
<1>2. /\ Len(q) \in Nat \ {0} /\ DOMAIN q = 1..Len(q) /\ Head(q) = q[1] /\ q[1] \in S
      /\ Tail(q) \in Seq(S) /\ Len(Tail(q)) = Len(q) - 1
      /\ DOMAIN Tail(q) = 1..(Len(q) - 1)
      /\ \A i \in 1..(Len(q) - 1) : Tail(q)[i] = q[i + 1]
  <2> HIDE DEF S
  <2> QED
    BY <1>1, HeadTailProperties, EmptySeq, LenProperties, ElementOfSeq
<1>3. /\ Len(nextTid) + Len(q) = nextPid - 1
      /\ \A i \in 1..Len(q) : q[i].Pid = Len(nextTid) + i
      /\ DOMAIN colaProcesosInicializados \subseteq 1..Len(nextTid)
  BY <1>2 DEF IInv, PidsEnOrden, Pids
<1>4. ArrancarProceso(Head(q).Pid, Head(q).Prioridad, abre) /\ q' = Tail(q) /\ nextPid' = nextPid
  BY DEF IniciarPendiente
<1>5. Head(q).Pid = Len(nextTid) + 1 /\ Head(q).Prioridad \in Nat
  BY <1>2, <1>3
<1>6. /\ Len(nextTid') = Len(nextTid) + 1
      /\ DOMAIN colaProcesosInicializados' =
           DOMAIN colaProcesosInicializados \cup {Len(nextTid) + 1}
  BY <1>1, <1>4, <1>5, ArrancarTipo
<1>7. ASSUME NEW i \in 1..(Len(q) - 1) PROVE q'[i].Pid = Len(nextTid) + 1 + i
  <2>1. i + 1 \in 1..Len(q) /\ q'[i] = q[i + 1]
    BY <1>2, <1>4
  <2> QED
    BY <1>1, <1>3, <2>1
<1>8. Len(nextTid') + Len(q') = nextPid' - 1
  BY <1>1, <1>2, <1>3, <1>4, <1>6
<1>9. \A i \in DOMAIN q' : q'[i].Pid = Len(nextTid') + i
  BY <1>2, <1>4, <1>6, <1>7
<1>10. DOMAIN colaProcesosInicializados' \subseteq 1..Len(nextTid')
  BY <1>1, <1>3, <1>6
<1> QED
  BY <1>8, <1>9, <1>10 DEF PidsEnOrden, Pids

-----------------------------------------------------------------------------
(* Every step *)

\* The kernel starts in the invariant, whether the first process fits or not.
LEMMA InitInv == Init => IInv
<1> SUFFICES ASSUME Init PROVE IInv
  OBVIOUS
<1> DEFINE tcb == [Pid |-> 1, Tid |-> 0, Prioridad |-> 0, HilosBloqueados |-> <<>>]
           proceso == [Pid |-> 1, Prioridad |-> 0]
<1>1. tcb \in TCBs /\ IdDe(tcb) = <<1, 0>> /\ <<1, 0>> \in Ids /\ proceso \in [Pid : Nat, Prioridad : Nat]
  BY EmptySeq DEF TCBs, IdDe, Ids
<1>2. SinSalir \in Saliendo /\ SinSalida \in Salida
  BY EmptySeq, TCBNuloTipo DEF SinSalir, Saliendo, SinSalida, Salida
<1>3. PICK hay \in BOOLEAN, abre \in BOOLEAN :
        /\ colaReadyHilo = IF hay THEN <<tcb>> ELSE <<>>
        /\ colaProcesosInicializados = IF hay THEN [p \in {1} |-> <<>>] ELSE [p \in {} |-> <<>>]
        /\ colaProcesosSinIniciar = IF hay THEN <<>> ELSE <<proceso>>
        /\ nextPid = 2
        /\ nextTid = IF hay THEN <<1>> ELSE <<>>
        /\ sinContexto = IF hay /\ ~abre THEN {<<1, 0>>} ELSE {}
        /\ pc = IF hay THEN "libre" ELSE "detenido"
        /\ colaExecHilo = <<>> /\ colaBlockHilo = <<>> /\ colaExitHilo = {}
        /\ esperas = {} /\ hilo = NingunHilo /\ pendientes = <<>>
        /\ saliendo = SinSalir /\ salida = SinSalida
  BY DEF Init
<1>4. TipoColas
  BY <1>1, <1>3, EmptySeq, IsASeqUno DEF TipoColas
<1>5. TipoProcesos
  <2>1. <<1>> \in Seq(Nat) /\ <<>> \in Seq(Nat) /\ nextPid \in Nat
    BY <1>3, EmptySeq, IsASeqUno
  <2>2. colaProcesosSinIniciar \in Seq([Pid : Nat, Prioridad : Nat])
    BY <1>1, <1>3, EmptySeq, IsASeqUno
  <2>3. colaProcesosInicializados \in [DOMAIN colaProcesosInicializados -> Seq(Mutexes)]
    BY <1>3, EmptySeq
  <2>4. sinContexto \subseteq Ids
    BY <1>1, <1>3
  <2> QED
    BY <1>3, <2>1, <2>2, <2>3, <2>4 DEF TipoProcesos
<1>6. TipoCadena /\ CadenaOK
  BY <1>3, EmptySeq, NingunHiloTipo DEF TipoCadena, CadenaOK
<1>7. TipoFinales /\ esperas \subseteq Esperas
  BY <1>2, <1>3 DEF TipoFinales
<1>8. PidsEnOrden
  <2>1. CASE hay
    <3>1. Len(nextTid) = 1 /\ Len(colaProcesosSinIniciar) = 0 /\ DOMAIN colaProcesosSinIniciar = {}
      BY <1>3, <2>1
    <3>2. DOMAIN colaProcesosInicializados = {1}
      BY <1>3, <2>1
    <3> QED
      BY <1>3, <3>1, <3>2 DEF PidsEnOrden, Pids
  <2>2. CASE ~hay
    <3>1. Len(nextTid) = 0 /\ Len(colaProcesosSinIniciar) = 1 /\ DOMAIN colaProcesosSinIniciar = {1}
      BY <1>3, <2>2
    <3>2. DOMAIN colaProcesosInicializados = {} /\ colaProcesosSinIniciar[1].Pid = 1
      BY <1>3, <2>2
    <3> QED
      BY <1>3, <3>1, <3>2 DEF PidsEnOrden, Pids
  <2> QED
    BY <2>1, <2>2
<1> QED
  BY <1>4, <1>5, <1>6, <1>7, <1>8 DEF IInv, TypeOK

\* A step that admits no process changes none of them, but for the one that ends.
LEMMA ProcesosOtros ==
  ASSUME IInv, Next,
         \A p \in Prioridades, hay, abre \in BOOLEAN : ~CrearProceso(p, hay, abre),
         \A abre \in BOOLEAN : ~IniciarPendiente(abre)
  PROVE  /\ UNCHANGED <<colaProcesosSinIniciar, nextPid>>
         /\ Len(nextTid') = Len(nextTid)
         /\ DOMAIN colaProcesosInicializados' \subseteq DOMAIN colaProcesosInicializados
         /\ TerminarProceso \/ DOMAIN colaProcesosInicializados' = DOMAIN colaProcesosInicializados
<1> DEFINE Igual == /\ UNCHANGED <<colaProcesosSinIniciar, nextPid>>
                    /\ Len(nextTid') = Len(nextTid)
                    /\ DOMAIN colaProcesosInicializados' = DOMAIN colaProcesosInicializados
<1>1. UNCHANGED procesos => Igual
  BY DEF procesos
<1>2. ASSUME NEW p \in Prioridades, NEW abre \in BOOLEAN, CrearHilo(p, abre) PROVE Igual
  <2>1. hilo[1] \in 1..Len(nextTid) /\ nextTid[hilo[1]] + 1 \in Nat /\ nextTid \in Seq(Nat)
    <3>1. hilo[1] \in 1..Len(nextTid) /\ nextTid \in Seq(Nat)
      BY <1>2 DEF CrearHilo, Llama, IInv, PidsEnOrden, Pids, TypeOK, TipoProcesos
    <3>2. nextTid[hilo[1]] \in Nat
      BY <3>1, ElementOfSeq
    <3> QED
      BY <3>1, <3>2
  <2>2. nextTid' = [nextTid EXCEPT ![hilo[1]] = nextTid[hilo[1]] + 1]
    BY <1>2 DEF CrearHilo
  <2>3. Len(nextTid') = Len(nextTid)
    BY <2>1, <2>2, ExceptSeq
  <2> QED
    BY <1>2, <2>3 DEF CrearHilo
<1>3. ASSUME NEW n \in Nombres, CrearMutex(n) PROVE Igual
  BY <1>3 DEF CrearMutex, IInv, TypeOK, TipoProcesos
<1>4. ASSUME NEW n \in Nombres, BloquearMutex(n) PROVE Igual
  BY <1>4 DEF BloquearMutex, TomarMutex, EsperarMutex, IInv, TypeOK, TipoProcesos
<1>5. ASSUME NEW n \in Nombres, LiberarMutex(n) PROVE Igual
  BY <1>5, unlockMutexTipo DEF LiberarMutex, IInv
<1>6. ASSUME LiberarAlSalir PROVE Igual
  <2> DEFINE ms == MutexesDe(saliendo.pid)
             tid == saliendo.hilo.Tid
  <2>1. \/ unlockMutex(saliendo.pid, tid, getMutexUsando(ms, tid).Nombre)
        \/ UNCHANGED colaProcesosInicializados
    BY <1>6 DEF LiberarAlSalir
  <2> QED
    BY <1>6, <2>1, unlockMutexTipo DEF LiberarAlSalir, IInv
<1>7. TerminarProceso => /\ UNCHANGED <<colaProcesosSinIniciar, nextPid, nextTid>>
                         /\ DOMAIN colaProcesosInicializados' \subseteq DOMAIN colaProcesosInicializados
  BY DEF TerminarProceso
<1>8. \/ \E p \in Prioridades, abre \in BOOLEAN : CrearHilo(p, abre)
      \/ \E n \in Nombres : CrearMutex(n) \/ BloquearMutex(n) \/ LiberarMutex(n)
      \/ LiberarAlSalir \/ TerminarProceso
      \/ UNCHANGED procesos
  BY DEF Next, Syscall, DejaCpu, PasoKernel, Cruce, Terminado, vars, EntrarHilo, CancelarHilo, DumpMemory,
         DesbloquearCruzado, RecorrerCruzado, CancelarCruzado,
         ManejarIo, FinalizarHilo, FinalizarProceso, SegmentationFault, DevolverPidTid,
         ejecutarInstruccion, RecibirPIDyTID, RafagaSinSyscall, SeguirLockMutex, RespuestaDump,
         DesbloquearHilosJoin, VolverDeCancelar, RecorrerCola, SiguienteCola, FinExitProcess,
         TerminaIo, EncolaIo
<1> HIDE DEF Igual
<1>9. Igual \/ TerminarProceso
  BY <1>1, <1>2, <1>3, <1>4, <1>5, <1>6, <1>8
<1> QED
  BY <1>7, <1>9 DEF Igual

\* The pids of such a step.
LEMMA PidsOtros ==
  ASSUME IInv, Next,
         \A p \in Prioridades, hay, abre \in BOOLEAN : ~CrearProceso(p, hay, abre),
         \A abre \in BOOLEAN : ~IniciarPendiente(abre)
  PROVE  PidsEnOrden'
  BY ProcesosOtros, PidsIgual

\* Every step keeps PidsEnOrden.
LEMMA PidsPaso == IInv /\ Next => PidsEnOrden'
<1> SUFFICES ASSUME IInv, Next PROVE PidsEnOrden'
  OBVIOUS
<1>1. Prioridades \subseteq Nat
  BY KernelAssumption
<1> QED
  BY <1>1, PidsCrear, PidsIniciar, PidsOtros

\* Every step keeps the types and the relation of pc with saliendo.
LEMMA TipoPaso == IInv /\ Next => Bien
<1> SUFFICES ASSUME IInv, Next PROVE Bien
  OBVIOUS
<1>1. Prioridades \subseteq Nat /\ Tids \subseteq Nat
  BY KernelAssumption DEF Tids
<1>2. CASE Syscall
  BY <1>1, <1>2, TipoCrear, TipoJoin, TipoExitHilo, TipoMutex, TipoIoDump DEF Syscall
<1>3. CASE DejaCpu
  BY <1>3, TipoIoDump, TipoExitHilo, TipoSalir, TipoDespacho DEF DejaCpu
<1>4. CASE PasoKernel
  BY <1>4, TipoDespacho, TipoSeguir, TipoSalir, TipoExitHilo, TipoLiberarAlSalir, TipoExitProcess
  DEF PasoKernel
<1>5. CASE \E e \in esperas : TerminaIo(e) \/ EncolaIo(e)
  BY <1>5, TipoIo
<1>6. CASE Terminado
  BY <1>6 DEF Terminado, vars, colas, procesos, cadena, finales, Bien, IInv, TypeOK, TipoColas,
              TipoProcesos, TipoCadena, TipoFinales, CadenaOK
<1>7. CASE Cruce
  BY <1>1, <1>7, TipoCruce DEF Cruce
<1> QED
  BY <1>2, <1>3, <1>4, <1>5, <1>6, <1>7 DEF Next

\* The invariant is inductive.
LEMMA PasoInv == IInv /\ [Next]_vars => IInv'
<1> SUFFICES ASSUME IInv, [Next]_vars PROVE IInv'
  OBVIOUS
<1>1. CASE Next
  BY <1>1, TipoPaso, PidsPaso DEF IInv, Bien
<1>2. CASE UNCHANGED vars
  BY <1>2 DEF vars, colas, procesos, cadena, finales, IInv, TypeOK, TipoColas, TipoProcesos,
              TipoCadena, TipoFinales, CadenaOK, PidsEnOrden, Pids
<1> QED
  BY <1>1, <1>2

\* Types, the order of pids and the place where exitHilo returns to, in every
\* state of the kernel, whatever scripts do: none of the three is inductive alone.
THEOREM InvarianteInductivo == Spec => []IInv
  BY InitInv, PasoInv, PTL DEF Spec

\* Types: every queue holds TCBs and every program counter is in range.
THEOREM Tipos == Spec => []TypeOK
<1>1. IInv => TypeOK
  BY DEF IInv
<1> QED
  BY <1>1, InvarianteInductivo, PTL

\* createTCB (utils.go:543) finds the slot of its process in nextTid, whatever
\* processes are created, refused, admitted late or ended.
THEOREM PidsSiempreEnOrden == Spec => []PidsEnOrden
<1>1. IInv => PidsEnOrden
  BY DEF IInv
<1> QED
  BY <1>1, InvarianteInductivo, PTL

-----------------------------------------------------------------------------
(* Mutexes *)

MutexBien == MutexCoherente' /\ Traspaso

\* The first mutex of a process is replaced.
LEMMA CambiarPrimero ==
  ASSUME IInv, MutexCoherente, NEW pid, MutexesDe(pid) # <<>>,
         NEW m \in Mutexes, Coherente(m), PasaAlPrimero(MutexesDe(pid)[1], m),
         colaProcesosInicializados' = [colaProcesosInicializados EXCEPT ![pid][1] = m]
  PROVE  MutexBien
<1> DEFINE ini == colaProcesosInicializados
<1>1. /\ ini \in [DOMAIN ini -> Seq(Mutexes)] /\ pid \in DOMAIN ini
      /\ MutexesDe(pid) = ini[pid] /\ TypeOK
  BY PrimerMutexTipo DEF IInv, TypeOK, TipoProcesos
<1>2. DOMAIN ini[pid] = 1..Len(ini[pid]) /\ 1 \in DOMAIN ini[pid]
  BY <1>1, LenProperties, EmptySeq
<1>3. /\ DOMAIN ini' = DOMAIN ini
      /\ ini'[pid] = [ini[pid] EXCEPT ![1] = m]
      /\ \A p \in DOMAIN ini \ {pid} : ini'[p] = ini[p]
  BY <1>1
<1>4. ASSUME NEW p \in DOMAIN ini
      PROVE  /\ DOMAIN ini'[p] = DOMAIN ini[p]
             /\ \A j \in DOMAIN ini[p] :
                  IF p = pid /\ j = 1 THEN ini'[p][j] = m ELSE ini'[p][j] = ini[p][j]
  BY <1>1, <1>2, <1>3
<1>5. ASSUME NEW p \in DOMAIN ini, NEW j \in DOMAIN ini[p]
      PROVE  Coherente(ini'[p][j]) /\ PasaAlPrimero(ini[p][j], ini'[p][j])
  <2>1. CASE p = pid /\ j = 1
    BY <1>1, <1>4, <2>1
  <2>2. CASE ~(p = pid /\ j = 1)
    <3>1. ini'[p][j] = ini[p][j] /\ Coherente(ini[p][j])
      BY <1>4, <2>2 DEF MutexCoherente
    <3> QED
      BY <3>1 DEF PasaAlPrimero
  <2> QED
    BY <2>1, <2>2
<1> QED
  BY <1>3, <1>4, <1>5 DEF MutexBien, MutexCoherente, Traspaso

\* Processes come with no mutex, or go with theirs.
LEMMA CambiarProcesos ==
  ASSUME IInv, MutexCoherente,
         \A p \in DOMAIN colaProcesosInicializados' :
           IF p \in DOMAIN colaProcesosInicializados
           THEN colaProcesosInicializados'[p] = colaProcesosInicializados[p]
           ELSE colaProcesosInicializados'[p] = <<>>
  PROVE  MutexBien
  BY DEF MutexBien, MutexCoherente, Traspaso, PasaAlPrimero

\* A process that starts has no mutex yet.
LEMMA CambiarArrancar ==
  ASSUME IInv, MutexCoherente, NEW pid, pid = Len(nextTid) + 1, NEW prioridad, NEW abre,
         ArrancarProceso(pid, prioridad, abre)
  PROVE  MutexBien
<1>1. pid \notin DOMAIN colaProcesosInicializados
  BY LenProperties DEF IInv, TypeOK, TipoProcesos, PidsEnOrden, Pids
<1> QED
  BY <1>1, CambiarProcesos DEF ArrancarProceso

\* unlockMutex (utils.go:1334) frees the mutex or hands it to the first waiter.
LEMMA CambiarUnlock ==
  ASSUME IInv, MutexCoherente, NEW pid, NEW tid, NEW nombre, unlockMutex(pid, tid, nombre)
  PROVE  MutexBien
<1> DEFINE ms == MutexesDe(pid)
           m == ms[1]
           primero == Head(m.colaBloqueados)
           ini == colaProcesosInicializados
<1>1. CASE UNCHANGED colaProcesosInicializados
  BY <1>1, CambiarProcesos
<1>2. ms # <<>> => /\ m \in Mutexes /\ Coherente(m) /\ m.colaBloqueados \in Seq(TCBs)
  <2> SUFFICES ASSUME ms # <<>> PROVE m \in Mutexes /\ Coherente(m) /\ m.colaBloqueados \in Seq(TCBs)
    OBVIOUS
  <2>1. pid \in DOMAIN ini /\ ms = ini[pid] /\ m \in Mutexes /\ m.colaBloqueados \in Seq(TCBs)
    BY PrimerMutexTipo DEF IInv
  <2>2. 1 \in DOMAIN ini[pid]
    BY <2>1, MutexesDeTipo, EmptySeq, LenProperties DEF IInv
  <2> QED
    BY <2>1, <2>2 DEF MutexCoherente
<1>3. CASE /\ ms # <<>> /\ m.colaBloqueados = <<>>
           /\ ini' = [ini EXCEPT ![pid][1] = [m EXCEPT !.Bloqueado = FALSE, !.HiloUsando = -1]]
  <2> DEFINE libre == [m EXCEPT !.Bloqueado = FALSE, !.HiloUsando = -1]
  <2>1. libre \in Mutexes /\ Coherente(libre) /\ PasaAlPrimero(m, libre)
    BY <1>2, <1>3 DEF Mutexes, Coherente, PasaAlPrimero
  <2> HIDE DEF libre
  <2> QED
    BY <1>3, <2>1, CambiarPrimero DEF libre
<1>4. CASE /\ ms # <<>> /\ m.colaBloqueados # <<>>
           /\ ini' = [ini EXCEPT ![pid][1] =
                        [m EXCEPT !.HiloUsando = primero.Tid, !.colaBloqueados = Tail(@)]]
  <2> DEFINE pasado == [m EXCEPT !.HiloUsando = primero.Tid, !.colaBloqueados = Tail(@)]
  <2>1. primero.Tid \in Nat /\ Tail(m.colaBloqueados) \in Seq(TCBs)
    BY <1>2, <1>4, HeadTailProperties, IdTipo
  <2>2. m.Bloqueado = TRUE
    BY <1>2, <1>4 DEF Coherente, Mutexes
  <2>3. /\ pasado.Bloqueado = m.Bloqueado /\ pasado.HiloUsando = primero.Tid
        /\ pasado.colaBloqueados = Tail(m.colaBloqueados) /\ pasado \in Mutexes
    BY <1>2, <1>4, <2>1 DEF Mutexes
  <2>4. Coherente(pasado) /\ PasaAlPrimero(m, pasado)
    BY <2>1, <2>2, <2>3 DEF Coherente, PasaAlPrimero
  <2> HIDE DEF pasado
  <2> QED
    BY <1>4, <2>3, <2>4, CambiarPrimero DEF pasado
<1> QED
  BY <1>1, <1>3, <1>4 DEF unlockMutex

\* MUTEX_LOCK takes a free mutex or joins its queue.
LEMMA CambiarLock ==
  ASSUME IInv, MutexCoherente, NEW nombre \in Nombres, BloquearMutex(nombre)
  PROVE  MutexBien
<1> DEFINE pid == hilo[1]
           ms == MutexesDe(pid)
           actual == getTCB(hilo)
           ini == colaProcesosInicializados
<1>1. actual \in TCBs /\ actual.Tid \in Nat
  BY ActualTipo, IdTipo DEF IInv
<1>2. CASE UNCHANGED colaProcesosInicializados
  BY <1>2, CambiarProcesos
<1>3. ms # <<>> => /\ ms[1] \in Mutexes /\ Coherente(ms[1]) /\ ms[1].colaBloqueados \in Seq(TCBs)
  <2> SUFFICES ASSUME ms # <<>>
               PROVE  ms[1] \in Mutexes /\ Coherente(ms[1]) /\ ms[1].colaBloqueados \in Seq(TCBs)
    OBVIOUS
  <2>1. /\ pid \in DOMAIN ini /\ ms = ini[pid] /\ ms[1] \in Mutexes
        /\ ms[1].colaBloqueados \in Seq(TCBs)
    BY PrimerMutexTipo DEF IInv
  <2>2. 1 \in DOMAIN ini[pid]
    BY <2>1, MutexesDeTipo, EmptySeq, LenProperties DEF IInv
  <2> QED
    BY <2>1, <2>2 DEF MutexCoherente
<1>4. ASSUME ms # <<>>, TomarMutex(actual) PROVE MutexBien
  <2> DEFINE tomado == [ms[1] EXCEPT !.Bloqueado = TRUE, !.HiloUsando = actual.Tid]
  <2>1. ~ms[1].Bloqueado /\ ini' = [ini EXCEPT ![pid][1] = tomado]
    BY <1>4 DEF TomarMutex
  <2>2. ms[1].colaBloqueados = <<>>
    BY <1>3, <1>4, <2>1 DEF Coherente
  <2>3. /\ tomado.Bloqueado = TRUE /\ tomado.HiloUsando = actual.Tid /\ tomado \in Mutexes
    BY <1>1, <1>3, <1>4 DEF Mutexes
  <2>4. Coherente(tomado) /\ PasaAlPrimero(ms[1], tomado)
    BY <1>1, <2>2, <2>3 DEF Coherente, PasaAlPrimero
  <2> HIDE DEF tomado
  <2> QED
    BY <1>4, <2>1, <2>3, <2>4, CambiarPrimero
<1>5. ASSUME ms # <<>>, EsperarMutex(actual) PROVE MutexBien
  <2> DEFINE esperado == [ms[1] EXCEPT !.colaBloqueados = Append(@, actual)]
  <2>1. ms[1].Bloqueado /\ ini' = [ini EXCEPT ![pid][1] = esperado]
    BY <1>5 DEF EsperarMutex
  <2>2. Append(ms[1].colaBloqueados, actual) \in Seq(TCBs)
    BY <1>1, <1>3, <1>5, AppendProperties
  <2>3. /\ esperado.Bloqueado = ms[1].Bloqueado /\ esperado.HiloUsando = ms[1].HiloUsando
        /\ esperado \in Mutexes
    <3>1. ms[1] \in Mutexes
      BY <1>3, <1>5
    <3> HIDE DEF ms, actual
    <3> QED
      BY <2>2, <3>1 DEF Mutexes
  <2>4. Coherente(esperado) /\ PasaAlPrimero(ms[1], esperado)
    BY <1>3, <1>5, <2>1, <2>3 DEF Coherente, PasaAlPrimero
  <2> HIDE DEF esperado
  <2> QED
    BY <1>5, <2>1, <2>3, <2>4, CambiarPrimero
<1> HIDE DEF MutexBien
<1> QED
  BY <1>2, <1>4, <1>5 DEF BloquearMutex

\* MUTEX_CREATE adds a free mutex.
LEMMA CambiarCrear ==
  ASSUME IInv, MutexCoherente, NEW nombre \in Nombres, CrearMutex(nombre)
  PROVE  MutexBien
<1> DEFINE pid == hilo[1]
           ini == colaProcesosInicializados
           nuevo == mutexCreate(nombre)
<1>1. pid \in DOMAIN ini /\ ini[pid] \in Seq(Mutexes) /\ ini' = [ini EXCEPT ![pid] = Append(ini[pid], nuevo)]
  BY DEF CrearMutex, Llama, IInv, TypeOK, TipoProcesos
<1>2. nuevo \in Mutexes /\ Coherente(nuevo)
  BY EmptySeq DEF mutexCreate, Mutexes, Coherente
<1>3. /\ DOMAIN Append(ini[pid], nuevo) = 1..(Len(ini[pid]) + 1)
      /\ DOMAIN ini[pid] = 1..Len(ini[pid]) /\ Len(ini[pid]) \in Nat
      /\ \A j \in 1..Len(ini[pid]) : Append(ini[pid], nuevo)[j] = ini[pid][j]
      /\ Append(ini[pid], nuevo)[Len(ini[pid]) + 1] = nuevo
  <2> HIDE DEF nuevo
  <2> QED
    BY <1>1, <1>2, AppendProperties, LenProperties
<1> HIDE DEF nuevo
<1>4. ASSUME NEW p \in DOMAIN ini, NEW j \in DOMAIN ini'[p] PROVE Coherente(ini'[p][j])
  <2>1. CASE p = pid
    <3>1. ini'[p] = Append(ini[pid], nuevo) /\ j \in 1..(Len(ini[pid]) + 1)
      BY <1>1, <1>3, <2>1
    <3>2. CASE j = Len(ini[pid]) + 1
      BY <1>2, <1>3, <3>1, <3>2
    <3>3. CASE j \in 1..Len(ini[pid])
      BY <1>1, <1>3, <3>1, <3>3 DEF MutexCoherente
    <3> QED
      BY <1>3, <3>1, <3>2, <3>3
  <2>2. CASE p # pid
    BY <1>1, <2>2 DEF MutexCoherente
  <2> QED
    BY <2>1, <2>2
<1>5. ASSUME NEW p \in DOMAIN ini, NEW j \in DOMAIN ini[p] PROVE ini'[p][j] = ini[p][j]
  <2>1. CASE p = pid
    <3>1. ini'[p] = Append(ini[pid], nuevo) /\ j \in 1..Len(ini[pid])
      BY <1>1, <1>3, <2>1
    <3> QED
      BY <1>3, <2>1, <3>1
  <2>2. CASE p # pid
    BY <1>1, <2>2
  <2> QED
    BY <2>1, <2>2
<1>6. DOMAIN ini' = DOMAIN ini
  BY <1>1
<1>7. MutexCoherente'
  BY <1>4, <1>6 DEF MutexCoherente
<1>8. Traspaso
  BY <1>5 DEF Traspaso, PasaAlPrimero
<1> QED
  BY <1>7, <1>8 DEF MutexBien

\* Every step keeps mutexes coherent and hands them over in order.
LEMMA MutexPaso == IInv /\ MutexCoherente /\ [Next]_vars => MutexBien
<1> SUFFICES ASSUME IInv, MutexCoherente, [Next]_vars PROVE MutexBien
  OBVIOUS
<1> DEFINE Igual == UNCHANGED colaProcesosInicializados
<1>1. Igual => MutexBien
  BY CambiarProcesos
<1>2. ASSUME NEW p \in Prioridades, NEW hay \in BOOLEAN, NEW abre \in BOOLEAN,
             CrearProceso(p, hay, abre)
      PROVE  MutexBien
  <2>1. CASE hay /\ colaProcesosSinIniciar = <<>>
    <3>1. nextPid = Len(nextTid) + 1
      BY <2>1, LenProperties, EmptySeq DEF IInv, PidsEnOrden, TypeOK, TipoProcesos
    <3> QED
      BY <1>2, <2>1, <3>1, CambiarArrancar DEF CrearProceso
  <2>2. CASE ~(hay /\ colaProcesosSinIniciar = <<>>)
    BY <1>1, <1>2, <2>2 DEF CrearProceso
  <2> QED
    BY <2>1, <2>2
<1>3. ASSUME NEW abre \in BOOLEAN, IniciarPendiente(abre) PROVE MutexBien
  <2> DEFINE S == [Pid : Nat, Prioridad : Nat]
             q == colaProcesosSinIniciar
  <2>1. q \in Seq(S) /\ q # <<>>
    BY <1>3 DEF IniciarPendiente, IInv, TypeOK, TipoProcesos
  <2>2. Head(q) = q[1] /\ 1 \in DOMAIN q
    <3> HIDE DEF S
    <3> QED
      BY <2>1, EmptySeq, LenProperties
  <2>3. Head(q).Pid = Len(nextTid) + 1
    BY <2>2 DEF IInv, PidsEnOrden
  <2> QED
    BY <1>3, <2>3, CambiarArrancar DEF IniciarPendiente
<1>4. ASSUME NEW n \in Nombres, LiberarMutex(n) PROVE MutexBien
  BY <1>4, CambiarUnlock DEF LiberarMutex
<1>5. ASSUME LiberarAlSalir PROVE MutexBien
  <2> DEFINE ms == MutexesDe(saliendo.pid)
             tid == saliendo.hilo.Tid
  <2>1. unlockMutex(saliendo.pid, tid, getMutexUsando(ms, tid).Nombre) \/ Igual
    BY <1>5 DEF LiberarAlSalir
  <2> QED
    BY <1>1, <2>1, CambiarUnlock
<1>6. ASSUME TerminarProceso PROVE MutexBien
  <2>1. \A p \in DOMAIN colaProcesosInicializados' :
          /\ p \in DOMAIN colaProcesosInicializados
          /\ colaProcesosInicializados'[p] = colaProcesosInicializados[p]
    BY <1>6 DEF TerminarProceso
  <2> QED
    BY <2>1, CambiarProcesos
<1>7. \/ \E p \in Prioridades, hay, abre \in BOOLEAN : CrearProceso(p, hay, abre)
      \/ \E abre \in BOOLEAN : IniciarPendiente(abre)
      \/ \E n \in Nombres : CrearMutex(n) \/ BloquearMutex(n) \/ LiberarMutex(n)
      \/ LiberarAlSalir \/ TerminarProceso
      \/ Igual
  BY DEF Next, Syscall, DejaCpu, PasoKernel, Cruce, Terminado, vars, procesos, EntrarHilo, CancelarHilo,
         DesbloquearCruzado, RecorrerCruzado, CancelarCruzado,
         DumpMemory, CrearHilo, ManejarIo, FinalizarHilo, FinalizarProceso, SegmentationFault,
         DevolverPidTid, ejecutarInstruccion, RecibirPIDyTID, RafagaSinSyscall, SeguirLockMutex,
         RespuestaDump, DesbloquearHilosJoin, VolverDeCancelar, RecorrerCola, SiguienteCola,
         FinExitProcess, TerminaIo, EncolaIo
<1> HIDE DEF MutexBien, Igual
<1> QED
  BY <1>1, <1>2, <1>3, <1>4, <1>5, <1>6, <1>7, CambiarCrear, CambiarLock

\* A mutex is locked exactly when a thread holds it, and nobody waits for a
\* free one, whatever scripts do.
THEOREM MutexSiempreCoherente == Spec => []MutexCoherente
<1>1. Init => MutexCoherente
  BY DEF Init, MutexCoherente
<1>2. IInv /\ MutexCoherente /\ [Next]_vars => MutexCoherente'
  BY MutexPaso DEF MutexBien
<1> QED
  BY <1>1, <1>2, InvarianteInductivo, PTL DEF Spec

\* A mutex with waiters goes to the first of them, in every step.
THEOREM TraspasoSiempreEnOrden == Spec => TraspasoEnOrden
<1>1. IInv /\ MutexCoherente /\ [Next]_vars => [Traspaso]_vars
  BY MutexPaso DEF MutexBien
<1> QED
  BY <1>1, InvarianteInductivo, MutexSiempreCoherente, PTL DEF Spec, TraspasoEnOrden

=============================================================================
