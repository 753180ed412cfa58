--------------------------- MODULE SistemaProofs ---------------------------
(***************************************************************************)
(* Proofs about the kernel and memory together, for both schemes, the      *)
(* three searches, any partitions and sizes, any number of processes and   *)
(* threads, and whatever scripts do.                                       *)
(***************************************************************************)
EXTENDS SistemaProps, CicloProofs, Sumas

-----------------------------------------------------------------------------
(* The kernel in the system is the kernel *)

\* The answers of memory are among those that Kernel allows.
LEMMA PasoDelKernel == [NextSistema]_todas => [Next]_vars
<1> SUFFICES ASSUME [NextSistema]_todas PROVE [Next]_vars
  OBVIOUS
<1>1. CASE \E size \in Tamanios : consultaEspacioAMemoria(size)
  BY <1>1 DEF consultaEspacioAMemoria
<1>2. CASE Responder
  BY <1>2 DEF Responder
<1>3. CASE \E p \in Prioridades, abre \in BOOLEAN : TerminaDeCrear(p, abre)
  BY <1>3 DEF TerminaDeCrear, Next, Syscall
<1>4. CASE ProcesoFinalizado
  BY <1>4 DEF ProcesoFinalizado, Next, PasoKernel
<1>5. CASE \E abre \in BOOLEAN : IniciarSinIniciar(abre)
  BY <1>5 DEF IniciarSinIniciar, Next, PasoKernel
<1>6. CASE SinMemoria
  BY <1>6 DEF SinMemoria, PasoScript, PasoPropio, Next
<1>7. CASE \E id \in (1..MaxPid) \X Tids : Io(id)
  BY <1>7 DEF Io, PasoIo, Next
<1>8. CASE Terminado
  BY <1>8 DEF Terminado
<1>9. CASE UNCHANGED todas
  BY <1>9 DEF todas
<1> QED
  BY <1>1, <1>2, <1>3, <1>4, <1>5, <1>6, <1>7, <1>8, <1>9 DEF NextSistema

\* The system implements Kernel: what is proved of the kernel, whatever memory
\* answers, holds with the memory that there is.
THEOREM SistemaCumpleKernel == SpecSistema => Spec
<1>1. InitSistema => Init
  BY DEF InitSistema
<1> QED
  BY <1>1, PasoDelKernel, PTL DEF SpecSistema, Spec

\* Memory, with what is proved of it.
Mem == INSTANCE MemoriaProofs WITH Direcciones <- {}

\* Its constants are as it assumes.
LEMMA SupuestoDeMemoria == Mem!MemoriaAssumption
  BY SistemaAssumption DEF Mem!MemoriaAssumption, Memoria!MemoriaAssumption

\* The sums of memory are those of Sumas.
LEMMA SumaDeMemoria ==
  ASSUME NEW s, NEW I
  PROVE  Memoria!Suma(s, I) = SumFunctionOnSet(s, I)
  BY DEF Memoria!Suma, Memoria!SumFunctionOnSet, Memoria!FoldFunctionOnSet, Memoria!MapThenFoldSet,
         SumFunctionOnSet, FoldFunctionOnSet, MapThenFoldSet

\* The sums of both are one.
LEMMA MismaSuma ==
  ASSUME NEW s, NEW I
  PROVE  Mem!Suma(s, I) = Memoria!Suma(s, I)
<1>1. (CHOOSE g : EsSuma(s, I, g)) = (CHOOSE g : Mem!EsSuma(s, I, g))
  BY Zenon DEF EsSuma, Mem!EsSuma, Elegido, Mem!Elegido
<1>2. SumFunctionOnSet(s, I) = (CHOOSE g : EsSuma(s, I, g))[I]
  BY SumaDef, Zenon
<1>3. Mem!SumFunctionOnSet(s, I) = (CHOOSE g : Mem!EsSuma(s, I, g))[I]
  BY Mem!SumaDef, SupuestoDeMemoria, Zenon
<1>4. Mem!SumFunctionOnSet(s, I) = SumFunctionOnSet(s, I)
  BY <1>1, <1>2, <1>3, Zenon
<1> QED
  BY <1>4, SumaDeMemoria DEF Mem!Suma

\* The requests of the kernel are those of Memoria.
LEMMA MismoCreateProcess == Memoria!CreateProcess => Mem!CreateProcess
<1>1. ASSUME NEW n PROVE Memoria!Entran(n) = Mem!Entran(n)
  BY DEF Mem!Entran, Memoria!Entran
<1>2. ASSUME NEW n PROVE Memoria!asignarPorAlgoritmo(n) = Mem!asignarPorAlgoritmo(n)
  BY DEF Mem!Entran, Memoria!Entran, Mem!asignarPorAlgoritmo, Memoria!asignarPorAlgoritmo,
         Mem!EsMejor, Memoria!EsMejor
<1>3. Memoria!ContestarSinLugar => Mem!ContestarSinLugar
  BY MismaSuma DEF Mem!ContestarSinLugar, Memoria!ContestarSinLugar,
                   Mem!espacioLibreSuficiente, Memoria!espacioLibreSuficiente
<1>4. ASSUME NEW n, NEW s PROVE Memoria!BaseYLimite(n, s) = Mem!BaseYLimite(n, s)
  BY MismaSuma DEF Mem!BaseYLimite, Memoria!BaseYLimite
<1>5. ASSUME NEW n PROVE Memoria!Instalar(n) => Mem!Instalar(n)
  BY <1>4 DEF Mem!Instalar, Memoria!Instalar, Mem!PCB, Memoria!PCB,
              Mem!subdividirParticion, Memoria!subdividirParticion
<1> QED
  BY <1>1, <1>2, <1>3, <1>5 DEF Mem!CreateProcess, Memoria!CreateProcess, Mem!tabla, Memoria!tabla

\* So is compaction.
LEMMA MismaCompactacion == Memoria!Compactacion => Mem!Compactacion
<1> USE DEF Mem!Libres, Memoria!Libres
<1>1. Memoria!Suma(particiones, Memoria!Libres) = Mem!Suma(particiones, Mem!Libres)
  BY MismaSuma
<1>2. Memoria!CorrerPids(Memoria!Libres) <=> Mem!CorrerPids(Mem!Libres)
  BY Zenon DEF Mem!CorrerPids, Memoria!CorrerPids, Mem!Cardinality, Memoria!Cardinality
<1> USE DEF Mem!Ocupadas, Memoria!Ocupadas, Mem!Cardinality, Memoria!Cardinality
<1>3. Memoria!Cardinality(Memoria!Ocupadas) = Mem!Cardinality(Mem!Ocupadas)
  BY Zenon
<1>4. [k \in 1..Memoria!Cardinality(Memoria!Ocupadas) |->
         particiones[CHOOSE i \in Memoria!Ocupadas :
                       Memoria!Cardinality({j \in Memoria!Ocupadas : j <= i}) = k]]
      = [k \in 1..Mem!Cardinality(Mem!Ocupadas) |->
           particiones[CHOOSE i \in Mem!Ocupadas :
                         Mem!Cardinality({j \in Mem!Ocupadas : j <= i}) = k]]
  BY Zenon
<1> HIDE DEF Mem!Libres, Memoria!Libres, Mem!Ocupadas, Memoria!Ocupadas,
             Mem!Cardinality, Memoria!Cardinality
<1> QED
  BY <1>1, <1>2, <1>3, <1>4, Zenon DEF Mem!Compactacion, Memoria!Compactacion

\* And so is the end of a process.
LEMMA MismoTerminateProcess ==
  ASSUME NEW pid
  PROVE  Memoria!TerminateProcess(pid) => Mem!TerminateProcess(pid)
<1>1. ASSUME NEW t, NEW n PROVE Memoria!Juntar(t, n) = Mem!Juntar(t, n)
  BY DEF Mem!Juntar, Memoria!Juntar, Mem!RemoveAt, Memoria!RemoveAt
<1>2. ASSUME NEW t, NEW n PROVE Memoria!Liberar(t, n) = Mem!Liberar(t, n)
  BY <1>1, Zenon DEF Mem!Liberar, Memoria!Liberar, Mem!consolidarParticiones,
     Memoria!consolidarParticiones, Mem!JuntarIzquierda, Memoria!JuntarIzquierda,
     Mem!JuntarDerecha, Memoria!JuntarDerecha
<1>3. ASSUME NEW f, NEW k PROVE Memoria!SinClave(f, k) = Mem!SinClave(f, k)
  BY DEF Mem!SinClave, Memoria!SinClave, Mem!Restrict, Memoria!Restrict
<1> QED
  BY <1>2, <1>3, Zenon DEF Mem!TerminateProcess, Memoria!TerminateProcess, Mem!PCB, Memoria!PCB,
     Mem!Reintentar, Memoria!Reintentar

\* Memory does in the system what Memoria does, or nothing.
LEMMA PasoDeMemoria == [NextSistema]_todas => [Mem!Next]_(Mem!vars)
<1> SUFFICES ASSUME [NextSistema]_todas PROVE Mem!Next \/ UNCHANGED memoria
  BY DEF Mem!vars, Mem!tabla, memoria
<1>1. ASSUME NEW size \in Tamanios, consultaEspacioAMemoria(size) PROVE Mem!Next
  BY <1>1 DEF consultaEspacioAMemoria, Memoria!Pedir, Memoria!tabla, Mem!Next, Mem!Pedir, Mem!tabla
<1>2. CASE Responder
  BY <1>2, MismoCreateProcess, MismaCompactacion DEF Responder, Mem!Next
<1>3. CASE ProcesoFinalizado
  BY <1>3, MismoTerminateProcess DEF ProcesoFinalizado, Mem!Next
<1> QED
  BY <1>1, <1>2, <1>3 DEF NextSistema, TerminaDeCrear, IniciarSinIniciar, SinMemoria, Io, todas

\* The invariant of memory holds when the kernel starts, with the request of the
\* initial process on its way.
LEMMA MemoriaAlPrincipio == InitSistema => Mem!IInv
<1> SUFFICES ASSUME InitSistema PROVE Mem!IInv
  OBVIOUS
<1>1. Mem!TablasNuevas
  BY DEF InitSistema, Mem!TablasNuevas
<1>2. PICK size \in Tamanios :
        pedido = [pid |-> 1, size |-> size, paso |-> "pedir", compacto |-> FALSE]
  BY DEF InitSistema
<1>3. pedido \in Mem!Pedidos
  BY <1>2, KernelAssumption DEF Mem!Pedidos, KernelAssumption
<1>4. Mem!Turno
  <2>1. DOMAIN mapPCBPorParticion = {}
    BY DEF InitSistema
  <2> QED
    BY <1>2, <2>1 DEF Mem!Turno
<1> QED
  BY <1>1, <1>3, <1>4, Mem!IInvNuevas, SupuestoDeMemoria

\* And in every state of the system.
LEMMA InvarianteDeMemoria == SpecSistema => []Mem!IInv
<1>1. Mem!IInv /\ [NextSistema]_todas => Mem!IInv'
  BY PasoDeMemoria, Mem!IInvPaso, SupuestoDeMemoria
<1> QED
  BY <1>1, MemoriaAlPrincipio, PTL DEF SpecSistema

\* What is proved of memory alone, whatever the kernel asks for, holds with the
\* kernel that there is.
THEOREM MemoriaEnElSistema ==
  SpecSistema => [](Mem!TypeOK /\ Mem!OcupacionCoherente /\ Mem!SumaConstante) /\ Mem!CompactarAlcanza
<1> DEFINE A == (pedido.paso = "pedir" /\ pedido.compacto) => pedido'.paso = "nada"
<1>1. Mem!IInv => Mem!TypeOK /\ Mem!OcupacionCoherente /\ Mem!SumaConstante
  BY Mem!IInvImplica, SupuestoDeMemoria
<1>2. Mem!IInv /\ [NextSistema]_todas => [A]_(Mem!vars)
  BY PasoDeMemoria, Mem!CompactarPaso, SupuestoDeMemoria
<1> QED
  BY <1>1, <1>2, InvarianteDeMemoria, PTL DEF SpecSistema, Mem!CompactarAlcanza

\* The steps of memory in the system are those of Memoria.
THEOREM SistemaCumpleMemoria == SpecSistema => [][Memoria!Next]_memoria
<1>1. ASSUME [NextSistema]_todas PROVE [Memoria!Next]_memoria
  <2>1. CASE \E size \in Tamanios : consultaEspacioAMemoria(size)
    BY <2>1 DEF consultaEspacioAMemoria, Memoria!Next
  <2>2. CASE Responder
    BY <2>2 DEF Responder, Memoria!Next
  <2>3. CASE ProcesoFinalizado
    BY <2>3 DEF ProcesoFinalizado, Memoria!Next
  <2> QED
    BY <1>1, <2>1, <2>2, <2>3
       DEF NextSistema, TerminaDeCrear, IniciarSinIniciar, SinMemoria, Io, todas
<1> QED
  BY <1>1, PTL DEF SpecSistema

\* In particular the invariant of the kernel.
LEMMA InvarianteDelKernel == SpecSistema => []IInv
  BY SistemaCumpleKernel, InvarianteInductivo

-----------------------------------------------------------------------------
(* The inductive invariant *)

\* No room for the process that was asked for, not even by compacting.
SinLugar ==
  /\ Memoria!Entran(pedido.size) = {}
  /\ EsquemaMemoria = "DINAMICAS" => ~Memoria!espacioLibreSuficiente(pedido.size)

\* Memory is about to answer for the initial process: the kernel, whose start
\* is one step, has that answer already.
Inicial ==
  /\ pedido.pid = 1 /\ pedido.paso = "pedir" /\ DOMAIN mapPCBPorParticion = {}
  /\ \/ /\ pc = "libre" /\ Len(nextTid) = 1 /\ DOMAIN colaProcesosInicializados = {1}
        /\ colaProcesosSinIniciar = <<>> /\ Memoria!Entran(pedido.size) # {}
     \/ /\ pc = "detenido" /\ Len(nextTid) = 0 /\ DOMAIN colaProcesosInicializados = {}
        /\ colaProcesosSinIniciar # <<>> /\ SinLugar

\* The kernel is inside inicializarProceso.
Inicializando ==
  \/ pc = "cpu" /\ EnCreacion
  \/ EnFase("iniciar") /\ colaProcesosSinIniciar # <<>>

Pedidos == [pid : Nat, size : Tamanios, paso : {"nada", "pedir", "compactar", "espera"},
            compacto : BOOLEAN]

\* What was asked for, and where the kernel is while it is asked.
Conversacion ==
  /\ pedido \in Pedidos
  /\ pedido.pid \in {Len(nextTid), Len(nextTid) + 1}
  /\ pedido.paso = "espera" =>
       /\ pedido.pid = Len(nextTid) + 1 /\ SinLugar
       /\ colaProcesosSinIniciar # <<>> \/ (pc = "cpu" /\ EnCreacion)
  /\ Conversando => Inicial \/ (pedido.pid = Len(nextTid) + 1 /\ Inicializando)
  /\ pedido.paso = "nada" /\ pedido.pid = Len(nextTid) + 1 => Inicializando
  /\ ~Conversando /\ colaProcesosSinIniciar # <<>> /\ ~EnFase("iniciar") => pedido.paso = "espera"

\* The processes of both, also while they talk.
Procesos ==
  ~Inicial => DOMAIN mapPCBPorParticion = DOMAIN colaProcesosInicializados \cup PorIniciar

SInv == Conversacion /\ Procesos

\* What the invariant of the kernel says of the processes that wait.
LEMMA ColaDeNuevos ==
  ASSUME IInv
  PROVE  /\ Len(nextTid) \in Nat /\ nextPid \in Nat
         /\ colaProcesosSinIniciar \in Seq([Pid : Nat, Prioridad : Nat])
         /\ DOMAIN colaProcesosInicializados \subseteq 1..Len(nextTid)
         /\ nextPid >= Len(nextTid) + 1
         /\ colaProcesosSinIniciar = <<>> <=> nextPid = Len(nextTid) + 1
         /\ colaProcesosSinIniciar # <<>> =>
              Head(colaProcesosSinIniciar).Pid = Len(nextTid) + 1
<1> DEFINE q == colaProcesosSinIniciar
           S == [Pid : Nat, Prioridad : Nat]
<1>1. /\ q \in Seq(S) /\ nextPid \in Nat /\ nextTid \in Seq(Nat)
      /\ Len(nextTid) + Len(q) = nextPid - 1
      /\ \A i \in DOMAIN q : q[i].Pid = Len(nextTid) + i
      /\ DOMAIN colaProcesosInicializados \subseteq 1..Len(nextTid)
  BY DEF IInv, TypeOK, TipoProcesos, PidsEnOrden, Pids
<1> HIDE DEF S
<1>2. Len(nextTid) \in Nat /\ Len(q) \in Nat /\ DOMAIN q = 1..Len(q)
  BY <1>1, LenProperties
<1>3. q = <<>> <=> Len(q) = 0
  BY <1>1, EmptySeq
<1>4. q # <<>> => Head(q).Pid = Len(nextTid) + 1
  BY <1>1, <1>2, <1>3
<1> QED
  BY <1>1, <1>2, <1>3, <1>4 DEF S

\* The invariant implies that nobody waits while there is room.
LEMMA SInvSinLugar == IInv /\ SInv => NadieEsperaConLugar
  BY ColaDeNuevos DEF SInv, Conversacion, SinLugar, NadieEsperaConLugar

\* With that of the threads, it implies that both have the same processes.
LEMMA SInvMismos ==
  ASSUME Sano, SInv
  PROVE  MismosProcesos
<1>1. ~Conversando => DOMAIN mapPCBPorParticion = DOMAIN colaProcesosInicializados \cup PorIniciar
  BY DEF SInv, Procesos, Inicial, Conversando
<1>2. EnFase("memoria") => salida.pid \in DOMAIN mapPCBPorParticion
  <2>1. EnFase("memoria") => /\ salida.pid \in DOMAIN colaProcesosInicializados
                             /\ pc = "exitProcess"
    BY DEF Sano, HInv, Recorrido, EnFase
  <2>2. pc = "exitProcess" => ~Inicial
    BY DEF Inicial
  <2> QED
    BY <2>1, <2>2 DEF SInv, Procesos
<1>3. pc # "caido"
  BY DEF Sano, HInv, Cadena
<1> QED
  BY <1>1, <1>2, <1>3 DEF MismosProcesos

-----------------------------------------------------------------------------
(* The invariant holds, step by step *)

\* Nothing that the invariant speaks of changes.
SinProcesos ==
  /\ UNCHANGED memoria /\ UNCHANGED <<colaProcesosSinIniciar, nextPid>>
  /\ Len(nextTid') = Len(nextTid)
  /\ DOMAIN colaProcesosInicializados' = DOMAIN colaProcesosInicializados

\* With the chain of calls where it was, or away from the conversation.
LEMMA PasoSinProcesos ==
  ASSUME SInv, SinProcesos,
         \/ pc' = pc /\ salida'.fase = salida.fase
         \/ ~Conversando /\ ~EnCreacion /\ ~EnFase("iniciar")
  PROVE  SInv'
<1>1. /\ UNCHANGED <<particiones, mapParticiones, mapPCBPorParticion, pedido>>
      /\ UNCHANGED <<colaProcesosSinIniciar, nextPid>>
      /\ Len(nextTid') = Len(nextTid)
      /\ DOMAIN colaProcesosInicializados' = DOMAIN colaProcesosInicializados
  BY DEF SinProcesos, memoria
<1>2. /\ SinLugar' = SinLugar /\ Memoria!Entran(pedido.size)' = Memoria!Entran(pedido.size)
      /\ Conversando' = Conversando /\ EnCreacion' = EnCreacion /\ PorIniciar' = PorIniciar
  BY <1>1 DEF SinLugar, Memoria!Entran, Memoria!espacioLibreSuficiente, Memoria!Suma, Conversando,
              EnCreacion, PorIniciar
<1>3. CASE pc' = pc /\ salida'.fase = salida.fase
  <2>1. EnFase("iniciar")' = EnFase("iniciar")
    BY <1>3 DEF EnFase
  <2>2. Inicial' = Inicial /\ Inicializando' = Inicializando
    BY <1>1, <1>2, <1>3, <2>1 DEF Inicial, Inicializando
  <2> QED
    BY <1>1, <1>2, <1>3, <2>1, <2>2 DEF SInv, Conversacion, Procesos
<1>4. CASE ~Conversando /\ ~EnCreacion /\ ~EnFase("iniciar")
  <2>1. ~Inicial /\ ~Inicial' /\ ~Inicializando
    BY <1>1, <1>4 DEF Inicial, Conversando, Inicializando
  <2> QED
    BY <1>1, <1>2, <1>4, <2>1 DEF SInv, Conversacion, Procesos
<1> QED
  BY <1>3, <1>4

\* At the start memory is one free partition, or is never compacted: a process
\* that finds no room is told to wait.
LEMMA AlPrincipio ==
  ASSUME NEW size \in Tamanios, particiones = Particiones,
         mapParticiones = [i \in DOMAIN Particiones |-> FALSE], Memoria!Entran(size) = {}
  PROVE  EsquemaMemoria = "DINAMICAS" => ~Memoria!espacioLibreSuficiente(size)
<1> SUFFICES ASSUME EsquemaMemoria = "DINAMICAS" PROVE ~Memoria!espacioLibreSuficiente(size)
  OBVIOUS
<1>1. /\ Particiones \in Seq(Nat \ {0}) /\ Len(Particiones) = 1 /\ size \in Nat
  BY SistemaAssumption DEF Memoria!MemoriaAssumption
<1>2. DOMAIN Particiones = {1} /\ Particiones[1] \in Nat
  <2> DEFINE S == Nat \ {0}
  <2>1. Particiones \in Seq(S) /\ S \subseteq Nat
    BY <1>1
  <2> HIDE DEF S
  <2>2. DOMAIN Particiones = 1..1 /\ \A i \in 1..1 : Particiones[i] \in S
    BY <1>1, <2>1, LenProperties, ElementOfSeq
  <2>3. 1..1 = {1} /\ 1 \in 1..1
    OBVIOUS
  <2> QED
    BY <2>1, <2>2, <2>3
<1>3. {i \in DOMAIN particiones : ~mapParticiones[i]} = {1} /\ ~(Particiones[1] >= size)
  BY <1>2 DEF Memoria!Entran
<1>4. SumFunctionOnSet(Particiones, {1}) = Particiones[1]
  <2>1. IsFiniteSet({1}) /\ {1} \ {1} = {}
    BY FS_Singleton
  <2>2. SumFunctionOnSet(Particiones, {1}) = Particiones[1] + SumFunctionOnSet(Particiones, {})
    BY <1>2, <2>1, SumaMenosUno
  <2> QED
    BY <1>2, <2>2, SumaVacia
<1> QED
  BY <1>1, <1>2, <1>3, <1>4, SumaDeMemoria DEF Memoria!espacioLibreSuficiente

\* It holds at the start.
LEMMA SInvInicial ==
  ASSUME InitSistema
  PROVE  SInv
<1>1. /\ pedido.pid = 1 /\ pedido.paso = "pedir" /\ mapPCBPorParticion = <<>>
      /\ nextPid = 2
      /\ colaReadyHilo # <<>> <=> Memoria!Entran(pedido.size) # {}
  BY DEF InitSistema, Init
<1>2. DOMAIN mapPCBPorParticion = {}
  BY <1>1
<1>3. \/ /\ pc = "libre" /\ nextTid = <<1>> /\ colaProcesosSinIniciar = <<>>
         /\ DOMAIN colaProcesosInicializados = {1} /\ Memoria!Entran(pedido.size) # {}
      \/ /\ pc = "detenido" /\ nextTid = <<>> /\ DOMAIN colaProcesosInicializados = {}
         /\ colaProcesosSinIniciar # <<>> /\ Memoria!Entran(pedido.size) = {}
  BY <1>1 DEF InitSistema, Init
<1>4. Memoria!Entran(pedido.size) = {} => SinLugar
  BY AlPrincipio DEF InitSistema, SinLugar
<1>5. Inicial /\ pedido.pid \in {Len(nextTid), Len(nextTid) + 1}
  BY <1>1, <1>2, <1>3, <1>4 DEF Inicial
<1>6. pedido \in Pedidos
  BY DEF InitSistema, Pedidos
<1> QED
  BY <1>1, <1>5, <1>6 DEF SInv, Conversacion, Procesos, Conversando

\* The kernel asks for the first process that waits, or for the new one.
LEMMA PasoConsulta ==
  ASSUME IInv, SInv, NEW size \in Tamanios, consultaEspacioAMemoria(size)
  PROVE  SInv'
<1>1. /\ pedido.paso = "nada" /\ pedido'.pid = pedido.pid + 1 /\ pedido'.paso = "pedir"
      /\ pedido' \in Pedidos
      /\ UNCHANGED <<particiones, mapParticiones, mapPCBPorParticion>> /\ UNCHANGED vars
  BY DEF consultaEspacioAMemoria, Memoria!Pedir, Memoria!tabla, SInv, Conversacion, Pedidos
<1>2. UNCHANGED <<colaProcesosSinIniciar, nextPid, nextTid, colaProcesosInicializados, pc, salida>>
  BY <1>1 DEF vars, procesos, cadena, finales
<1>3. /\ pedido.pid = Len(nextTid) /\ Inicializando'
      /\ Len(nextTid) \in Nat
  <2>1. CASE /\ Llama("PROCESS_CREATE") /\ nextPid <= MaxPid
             /\ colaProcesosSinIniciar = <<>> /\ pedido.pid < nextPid
    <3>1. pc = "cpu"
      BY <2>1 DEF Llama
    <3> QED
      BY <1>1, <1>2, <2>1, <3>1, ColaDeNuevos DEF SInv, Conversacion, Inicializando, EnCreacion
  <2>2. CASE /\ EnFase("iniciar") /\ colaProcesosSinIniciar # <<>>
             /\ pedido.pid < Head(colaProcesosSinIniciar).Pid
    BY <1>1, <1>2, <2>2, ColaDeNuevos DEF SInv, Conversacion, Inicializando, EnFase
  <2> QED
    BY <2>1, <2>2 DEF consultaEspacioAMemoria, esElPrimerProcesoSinIniciar
<1>4. Conversacion'
  BY <1>1, <1>2, <1>3 DEF Conversacion, Conversando
<1>5. DOMAIN mapPCBPorParticion = DOMAIN colaProcesosInicializados
  <2>1. ~Inicial /\ PorIniciar = {}
    BY <1>1, <1>3 DEF Inicial, PorIniciar
  <2> QED
    BY <2>1 DEF SInv, Procesos
<1> QED
  BY <1>1, <1>2, <1>4, <1>5 DEF SInv, Procesos, PorIniciar

\* Memory gives the process its partition, or has it compact or wait.
LEMMA PasoResponder ==
  ASSUME IInv, SInv, Responder
  PROVE  SInv'
<1>0. pedido \in Pedidos
  BY DEF SInv, Conversacion
<1>1. UNCHANGED vars /\ Conversando
  BY DEF Responder, Memoria!CreateProcess, Memoria!Compactacion, Conversando
<1>2. UNCHANGED <<colaProcesosSinIniciar, nextPid, nextTid, colaProcesosInicializados, pc, salida>>
  BY <1>1 DEF vars, procesos, cadena, finales
<1>3. Inicial \/ (pedido.pid = Len(nextTid) + 1 /\ Inicializando)
  BY <1>1 DEF SInv, Conversacion
<1>4. EnFase("iniciar")' = EnFase("iniciar")
  BY <1>2 DEF EnFase
<1>5. CASE Memoria!CreateProcess /\ Memoria!Entran(pedido.size) # {}
  <2>1. /\ pedido.paso = "pedir" /\ pedido'.pid = pedido.pid /\ pedido'.paso = "nada"
        /\ pedido' \in Pedidos
        /\ DOMAIN mapPCBPorParticion' = DOMAIN mapPCBPorParticion \cup {pedido.pid}
    BY <1>0, <1>5 DEF Memoria!CreateProcess, Memoria!Instalar, Pedidos
  <2>2. ~Inicial' /\ ~Conversando'
    BY <2>1 DEF Inicial, Conversando
  <2>3. CASE Inicial
    <3>1. /\ Len(nextTid) = 1 /\ DOMAIN colaProcesosInicializados = {1} /\ pedido.pid = 1
          /\ colaProcesosSinIniciar = <<>> /\ DOMAIN mapPCBPorParticion = {}
      BY <1>5, <2>3 DEF Inicial, SinLugar
    <3>2. Conversacion'
      BY <1>2, <2>1, <2>2, <3>1 DEF Conversacion
    <3>3. DOMAIN mapPCBPorParticion' = {1} /\ PorIniciar' = {}
      BY <1>2, <2>1, <3>1 DEF PorIniciar
    <3> QED
      BY <1>2, <3>1, <3>2, <3>3 DEF SInv, Procesos
  <2>4. CASE ~Inicial
    <3>1. pedido.pid = Len(nextTid) + 1 /\ Inicializando /\ Len(nextTid) \in Nat
      BY <1>3, <2>4, ColaDeNuevos
    <3>2. Inicializando'
      BY <1>2, <1>4, <2>1, <3>1 DEF Inicializando, EnCreacion
    <3>3. colaProcesosSinIniciar = <<>> \/ EnFase("iniciar")
      BY <3>1, ColaDeNuevos DEF Inicializando, EnCreacion
    <3>4. Conversacion'
      BY <1>2, <1>4, <2>1, <2>2, <3>1, <3>2, <3>3 DEF Conversacion
    <3>5. PorIniciar = {} /\ PorIniciar' = {pedido.pid}
      BY <1>2, <2>1, <3>1 DEF PorIniciar
    <3>6. DOMAIN mapPCBPorParticion = DOMAIN colaProcesosInicializados \cup {}
      BY <2>4, <3>5 DEF SInv, Procesos
    <3> QED
      BY <1>2, <2>1, <3>4, <3>5, <3>6 DEF SInv, Procesos
  <2> QED
    BY <2>3, <2>4
<1>6. CASE Memoria!CreateProcess /\ Memoria!Entran(pedido.size) = {}
  <2>1. /\ pedido.paso = "pedir" /\ pedido'.pid = pedido.pid /\ pedido'.size = pedido.size
        /\ pedido' \in Pedidos
        /\ UNCHANGED <<particiones, mapParticiones, mapPCBPorParticion>>
        /\ \/ pedido'.paso = "espera" /\ SinLugar
           \/ pedido'.paso = "compactar" /\ ~SinLugar
    BY <1>0, <1>6 DEF Memoria!CreateProcess, Memoria!ContestarSinLugar, Memoria!tabla, SinLugar, Pedidos
  <2>2. SinLugar' = SinLugar
    BY <2>1 DEF SinLugar, Memoria!Entran, Memoria!espacioLibreSuficiente, Memoria!Suma
  <2>3. /\ ~Inicial' /\ EnCreacion' = EnCreacion /\ Inicializando' = Inicializando
        /\ PorIniciar = {} /\ PorIniciar' = {}
    BY <1>2, <1>4, <2>1 DEF Inicial, EnCreacion, Inicializando, PorIniciar
  <2>4. CASE Inicial
    <3>1. /\ Len(nextTid) = 0 /\ DOMAIN colaProcesosInicializados = {} /\ pedido.pid = 1
          /\ colaProcesosSinIniciar # <<>> /\ SinLugar /\ DOMAIN mapPCBPorParticion = {}
      BY <1>6, <2>4 DEF Inicial
    <3>2. pedido'.paso = "espera"
      BY <2>1, <3>1
    <3> QED
      BY <1>2, <2>1, <2>2, <2>3, <3>1, <3>2 DEF SInv, Conversacion, Procesos, Conversando
  <2>5. CASE ~Inicial
    <3>1. pedido.pid = Len(nextTid) + 1 /\ Inicializando
      BY <1>3, <2>5
    <3>2. colaProcesosSinIniciar # <<>> \/ (pc = "cpu" /\ EnCreacion)
      BY <3>1 DEF Inicializando
    <3>3. colaProcesosSinIniciar = <<>> \/ EnFase("iniciar")
      BY <3>1, ColaDeNuevos DEF Inicializando, EnCreacion
    <3>4. Conversacion'
      BY <1>2, <1>4, <2>1, <2>2, <2>3, <3>1, <3>2, <3>3 DEF Conversacion, Conversando
    <3> QED
      BY <1>2, <2>1, <2>3, <2>5, <3>4 DEF SInv, Procesos
  <2> QED
    BY <2>4, <2>5
<1>7. CASE Memoria!Compactacion
  <2>1. /\ pedido.paso = "compactar" /\ pedido'.paso = "pedir" /\ pedido'.pid = pedido.pid
        /\ pedido' \in Pedidos
        /\ DOMAIN mapPCBPorParticion' = DOMAIN mapPCBPorParticion
    BY <1>0, <1>7 DEF Memoria!Compactacion, Memoria!CorrerPids, Pedidos
  <2>2. ~Inicial
    BY <2>1 DEF Inicial
  <2>3. /\ Inicializando' = Inicializando /\ PorIniciar = {} /\ PorIniciar' = {}
    BY <1>2, <1>4, <2>1 DEF Inicializando, EnCreacion, PorIniciar
  <2>4. Conversacion'
    BY <1>2, <1>3, <2>1, <2>2, <2>3 DEF Conversacion, Conversando
  <2> QED
    BY <1>2, <2>1, <2>2, <2>3, <2>4 DEF SInv, Procesos
<1> QED
  BY <1>5, <1>6, <1>7 DEF Responder

\* PROCESS_CREATE: the process starts with the room that it was given, or waits
\* behind the others.
LEMMA PasoTerminaDeCrear ==
  ASSUME IInv, SInv, NEW p \in Prioridades, NEW abre \in BOOLEAN, TerminaDeCrear(p, abre)
  PROVE  SInv'
<1> DEFINE q == colaProcesosSinIniciar
           proceso == [Pid |-> nextPid, Prioridad |-> p]
           hay == EnCreacion /\ pedido.paso = "nada"
<1>0. /\ p \in Nat /\ TipoProcesos /\ TipoColas /\ Len(nextTid) \in Nat /\ nextPid \in Nat
  BY KernelAssumption, ColaDeNuevos DEF IInv, TypeOK
<1>1. /\ ~Conversando /\ pc = "cpu" /\ pc' = "despacho" /\ UNCHANGED pedido
      /\ nextPid' = nextPid + 1
      /\ UNCHANGED <<particiones, mapParticiones, mapPCBPorParticion>>
  BY DEF TerminaDeCrear, CrearProceso, Llama, enviarTCBCpu, memoria
<1>2. \/ /\ hay /\ q = <<>> /\ q' = q /\ ArrancarProceso(nextPid, p, abre)
      \/ /\ ~hay \/ q # <<>>
         /\ EnCreacion \/ q # <<>>
         /\ q' = Append(q, proceso) /\ UNCHANGED <<nextTid, colaProcesosInicializados>>
  BY DEF TerminaDeCrear, CrearProceso
<1>3. /\ ~EnFase("iniciar") /\ ~EnFase("iniciar")' /\ ~Inicial /\ ~Inicial' /\ ~Conversando'
      /\ SinLugar' = SinLugar
  BY <1>1 DEF EnFase, Inicial, Conversando, SinLugar, Memoria!Entran, Memoria!espacioLibreSuficiente,
              Memoria!Suma
<1>4. pedido.paso \in {"nada", "espera"} /\ pedido' \in Pedidos
  BY <1>1 DEF SInv, Conversacion, Pedidos, Conversando
<1>5. CASE hay /\ q = <<>> /\ q' = q /\ ArrancarProceso(nextPid, p, abre)
  <2>1. pedido.pid = nextPid /\ nextPid = Len(nextTid) + 1 /\ pedido.paso = "nada"
    BY <1>5, ColaDeNuevos DEF EnCreacion
  <2>2. /\ Len(nextTid') = Len(nextTid) + 1
        /\ DOMAIN colaProcesosInicializados' = DOMAIN colaProcesosInicializados \cup {nextPid}
    BY <1>0, <1>5, <2>1, ArrancarTipo
  <2>3. PorIniciar = {nextPid} /\ PorIniciar' = {}
    BY <1>0, <1>1, <2>1, <2>2 DEF PorIniciar
  <2>4. Conversacion'
    BY <1>0, <1>1, <1>3, <1>4, <1>5, <2>1, <2>2 DEF Conversacion
  <2>5. DOMAIN mapPCBPorParticion = DOMAIN colaProcesosInicializados \cup {nextPid}
    BY <1>3, <2>3 DEF SInv, Procesos
  <2> QED
    BY <1>1, <2>2, <2>3, <2>4, <2>5 DEF SInv, Procesos
<1>6. CASE /\ ~hay \/ q # <<>>
           /\ EnCreacion \/ q # <<>>
           /\ q' = Append(q, proceso) /\ UNCHANGED <<nextTid, colaProcesosInicializados>>
  <2>1. q' # <<>>
    BY <1>6, ColaDeNuevos
  <2>2. pedido.paso = "espera"
    <3>1. CASE q # <<>>
      BY <1>1, <1>3, <3>1 DEF SInv, Conversacion
    <3>2. CASE q = <<>>
      BY <1>4, <1>6, <3>2
    <3> QED
      BY <3>1, <3>2
  <2>3. Conversacion'
    BY <1>1, <1>3, <1>4, <1>6, <2>1, <2>2 DEF SInv, Conversacion
  <2>4. PorIniciar = {} /\ PorIniciar' = {}
    BY <1>1, <2>2 DEF PorIniciar
  <2> QED
    BY <1>1, <1>3, <1>6, <2>3, <2>4 DEF SInv, Procesos
<1> QED
  BY <1>2, <1>5, <1>6

\* A process ends: it leaves the kernel and memory, and whoever waits is asked
\* for again.
LEMMA PasoProcesoFinalizado ==
  ASSUME IInv, SInv, ProcesoFinalizado
  PROVE  SInv'
<1> DEFINE q == colaProcesosSinIniciar
           pid == salida.pid
           ini == colaProcesosInicializados
<1>1. /\ pc = "exitProcess" /\ salida.fase = "memoria" /\ salida \in Salida
      /\ UNCHANGED <<colaProcesosSinIniciar, nextPid, nextTid>>
      /\ \/ /\ pid \in DOMAIN ini /\ DOMAIN ini' = DOMAIN ini \ {pid}
            /\ pc' = pc /\ salida' = [salida EXCEPT !.fase = "iniciar"]
         \/ /\ pid \notin DOMAIN ini /\ DOMAIN ini' = DOMAIN ini
            /\ pc' = "caido" /\ UNCHANGED salida
  BY DEF ProcesoFinalizado, TerminarProceso, EnFase, IInv, TypeOK, TipoFinales
<1>2. ~EnFase("iniciar") /\ ~Inicializando /\ ~Inicial
  BY <1>1 DEF EnFase, Inicializando, Inicial
<1>3. /\ ~Conversando /\ Len(nextTid) \in Nat /\ pedido \in Pedidos
      /\ \/ pedido.paso = "nada" /\ pedido.pid = Len(nextTid) /\ q = <<>>
         \/ pedido.paso = "espera" /\ pedido.pid = Len(nextTid) + 1 /\ q # <<>>
  BY <1>1, <1>2, ColaDeNuevos DEF SInv, Conversacion, Conversando, Pedidos
<1>4. PorIniciar = {}
  BY <1>3 DEF PorIniciar
<1>5. DOMAIN mapPCBPorParticion = DOMAIN ini
  BY <1>2, <1>4 DEF SInv, Procesos
<1>6. CASE pid \in DOMAIN ini
  <2>1. Memoria!TerminateProcess(pid)
    BY <1>5, <1>6 DEF ProcesoFinalizado
  <2>2. /\ DOMAIN mapPCBPorParticion' = DOMAIN mapPCBPorParticion \ {pid}
        /\ pedido' = Memoria!Reintentar(pedido)
    BY <2>1 DEF Memoria!TerminateProcess, Memoria!Liberar, Memoria!consolidarParticiones,
                Memoria!JuntarDerecha, Memoria!JuntarIzquierda, Memoria!Juntar, Memoria!SinClave,
                Memoria!Restrict
  <2>3. /\ pedido'.pid = pedido.pid /\ pedido' \in Pedidos
        /\ pedido'.paso = IF pedido.paso = "espera" THEN "pedir" ELSE pedido.paso
    BY <1>3, <2>2 DEF Memoria!Reintentar, Pedidos
  <2>4. EnFase("iniciar")' /\ ~Inicial'
    BY <1>1, <1>6 DEF EnFase, Inicial, Salida
  <2>5. PorIniciar' = {}
    BY <1>1, <1>3, <2>3 DEF PorIniciar
  <2>6. Conversacion'
    BY <1>1, <1>3, <2>3, <2>4 DEF Conversacion, Conversando, Inicializando
  <2> QED
    BY <1>1, <1>5, <1>6, <2>2, <2>5, <2>6 DEF SInv, Procesos
<1>7. CASE pid \notin DOMAIN ini
  <2>1. UNCHANGED <<particiones, mapParticiones, mapPCBPorParticion, pedido>>
    BY <1>5, <1>7 DEF ProcesoFinalizado, memoria
  <2>2. /\ ~EnFase("iniciar")' /\ ~Conversando' /\ ~Inicial' /\ PorIniciar' = {}
        /\ SinLugar' = SinLugar
    BY <1>1, <1>3, <1>4, <1>7, <2>1 DEF EnFase, Conversando, Inicial, PorIniciar, SinLugar,
          Memoria!Entran, Memoria!espacioLibreSuficiente, Memoria!Suma
  <2>3. Conversacion'
    BY <1>1, <1>3, <2>1, <2>2 DEF SInv, Conversacion
  <2> QED
    BY <1>1, <1>5, <1>7, <2>1, <2>2, <2>3 DEF SInv, Procesos
<1> QED
  BY <1>6, <1>7

\* The loop of exitProcess starts the process that has its room, or ends.
LEMMA PasoIniciarSinIniciar ==
  ASSUME IInv, SInv, NEW abre \in BOOLEAN, IniciarSinIniciar(abre)
  PROVE  SInv'
<1> DEFINE q == colaProcesosSinIniciar
           ini == colaProcesosInicializados
<1>0. /\ TipoProcesos /\ TipoColas /\ Len(nextTid) \in Nat /\ nextPid \in Nat
  BY ColaDeNuevos DEF IInv, TypeOK
<1>1. /\ ~Conversando /\ UNCHANGED <<particiones, mapParticiones, mapPCBPorParticion, pedido>>
      /\ EnFase("iniciar") /\ pc = "exitProcess" /\ ~Inicial
  BY DEF IniciarSinIniciar, memoria, IniciarPendiente, FinExitProcess, EnFase, Inicial, Conversando
<1>2. ~Inicial' /\ ~Conversando' /\ SinLugar' = SinLugar /\ pedido' \in Pedidos
  BY <1>1 DEF Inicial, Conversando, SinLugar, Memoria!Entran, Memoria!espacioLibreSuficiente,
              Memoria!Suma, SInv, Conversacion
<1>3. CASE /\ pedido.paso = "nada" /\ q # <<>> /\ pedido.pid = Head(q).Pid
           /\ IniciarPendiente(abre)
  <2>1. /\ pedido.pid = Len(nextTid) + 1 /\ q \in Seq([Pid : Nat, Prioridad : Nat])
    BY <1>3, ColaDeNuevos
  <2>2. Head(q).Pid = Len(nextTid) + 1 /\ Head(q).Prioridad \in Nat
    <3> DEFINE S == [Pid : Nat, Prioridad : Nat]
    <3>1. Head(q) \in S
      <4> HIDE DEF S
      <4> QED
        BY <1>3, <2>1, HeadTailProperties DEF S
    <3> QED
      BY <1>3, <2>1, <3>1
  <2>3. /\ Len(nextTid') = Len(nextTid) + 1
        /\ DOMAIN ini' = DOMAIN ini \cup {pedido.pid}
    BY <1>0, <1>3, <2>1, <2>2, ArrancarTipo DEF IniciarPendiente
  <2>4. PorIniciar = {pedido.pid} /\ PorIniciar' = {}
    BY <1>0, <1>1, <1>3, <2>1, <2>3 DEF PorIniciar
  <2>5. UNCHANGED <<pc, salida>>
    BY <1>3 DEF IniciarPendiente, cadena, finales
  <2>6. EnFase("iniciar")'
    BY <1>1, <2>5 DEF EnFase
  <2>7. Conversacion'
    BY <1>0, <1>1, <1>2, <1>3, <2>1, <2>3, <2>6 DEF Conversacion
  <2>8. DOMAIN mapPCBPorParticion = DOMAIN ini \cup {pedido.pid}
    BY <1>1, <2>4 DEF SInv, Procesos
  <2> QED
    BY <1>1, <2>3, <2>4, <2>7, <2>8 DEF SInv, Procesos
<1>4. CASE (pedido.paso = "espera" \/ q = <<>>) /\ FinExitProcess
  <2>1. /\ UNCHANGED <<colaProcesosSinIniciar, nextPid, nextTid, colaProcesosInicializados>>
        /\ pc' \in {"lockMutex", "detenido", "libre"}
    BY <1>4 DEF FinExitProcess, procesos, Retornar
  <2>2. /\ ~(pedido.paso = "nada" /\ pedido.pid = Len(nextTid) + 1)
        /\ pedido.paso = "espera" => q # <<>>
    BY <1>1, <1>4 DEF SInv, Conversacion, Inicializando, EnFase
  <2>3. Conversacion'
    BY <1>1, <1>2, <1>4, <2>1, <2>2 DEF SInv, Conversacion
  <2>4. PorIniciar' = PorIniciar
    BY <1>1, <2>1 DEF PorIniciar
  <2> QED
    BY <1>1, <2>1, <2>3, <2>4 DEF SInv, Procesos
<1> QED
  BY <1>3, <1>4 DEF IniciarSinIniciar

\* A search that a goroutine crosses is one of exitHilo, of a loop of exitProcess or
\* of a syscall, and the chain goes on with exitHilo.
LEMMA PasoCruce ==
  ASSUME Cruce
  PROVE  /\ \/ pc \in {"cpu", "exitHilo"}
            \/ pc = "exitProcess" /\ salida.fase \in {"ready", "exec", "block"}
         /\ pc' = "exitHilo" /\ UNCHANGED procesos
  BY DEF Cruce, DesbloquearCruzado, RecorrerCruzado, CancelarCruzado, exitHiloCruzado,
         exitHiloDe, PideCancelar, Llama, cadena

\* The steps in which memory has no part admit no process and end none.
LEMMA PasoSinMemoria ==
  ASSUME IInv, SInv, SinMemoria
  PROVE  SInv'
<1>1. ~Conversando /\ ~EnCreacion /\ UNCHANGED memoria
  BY DEF SinMemoria
<1>2. Next
  BY DEF SinMemoria, PasoScript, PasoPropio, Next
<1>3. PasoScript => pc = "cpu"
  BY DEF PasoScript, Syscall, DejaCpu, CrearProceso, CrearHilo, EntrarHilo, CancelarHilo,
         PideCancelar, CrearMutex, BloquearMutex, LiberarMutex, DumpMemory, ManejarIo, FinalizarHilo, FinalizarProceso,
         SegmentationFault, DevolverPidTid, Llama
<1>4. ~EnFase("iniciar") /\ ~EnFase("memoria")
  BY <1>3, PasoCruce DEF SinMemoria, PasoPropio, EnFase
<1>5. /\ ~TerminarProceso /\ \A abre \in BOOLEAN : ~IniciarPendiente(abre)
  BY <1>4 DEF TerminarProceso, IniciarPendiente
<1>6. ASSUME NEW p \in Prioridades, NEW hay \in BOOLEAN, NEW abre \in BOOLEAN
      PROVE  ~CrearProceso(p, hay, abre)
  <2> SUFFICES ASSUME CrearProceso(p, hay, abre) PROVE FALSE
    OBVIOUS
  <2>1. pc = "cpu" /\ nextPid' = nextPid + 1 /\ nextPid \in Nat /\ pc' = "despacho"
    BY ColaDeNuevos DEF CrearProceso, Llama, enviarTCBCpu
  <2>2. nextPid' # nextPid
    BY <2>1
  <2>3. PasoPropio
    BY <2>2, PasoCruce DEF SinMemoria, PasoScript, procesos
  <2>4. CASE RafagaSinSyscall
    BY <2>2, <2>4 DEF RafagaSinSyscall, procesos
  <2>5. CASE ejecutarInstruccion \/ RecibirPIDyTID \/ SeguirLockMutex
    BY <2>1, <2>5 DEF ejecutarInstruccion, RecibirPIDyTID, SeguirLockMutex
  <2>6. CASE \E e \in esperas, hecho \in BOOLEAN : RespuestaDump(e, hecho)
    BY <2>2, <2>6 DEF RespuestaDump, procesos
  <2>7. CASE \/ DesbloquearHilosJoin \/ LiberarAlSalir \/ VolverDeCancelar
             \/ RecorrerCola \/ SiguienteCola \/ FinExitProcess
    BY <2>1, <2>7 DEF DesbloquearHilosJoin, LiberarAlSalir, VolverDeCancelar, RecorrerCola,
                      SiguienteCola, FinExitProcess, EnFase
  <2> QED
    BY <2>3, <2>4, <2>5, <2>6, <2>7, <1>5 DEF PasoPropio, PasoKernel
<1>7. SinProcesos
  BY <1>1, <1>2, <1>5, <1>6, ProcesosOtros DEF SinProcesos
<1> QED
  BY <1>1, <1>4, <1>7, PasoSinProcesos

\* The goroutines of IO, at any moment.
LEMMA PasoDeIo ==
  ASSUME IInv, SInv, NEW id \in (1..MaxPid) \X Tids, Io(id)
  PROVE  SInv'
<1>1. PICK e \in esperas : TerminaIo(e) \/ EncolaIo(e)
  BY DEF Io, PasoIo
<1>2. UNCHANGED procesos /\ UNCHANGED cadena /\ UNCHANGED memoria /\ salida' \in ReflejosDe(salida)
  BY <1>1 DEF Io, TerminaIo, SinSuHilo, QuedaEncolar, EncolaIo, Reflejar
<1>3. salida'.fase = salida.fase
  <2>1. \/ salida' = salida
        \/ \E x, a : salida' = [salida EXCEPT !.arr = x, !.alias = a]
    BY <1>2 DEF ReflejosDe, Reflejos
  <2>2. salida \in Salida
    BY DEF IInv, TypeOK, TipoFinales
  <2> QED
    BY <2>1, <2>2 DEF Salida
<1> QED
  BY <1>2, <1>3, PasoSinProcesos DEF SinProcesos, procesos, cadena

\* The invariant is inductive, next to that of the kernel.
LEMMA SInvPaso == IInv /\ SInv /\ [NextSistema]_todas => SInv'
<1> SUFFICES ASSUME IInv, SInv, [NextSistema]_todas PROVE SInv'
  OBVIOUS
<1>1. CASE SinMemoria \/ \E id \in (1..MaxPid) \X Tids : Io(id)
  BY <1>1, PasoSinMemoria, PasoDeIo
<1>2. CASE (Terminado /\ ~Conversando /\ UNCHANGED memoria) \/ UNCHANGED todas
  <2>1. UNCHANGED vars /\ UNCHANGED memoria
    BY <1>2 DEF Terminado, todas
  <2> QED
    BY <2>1, PasoSinProcesos DEF SinProcesos, vars, procesos, cadena, finales
<1> QED
  BY <1>1, <1>2, PasoConsulta, PasoResponder, PasoTerminaDeCrear, PasoProcesoFinalizado,
     PasoIniciarSinIniciar DEF NextSistema

\* What the kernel and memory know of each other, in every state.
THEOREM InvarianteDelSistema == SpecSistema => []SInv
  BY SInvInicial, SInvPaso, InvarianteDelKernel, PTL DEF SpecSistema

\* Under the rules both have the same processes whenever they do not talk: no exit
\* loses a partition, and none is for a process that memory does not hold, which would
\* end the kernel (kernel 457).
THEOREM SiempreMismosProcesos == ReglasCumplidas => (SpecSistema => []MismosProcesos)
<1> SUFFICES ASSUME ReglasCumplidas PROVE SpecSistema => []MismosProcesos
  OBVIOUS
<1> QED
  BY HilosSanos, InvarianteDelSistema, SistemaCumpleKernel, SInvMismos, PTL

\* The first process that waits would not fit, not even after compacting: no exit
\* forgets to ask again for as many as fit (kernel 420).
THEOREM NadieSiempreEsperaConLugar == SpecSistema => []NadieEsperaConLugar
  BY InvarianteDelSistema, InvarianteDelKernel, SInvSinLugar, PTL

-----------------------------------------------------------------------------
(* What the two together give *)

\* The scheduler stops only when no process is initialised.
Parado == pc = "detenido" => DOMAIN colaProcesosInicializados = {}

\* And then nobody starts one.
LEMMA ParadoPaso ==
  ASSUME IInv, Parado, [Next]_vars
  PROVE  Parado'
<1> DEFINE ini == colaProcesosInicializados
<1> SUFFICES ASSUME pc' = "detenido" PROVE DOMAIN ini' = {}
  BY DEF Parado
<1>1. pc = "detenido" \/ DOMAIN ini = {}
  <2>1. CASE Syscall
    BY <2>1 DEF Syscall, CrearProceso, CrearHilo, EntrarHilo, joinHilo, CancelarHilo,
       PideCancelar, CrearMutex, BloquearMutex, TomarMutex, EsperarMutex, LiberarMutex,
       DumpMemory, enviarTCBCpu, exitHilo, exitHiloDe, Retornar
  <2>2. CASE DejaCpu
    BY <2>2 DEF DejaCpu, ManejarIo, FinalizarHilo, FinalizarProceso, SegmentationFault,
       DevolverPidTid, exitProcess, exitHilo, exitHiloDe, Retornar
  <2>3. CASE LiberarAlSalir
    <3>1. saliendo \in Saliendo
      BY DEF IInv, TypeOK, TipoFinales
    <3>2. saliendo.luego # "detenido"
      BY <3>1 DEF Saliendo
    <3> QED
      BY <2>3, <3>2 DEF LiberarAlSalir, Retornar
  <2>4. CASE PasoKernel /\ ~LiberarAlSalir
    BY <2>4 DEF PasoKernel, cadena, ejecutarInstruccion, RecibirPIDyTID, RafagaSinSyscall,
       SeguirLockMutex, RespuestaDump, DesbloquearHilosJoin, VolverDeCancelar, RecorrerCola,
       SiguienteCola, TerminarProceso, IniciarPendiente, FinExitProcess, enviarTCBCpu,
       exitProcess, exitHilo, exitHiloDe, EnFase, Retornar
  <2>5. CASE \/ Terminado \/ UNCHANGED vars
             \/ \E e \in esperas : TerminaIo(e) \/ EncolaIo(e)
    BY <2>5 DEF Terminado, vars, cadena, TerminaIo, SinSuHilo, QuedaEncolar, EncolaIo
  <2> QED
    BY <2>1, <2>2, <2>3, <2>4, <2>5, PasoCruce DEF Next
<1>2. DOMAIN ini = {}
  BY <1>1 DEF Parado
<1>3. /\ \A p \in Prioridades, hay, abre \in BOOLEAN : ~CrearProceso(p, hay, abre)
      /\ \A abre \in BOOLEAN : ~IniciarPendiente(abre)
  BY DEF CrearProceso, enviarTCBCpu, IniciarPendiente, EnFase, cadena
<1>4. CASE Next
  BY <1>2, <1>3, <1>4, ProcesosOtros
<1>5. CASE UNCHANGED vars
  BY <1>2, <1>5 DEF vars, procesos
<1> QED
  BY <1>4, <1>5

\* With fixed partitions they stay as they were at the start.
FijasComoSiempre == EsquemaMemoria = "FIJAS" => particiones = Particiones

\* No step of the system changes their sizes.
LEMMA FijasSinCambio == SpecSistema => []FijasComoSiempre
<1>1. InitSistema => FijasComoSiempre
  BY DEF InitSistema, FijasComoSiempre
<1>2. Mem!IInv /\ FijasComoSiempre /\ [NextSistema]_todas => FijasComoSiempre'
  BY PasoDeMemoria, Mem!FijasIguales, SupuestoDeMemoria DEF FijasComoSiempre
<1> QED
  BY <1>1, <1>2, InvarianteDeMemoria, PTL DEF SpecSistema

\* A process that does not fit in the whole memory, or in any partition of it.
NuncaEntra(size) ==
  IF EsquemaMemoria = "FIJAS" THEN \A i \in DOMAIN Particiones : ~(Particiones[i] >= size)
  ELSE ~(Memoria!Tamanio_Memoria >= size)

\* With no process in memory every partition is free, and they add up to it.
LEMMA SinProcesosTodoLibre ==
  ASSUME Mem!IInv, DOMAIN mapPCBPorParticion = {}
  PROVE  /\ \A i \in DOMAIN particiones : ~mapParticiones[i]
         /\ Memoria!Suma(particiones, {i \in DOMAIN particiones : ~mapParticiones[i]})
              = Memoria!Tamanio_Memoria
<1>1. Mem!TablaOK(particiones, mapParticiones, mapPCBPorParticion)
      /\ Mem!Total(particiones) = Mem!Tamanio_Memoria
  BY DEF Mem!IInv, Mem!Tablas
<1>2. DOMAIN mapParticiones = DOMAIN particiones
  BY <1>1 DEF Mem!TablaOK
<1>3. \A i \in DOMAIN particiones : ~mapParticiones[i]
  BY <1>1, <1>2 DEF Mem!TablaOK
<1>4. {i \in DOMAIN particiones : ~mapParticiones[i]} = DOMAIN particiones
  BY <1>3
<1>5. Memoria!Suma(particiones, DOMAIN particiones) = Memoria!Suma(Particiones, DOMAIN Particiones)
  BY <1>1, MismaSuma DEF Mem!Total, Mem!Tamanio_Memoria
<1> QED
  BY <1>3, <1>4, <1>5 DEF Memoria!Tamanio_Memoria

\* Once the scheduler has stopped, memory has no process and all of it is free,
\* and a process that waits would not fit even so.
ParadoSinNadie ==
  (pc = "detenido" /\ ~Conversando) =>
    /\ DOMAIN mapPCBPorParticion = {} /\ \A i \in DOMAIN particiones : ~mapParticiones[i]
    /\ colaProcesosSinIniciar # <<>> => NuncaEntra(pedido.size)

\* "No hay mas procesos Inicializados, se pausa la planificacion" (kernel 809) is
\* said when all are over, whatever scripts do: nobody who fits is left behind,
\* and no byte stays with a process that is gone.
THEOREM SiempreParadoSinNadie == SpecSistema => []ParadoSinNadie
<1>1. Init => Parado
  <2> SUFFICES ASSUME Init, pc = "detenido" PROVE DOMAIN colaProcesosInicializados = {}
    BY DEF Parado
  <2>1. colaProcesosInicializados = [p \in {} |-> <<>>]
    BY DEF Init
  <2> QED
    BY <2>1
<1>2. IInv /\ Parado /\ [Next]_vars => Parado'
  BY ParadoPaso
<1>3. IInv /\ SInv /\ Parado /\ Mem!IInv /\ FijasComoSiempre => ParadoSinNadie
  <2> SUFFICES ASSUME IInv, SInv, Parado, Mem!IInv, FijasComoSiempre,
                      pc = "detenido", ~Conversando
               PROVE  /\ DOMAIN mapPCBPorParticion = {}
                      /\ \A i \in DOMAIN particiones : ~mapParticiones[i]
                      /\ colaProcesosSinIniciar # <<>> => NuncaEntra(pedido.size)
    BY DEF ParadoSinNadie
  <2>1. ~EnFase("iniciar") /\ ~Inicializando /\ ~Inicial
    BY DEF EnFase, Inicializando, Inicial, Conversando
  <2>2. PorIniciar = {}
    BY <2>1, ColaDeNuevos DEF PorIniciar, SInv, Conversacion
  <2>3. DOMAIN mapPCBPorParticion = {}
    BY <2>1, <2>2 DEF SInv, Procesos, Parado
  <2>4. colaProcesosSinIniciar # <<>> => SinLugar
    BY <2>1 DEF SInv, Conversacion
  <2>5. SinLugar => NuncaEntra(pedido.size)
    <3>1. CASE EsquemaMemoria = "FIJAS"
      BY <2>3, <3>1, SinProcesosTodoLibre
         DEF SinLugar, NuncaEntra, FijasComoSiempre, Memoria!Entran
    <3>2. CASE EsquemaMemoria = "DINAMICAS"
      BY <2>3, <3>2, SinProcesosTodoLibre DEF SinLugar, NuncaEntra, Memoria!espacioLibreSuficiente
    <3> QED
      BY <3>1, <3>2, SistemaAssumption DEF Memoria!MemoriaAssumption
  <2> QED
    BY <2>3, <2>4, <2>5, SinProcesosTodoLibre
<1> QED
  BY <1>1, <1>2, <1>3, InvarianteDelKernel, InvarianteDelSistema, InvarianteDeMemoria,
     FijasSinCambio, SistemaCumpleKernel, PTL DEF Spec

\* Every thread has the memory of its process, and while the scheduler waits
\* every process in memory has a thread.
HilosConMemoria ==
  ~Conversando =>
    /\ \A t \in Vivos : t.Pid \in DOMAIN mapPCBPorParticion
    /\ pc = "libre" => DOMAIN mapPCBPorParticion = {t.Pid : t \in Vivos}

\* Under the rules no thread outlives the partition of its process, and no
\* partition stays with a process that no thread is left of (kernel 414, memory 795).
THEOREM SiempreHilosConMemoria == ReglasCumplidas => (SpecSistema => []HilosConMemoria)
<1> SUFFICES ASSUME ReglasCumplidas PROVE SpecSistema => []HilosConMemoria
  OBVIOUS
<1>1. Sano /\ Suelto /\ SInv => HilosConMemoria
  <2> SUFFICES ASSUME Sano, Suelto, SInv, ~Conversando
               PROVE  /\ \A t \in Vivos : t.Pid \in DOMAIN mapPCBPorParticion
                      /\ pc = "libre" => DOMAIN mapPCBPorParticion = {t.Pid : t \in Vivos}
    BY DEF HilosConMemoria
  <2>1. DOMAIN mapPCBPorParticion = DOMAIN colaProcesosInicializados \cup PorIniciar
    BY DEF SInv, Procesos, Inicial, Conversando
  <2>2. \A t \in Vivos : t.Pid \in DOMAIN mapPCBPorParticion
    BY <2>1 DEF Sano, HInv, Vidas
  <2>3. ASSUME pc = "libre", NEW p \in DOMAIN mapPCBPorParticion PROVE \E t \in Vivos : t.Pid = p
    <3>1. ~EnFase("iniciar") /\ ~Inicializando
      BY <2>3 DEF EnFase, Inicializando
    <3>2. PorIniciar = {}
      BY <3>1, ColaDeNuevos DEF Sano, PorIniciar, SInv, Conversacion
    <3>3. p \in DOMAIN colaProcesosInicializados /\ salida.fase = "nada"
      BY <2>1, <2>3, <3>2 DEF Sano, HInv, Cadena
    <3>4. <<p, 0>> \in IdsDe(Vivos)
      BY <3>3 DEF Suelto, Principales
    <3>5. PICK t \in Vivos : IdDe(t) = <<p, 0>>
      BY <3>4 DEF IdsDe
    <3> QED
      BY <3>5 DEF IdDe
  <2> QED
    BY <2>2, <2>3
<1> QED
  BY <1>1, SanoYSuelto, InvarianteDelSistema, SistemaCumpleKernel, PTL

\* What is proved of threads, mutexes and joins holds with the memory that there is.
THEOREM SistemaBajoReglas ==
  ReglasCumplidas =>
    (SpecSistema =>
       /\ [](UnLugarPorHilo /\ BloqueadoConDespertador /\ MutexConVivos /\ SinHuerfanos)
       /\ [](ExitEsDefinitivo /\ CpuEjecutaExec /\ (NoEspera => NadieTrabado))
       /\ CumpleCicloDeVida /\ OrdenDeReady /\ SoloElDuenioLibera)
<1> SUFFICES ASSUME ReglasCumplidas
             PROVE  SpecSistema =>
                      /\ [](UnLugarPorHilo /\ BloqueadoConDespertador /\ MutexConVivos /\ SinHuerfanos)
                      /\ [](ExitEsDefinitivo /\ CpuEjecutaExec /\ (NoEspera => NadieTrabado))
                      /\ CumpleCicloDeVida /\ OrdenDeReady /\ SoloElDuenioLibera
  OBVIOUS
<1>1. Spec => /\ []UnLugarPorHilo /\ []BloqueadoConDespertador /\ []MutexConVivos /\ []SinHuerfanos
              /\ []ExitEsDefinitivo /\ []CpuEjecutaExec
  BY SiempreUnLugar, SiempreConDespertador, SiempreMutexConVivos, SiempreSinHuerfanos,
     SiempreExitDefinitivo, SiempreEjecutaExec
<1>2. Sano /\ Suelto => (NoEspera => NadieTrabado)
  BY SueltoLibre
<1>3. Spec => CumpleCicloDeVida /\ OrdenDeReady /\ SoloElDuenioLibera
  BY CumpleSiempreCiclo, SiempreOrdenDeReady, SiempreSueltaElDuenio
<1> QED
  BY <1>1, <1>2, <1>3, SanoYSuelto, SistemaCumpleKernel, PTL
=============================================================================
