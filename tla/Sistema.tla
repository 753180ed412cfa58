------------------------------ MODULE Sistema ------------------------------
(***************************************************************************)
(* The kernel and memory together: how processes get and give back their   *)
(* memory.  In Kernel the answers of memory are inputs ("hay"); here they  *)
(* are those of Memoria.                                                   *)
(*                                                                         *)
(* The kernel waits for memory inside inicializarProceso (kernel 307), so  *)
(* only the goroutines of IO move meanwhile.  Contexts and the bytes of    *)
(* user memory have no part in this.                                       *)
(***************************************************************************)
EXTENDS Kernel

CONSTANTS
  EsquemaMemoria, AlgoritmoBusqueda, Particiones, Tamanios  \* those of Memoria

VARIABLES
  particiones, mapParticiones, mapPCBPorParticion, mapPIDxBaseLimit, mapPCBPorTCB,
  MemoriaUsuario, pedido      \* those of Memoria

Memoria == INSTANCE Memoria WITH Direcciones <- {}

ASSUME SistemaAssumption == Memoria!MemoriaAssumption

memoria == <<particiones, mapParticiones, mapPCBPorParticion, mapPIDxBaseLimit, mapPCBPorTCB,
             MemoriaUsuario, pedido>>
todas == <<vars, memoria>>

\* Memory has been asked for room and has not given its last answer.
Conversando == pedido.paso \in {"pedir", "compactar"}

\* Memory has answered for the process that PROCESS_CREATE is creating.
EnCreacion == pedido.pid = nextPid

-----------------------------------------------------------------------------
(* inicializarProceso *)

esElPrimerProcesoSinIniciar ==
  \/ /\ Llama("PROCESS_CREATE") /\ nextPid <= MaxPid
     /\ colaProcesosSinIniciar = <<>> /\ pedido.pid < nextPid
  \/ /\ EnFase("iniciar") /\ colaProcesosSinIniciar # <<>>
     /\ pedido.pid < Head(colaProcesosSinIniciar).Pid

\* The first process that waits, or the new one when none does, asks for room.
consultaEspacioAMemoria(size) ==
  /\ esElPrimerProcesoSinIniciar
  /\ Memoria!Pedir(size)
  /\ UNCHANGED vars

\* Memory answers, or compacts, after which the kernel asks again.
Responder ==
  /\ Memoria!CreateProcess \/ Memoria!Compactacion
  /\ UNCHANGED vars

\* PROCESS_CREATE goes on with the answer.  Behind others that wait, the new
\* process is not asked for.
TerminaDeCrear(prioridad, abre) ==
  /\ ~Conversando
  /\ \/ EnCreacion /\ CrearProceso(prioridad, pedido.paso = "nada", abre)
     \/ colaProcesosSinIniciar # <<>> /\ CrearProceso(prioridad, FALSE, abre)
  /\ UNCHANGED memoria

-----------------------------------------------------------------------------
(* exitProcess *)

\* Mutant: memory is not told.
ProcesoFinalizado_SinAviso == TerminarProceso /\ UNCHANGED memoria

\* Memory is told that the process is over, if it knows it.
ProcesoFinalizado ==
  /\ TerminarProceso
  /\ IF salida.pid \in DOMAIN mapPCBPorParticion
     THEN Memoria!TerminateProcess(salida.pid) ELSE UNCHANGED memoria

\* Mutant: one process starts, and the rest of the queue waits for the next exit.
IniciarSinIniciar_UnoSolo(abre) ==
  /\ ~Conversando
  /\ \/ /\ pedido.paso = "nada" /\ colaProcesosSinIniciar # <<>>
        /\ pedido.pid = Head(colaProcesosSinIniciar).Pid
        /\ IniciarPendiente(abre)
     \/ FinExitProcess
  /\ UNCHANGED memoria

\* Mutant: the loop leaves the last one of the queue.
IniciarSinIniciar_SalvoUltimo(abre) ==
  /\ ~Conversando
  /\ \/ /\ pedido.paso = "nada" /\ Len(colaProcesosSinIniciar) > 1
        /\ pedido.pid = Head(colaProcesosSinIniciar).Pid
        /\ IniciarPendiente(abre)
     \/ /\ pedido.paso = "espera" \/ Len(colaProcesosSinIniciar) <= 1
        /\ FinExitProcess
  /\ UNCHANGED memoria

\* The loop over the processes that wait: the first one starts if it has its
\* room, and the loop ends when none is left or there is no room.
IniciarSinIniciar(abre) ==
  /\ ~Conversando
  /\ \/ /\ pedido.paso = "nada" /\ colaProcesosSinIniciar # <<>>
        /\ pedido.pid = Head(colaProcesosSinIniciar).Pid
        /\ IniciarPendiente(abre)
     \/ /\ pedido.paso = "espera" \/ colaProcesosSinIniciar = <<>>
        /\ FinExitProcess
  /\ UNCHANGED memoria

-----------------------------------------------------------------------------
(* The rest of the kernel, and the specification *)

\* The steps in which memory has no part.
PasoScript == (Syscall \/ DejaCpu) /\ nextPid' = nextPid
PasoPropio == PasoKernel /\ ~EnFase("memoria") /\ ~EnFase("iniciar")

SinMemoria ==
  /\ ~Conversando /\ ~EnCreacion
  /\ PasoScript \/ PasoPropio \/ Cruce
  /\ UNCHANGED memoria

Io(id) == PasoIo(id) /\ UNCHANGED memoria

\* The kernel is started: memory is about to answer for the initial process.
InitSistema ==
  /\ Init
  /\ particiones = Particiones
  /\ mapParticiones = [i \in DOMAIN Particiones |-> FALSE]
  /\ mapPCBPorParticion = <<>> /\ mapPIDxBaseLimit = <<>> /\ mapPCBPorTCB = <<>>
  /\ MemoriaUsuario = [b \in 0..(Memoria!Tamanio_Memoria - 1) |-> 0]
  /\ \E size \in Tamanios :
       /\ pedido = [pid |-> 1, size |-> size, paso |-> "pedir", compacto |-> FALSE]
       /\ colaReadyHilo # <<>> <=> Memoria!Entran(size) # {}

NextSistema ==
  \/ \E size \in Tamanios : consultaEspacioAMemoria(size)
  \/ Responder
  \/ \E p \in Prioridades, abre \in BOOLEAN : TerminaDeCrear(p, abre)
  \/ ProcesoFinalizado
  \/ \E abre \in BOOLEAN : IniciarSinIniciar(abre)
  \/ SinMemoria
  \/ \E id \in (1..MaxPid) \X Tids : Io(id)
  \/ Terminado /\ ~Conversando /\ UNCHANGED memoria

SpecSistema == InitSistema /\ [][NextSistema]_todas

\* Calls return and sleeps end (see Kernel), and every script comes to its end.
FairSistema ==
  /\ SpecSistema
  /\ WF_todas(Responder)
  /\ WF_todas(\E size \in Tamanios : EnFase("iniciar") /\ consultaEspacioAMemoria(size))
  /\ WF_todas(\E p \in Prioridades, abre \in BOOLEAN : EnCreacion /\ TerminaDeCrear(p, abre))
  /\ WF_todas(ProcesoFinalizado) /\ WF_todas(\E abre \in BOOLEAN : IniciarSinIniciar(abre))
  /\ WF_todas(SinMemoria /\ PasoPropio)
  /\ \A id \in (1..MaxPid) \X Tids : WF_todas(Io(id))
  /\ SF_todas(SinMemoria /\ DejaCpu)
  /\ \A pid \in 1..MaxPid : SF_todas(hilo[1] = pid /\ SinMemoria /\ FinalizarProceso)
=============================================================================
