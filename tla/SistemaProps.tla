---------------------------- MODULE SistemaProps ----------------------------
(***************************************************************************)
(* The properties of the kernel and memory together.                       *)
(***************************************************************************)
EXTENDS Sistema

\* Memory has answered for a process that the kernel has still to start.
PorIniciar == IF pedido.paso = "nada" /\ pedido.pid > Len(nextTid) THEN {pedido.pid} ELSE {}

\* Whenever the kernel is not waiting for memory, both have the same processes: no
\* partition is left behind or lost.  So memory holds each process that exitProcess is
\* about to end, and never answers 404, with which the kernel aborts (kernel 457).
MismosProcesos ==
  /\ ~Conversando => DOMAIN mapPCBPorParticion = DOMAIN colaProcesosInicializados \cup PorIniciar
  /\ EnFase("memoria") => salida.pid \in DOMAIN mapPCBPorParticion
  /\ pc # "caido"

\* No process waits while there is room for the first of the queue: each exit,
\* whichever way, retries until it is full again (kernel 420, 345).
NadieEsperaConLugar ==
  (~Conversando /\ ~EnFase("iniciar") /\ colaProcesosSinIniciar # <<>>) =>
    /\ pedido.paso = "espera" /\ pedido.pid = Head(colaProcesosSinIniciar).Pid
    /\ Memoria!Entran(pedido.size) = {}
    /\ EsquemaMemoria = "DINAMICAS" => ~Memoria!espacioLibreSuficiente(pedido.size)

\* Every process that is created starts, in the end: the scheduler does not stop
\* (kernel 809) while one waits, and none is overlooked.
NuevoLlega ==
  \A p \in 1..MaxPid :
    (\E i \in DOMAIN colaProcesosSinIniciar : colaProcesosSinIniciar[i].Pid = p) ~> p <= Len(nextTid)
=============================================================================
