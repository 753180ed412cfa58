------------------------------- MODULE Memoria -------------------------------
(***************************************************************************)
(* The memory module (src/memoria/utils/utils.go): the partitions of user  *)
(* memory, fixed or dynamic, the base and limit of each process, and the   *)
(* contexts of threads.  Its clients take turns (see Kernel.tla), so every *)
(* request is one step; what the kernel waits for is in "pedido".          *)
(*                                                                         *)
(* Indexes count from 1 here and from 0 in the code; addresses from 0.     *)
(***************************************************************************)
EXTENDS Integers, Sequences, FiniteSets, Functions, SequencesExt

CONSTANTS
  EsquemaMemoria,     \* "FIJAS" or "DINAMICAS"
  AlgoritmoBusqueda,  \* "FIRST", "BEST" or "WORST"
  Particiones,        \* sizes of the partitions at the start
  Tamanios,           \* sizes that processes ask for
  Direcciones,        \* logical addresses at which scripts write
  MaxPid,             \* bound: processes created in a run
  MaxTid              \* bound: threads created in a process

ASSUME MemoriaAssumption ==
  /\ EsquemaMemoria \in {"FIJAS", "DINAMICAS"}
  /\ AlgoritmoBusqueda \in {"FIRST", "BEST", "WORST"}
  /\ Particiones \in Seq(Nat \ {0}) /\ Len(Particiones) > 0
  /\ EsquemaMemoria = "DINAMICAS" => Len(Particiones) = 1
  /\ Tamanios \subseteq Nat \ {0}
  /\ Direcciones \subseteq Nat
  /\ MaxPid \in Nat \ {0}
  /\ MaxTid \in Nat

VARIABLES
  particiones,         \* the size of each partition
  mapParticiones,      \* whether each is occupied
  mapPCBPorParticion,  \* pid -> its partition
  mapPIDxBaseLimit,    \* pid -> the addresses that it may use
  mapPCBPorTCB,        \* PCB -> contexts of its threads
  MemoriaUsuario,      \* byte -> the last process that wrote it (0: nobody)
  pedido               \* the process that the kernel wants to start

tabla == <<particiones, mapParticiones, mapPCBPorParticion>>
vars == <<tabla, mapPIDxBaseLimit, mapPCBPorTCB, MemoriaUsuario, pedido>>

Suma(s, I) == SumFunctionOnSet(s, I)
Tamanio_Memoria == Suma(Particiones, DOMAIN Particiones)
Tids == 0..(MaxTid - 1)
Pids == 1..MaxPid

\* A key of mapPCBPorTCB.  It holds the base and the limit of the process.
PCB(pid, v) == [Pid |-> pid, Base |-> v.Base, Limit |-> v.Limit]

-----------------------------------------------------------------------------
(* Choice of a partition *)

\* Mutant: occupied partitions are not left out.
Entran_Ocupadas(size) == {i \in DOMAIN particiones : particiones[i] >= size}

Entran(size) == {i \in DOMAIN particiones : ~mapParticiones[i] /\ particiones[i] >= size}

\* firstFit, bestFit and worstFit take the first of those that are as good.
EsMejor(i, j) ==
  CASE AlgoritmoBusqueda = "FIRST" -> i <= j
    [] AlgoritmoBusqueda = "BEST" -> particiones[i] < particiones[j] \/ (particiones[i] = particiones[j] /\ i <= j)
    [] AlgoritmoBusqueda = "WORST" -> particiones[i] > particiones[j] \/ (particiones[i] = particiones[j] /\ i <= j)

asignarPorAlgoritmo(size) ==
  CHOOSE i \in Entran(size) : \A j \in Entran(size) : EsMejor(i, j)

espacioLibreSuficiente(size) ==
  Suma(particiones, {i \in DOMAIN particiones : ~mapParticiones[i]}) >= size

-----------------------------------------------------------------------------
(* CREATE PROCESS *)

\* Mutant: the remainder of a divided partition is one byte short.
subdividirParticion_Corta(n, size) ==
  IF particiones[n] > size + 1
  THEN /\ particiones' = Append([particiones EXCEPT ![n] = size], particiones[n] - size - 1)
       /\ mapParticiones' = Append([mapParticiones EXCEPT ![n] = TRUE], FALSE)
  ELSE /\ particiones' = [particiones EXCEPT ![n] = size]
       /\ mapParticiones' = [mapParticiones EXCEPT ![n] = TRUE]

\* The remainder becomes a free partition, after the last one.
subdividirParticion(n, size) ==
  /\ particiones' = Append([particiones EXCEPT ![n] = size], particiones[n] - size)
  /\ mapParticiones' = Append([mapParticiones EXCEPT ![n] = TRUE], FALSE)

BaseYLimite(n, sizes) ==
  LET base == Suma(sizes, 1..(n - 1)) IN [Base |-> base, Limit |-> base + sizes[n] - 1]

\* Mutant: a process that finds no room is told to compact in any case.
ContestarSinLugar_Siempre == pedido' = [pedido EXCEPT !.paso = "compactar"]

\* No free partition is large enough: the kernel is told to compact, or to wait.
ContestarSinLugar ==
  pedido' = [pedido EXCEPT !.paso =
               IF EsquemaMemoria = "DINAMICAS" /\ espacioLibreSuficiente(pedido.size)
               THEN "compactar" ELSE "espera"]

\* The process gets partition n, cut to its size if partitions are dynamic.
Instalar(n) ==
  LET v == BaseYLimite(n, particiones')
  IN /\ \/ /\ EsquemaMemoria = "DINAMICAS" /\ particiones[n] > pedido.size
           /\ subdividirParticion(n, pedido.size)
        \/ /\ EsquemaMemoria = "FIJAS" \/ particiones[n] = pedido.size
           /\ mapParticiones' = [mapParticiones EXCEPT ![n] = TRUE]
           /\ UNCHANGED particiones
     /\ mapPIDxBaseLimit' = [p \in DOMAIN mapPIDxBaseLimit \cup {pedido.pid} |->
                               IF p = pedido.pid THEN v ELSE mapPIDxBaseLimit[p]]
     /\ mapPCBPorParticion' = [p \in DOMAIN mapPCBPorParticion \cup {pedido.pid} |->
                                 IF p = pedido.pid THEN n ELSE mapPCBPorParticion[p]]
     /\ mapPCBPorTCB' = [k \in DOMAIN mapPCBPorTCB \cup {PCB(pedido.pid, v)} |->
                           IF k = PCB(pedido.pid, v) THEN {} ELSE mapPCBPorTCB[k]]
     /\ pedido' = [pedido EXCEPT !.paso = "nada", !.compacto = FALSE]

CreateProcess ==
  /\ pedido.paso = "pedir"
  /\ IF Entran(pedido.size) # {}
     THEN Instalar(asignarPorAlgoritmo(pedido.size))
     ELSE ContestarSinLugar /\ UNCHANGED <<tabla, mapPIDxBaseLimit, mapPCBPorTCB>>
  /\ UNCHANGED MemoriaUsuario

-----------------------------------------------------------------------------
(* COMPACTACION *)

Libres == {i \in DOMAIN particiones : ~mapParticiones[i]}
Ocupadas == DOMAIN particiones \ Libres

\* Mutant: the table of partitions of processes is left as it was.
CorrerPids_Nada(quitadas) == UNCHANGED mapPCBPorParticion

\* Each partition that goes makes the later ones come one place forward.
CorrerPids(quitadas) ==
  mapPCBPorParticion' =
    [p \in DOMAIN mapPCBPorParticion |->
       mapPCBPorParticion[p] - Cardinality({i \in quitadas : i < mapPCBPorParticion[p]})]

\* The free partitions become one, after the rest.  cambiarBaseYLimite works on
\* a copy, so bases and limits stay as they were.
Compactacion ==
  LET lugar(k) == CHOOSE i \in Ocupadas : Cardinality({j \in Ocupadas : j <= i}) = k
      n == Cardinality(Ocupadas)
  IN /\ pedido.paso = "compactar"
     /\ particiones' = Append([k \in 1..n |-> particiones[lugar(k)]],
                              Suma(particiones, Libres))
     /\ mapParticiones' = Append([k \in 1..n |-> TRUE], FALSE)
     /\ CorrerPids(Libres)
     /\ pedido' = [pedido EXCEPT !.paso = "pedir", !.compacto = TRUE]
     /\ UNCHANGED <<mapPIDxBaseLimit, mapPCBPorTCB, MemoriaUsuario>>

-----------------------------------------------------------------------------
(* TERMINATE PROCESS *)

\* Partition i takes in the next one, which is free or has just been freed.
Juntar(t, i) ==
  [sizes |-> RemoveAt([t.sizes EXCEPT ![i] = @ + t.sizes[i + 1]], i + 1),
   usos  |-> RemoveAt(t.usos, i + 1),
   lugar |-> [p \in DOMAIN t.lugar |-> IF t.lugar[p] > i THEN t.lugar[p] - 1 ELSE t.lugar[p]]]

JuntarIzquierda(t, n) == IF n > 1 /\ ~t.usos[n - 1] THEN Juntar(t, n - 1) ELSE t
JuntarDerecha(t, n) == IF n < Len(t.sizes) /\ ~t.usos[n + 1] THEN Juntar(t, n) ELSE t

\* After a join on the left, n is the number of the partition on the right of
\* the freed one, and the second test looks one place too far.
consolidarParticiones(t, n) == JuntarDerecha(JuntarIzquierda(t, n), n)

\* Mutant: partitions are joined when they are fixed, too.
Liberar_Siempre(t, n) == consolidarParticiones(t, n)

Liberar(t, n) == IF EsquemaMemoria = "DINAMICAS" THEN consolidarParticiones(t, n) ELSE t

SinClave(f, k) == Restrict(f, DOMAIN f \ {k})

\* Mutant: the kernel does not ask again.
Reintentar_Nunca(p) == p

\* After the end of a process the kernel asks again for the one that waits.
Reintentar(p) == [p EXCEPT !.paso = IF @ = "espera" THEN "pedir" ELSE @]

\* The kernel terminates a process that memory holds.  The key that is deleted
\* has base and limit 0.
TerminateProcess(pid) ==
  LET n == mapPCBPorParticion[pid]
      t == [sizes |-> particiones, usos |-> [mapParticiones EXCEPT ![n] = FALSE],
            lugar |-> SinClave(mapPCBPorParticion, pid)]
      u == Liberar(t, n)
  IN /\ pedido.paso \in {"nada", "espera"}
     /\ particiones' = u.sizes
     /\ mapParticiones' = u.usos
     /\ mapPCBPorParticion' = u.lugar
     /\ mapPIDxBaseLimit' = SinClave(mapPIDxBaseLimit, pid)
     /\ mapPCBPorTCB' = SinClave(mapPCBPorTCB, PCB(pid, [Base |-> 0, Limit |-> 0]))
     /\ pedido' = Reintentar(pedido)
     /\ UNCHANGED MemoriaUsuario

-----------------------------------------------------------------------------
(* Contexts of threads *)

ClavesDe(pid) == {k \in DOMAIN mapPCBPorTCB : k.Pid = pid}

\* The context of a new thread has all registers at 0; a file that cannot be
\* opened, or a pid that memory does not know, changes nothing.
CreateThread(pid, tid) ==
  /\ pedido.paso \in {"nada", "espera"}
  /\ \E k \in ClavesDe(pid) :
       /\ \A c \in mapPCBPorTCB[k] : c.Tid # tid
       /\ mapPCBPorTCB' = [mapPCBPorTCB EXCEPT ![k] = @ \cup {[Tid |-> tid, nuevo |-> TRUE]}]
  /\ UNCHANGED <<tabla, mapPIDxBaseLimit, MemoriaUsuario, pedido>>

\* The CPU saves a context, under the base and limit that it got from
\* GetExecutionContext: 0 if the process is gone, and then nothing is saved.
UpdateExecutionContext(pid, tid) ==
  LET k == PCB(pid, mapPIDxBaseLimit[pid])
  IN /\ pedido.paso \in {"nada", "espera"}
     /\ pid \in DOMAIN mapPIDxBaseLimit /\ k \in DOMAIN mapPCBPorTCB
     /\ \E c \in mapPCBPorTCB[k] : c.Tid = tid
     /\ mapPCBPorTCB' =
          [mapPCBPorTCB EXCEPT ![k] = {c \in @ : c.Tid # tid} \cup {[Tid |-> tid, nuevo |-> FALSE]}]
     /\ UNCHANGED <<tabla, mapPIDxBaseLimit, MemoriaUsuario, pedido>>

\* The keys that are deleted have base and limit 0 and registers at 0.
TerminateThread(pid, tid) ==
  LET k == PCB(pid, [Base |-> 0, Limit |-> 0])
      quedan == mapPCBPorTCB[k] \ {[Tid |-> tid, nuevo |-> TRUE]}
  IN /\ pedido.paso \in {"nada", "espera"}
     /\ mapPCBPorTCB' =
          IF k \notin DOMAIN mapPCBPorTCB THEN mapPCBPorTCB
          ELSE IF quedan = {} THEN SinClave(mapPCBPorTCB, k)
          ELSE [mapPCBPorTCB EXCEPT ![k] = quedan]
     /\ UNCHANGED <<tabla, mapPIDxBaseLimit, MemoriaUsuario, pedido>>

-----------------------------------------------------------------------------
(* User memory *)

EnRango(pid, a) ==
  /\ ClavesDe(pid) # {} /\ pid \in DOMAIN mapPIDxBaseLimit
  /\ mapPIDxBaseLimit[pid].Base <= a /\ a <= mapPIDxBaseLimit[pid].Limit

\* The bytes of a word that ReadMemory and WriteMemory work on: fewer than four
\* when the limit is near.
Palabra(pid, a) ==
  LET resto == mapPIDxBaseLimit[pid].Limit - a
  IN a..(a + (IF resto >= 4 THEN 4 ELSE resto) - 1)

WriteMemory(pid, a) ==
  /\ pedido.paso \in {"nada", "espera"}
  /\ EnRango(pid, a)
  /\ MemoriaUsuario' =
       [b \in DOMAIN MemoriaUsuario |-> IF b \in Palabra(pid, a) THEN pid ELSE MemoriaUsuario[b]]
  /\ UNCHANGED <<tabla, mapPIDxBaseLimit, mapPCBPorTCB, pedido>>

-----------------------------------------------------------------------------
(* The kernel, and the specification *)

\* The first of the processes that wait to start, and its size.
Pedir(size) ==
  /\ pedido.paso = "nada" /\ pedido.pid < MaxPid
  /\ pedido' = [pid |-> pedido.pid + 1, size |-> size, paso |-> "pedir", compacto |-> FALSE]
  /\ UNCHANGED <<tabla, mapPIDxBaseLimit, mapPCBPorTCB, MemoriaUsuario>>

Init ==
  /\ particiones = Particiones
  /\ mapParticiones = [i \in DOMAIN Particiones |-> FALSE]
  /\ mapPCBPorParticion = <<>> /\ mapPIDxBaseLimit = <<>> /\ mapPCBPorTCB = <<>>
  /\ MemoriaUsuario = [b \in 0..(Tamanio_Memoria - 1) |-> 0]
  /\ pedido = [pid |-> 0, size |-> 0, paso |-> "nada", compacto |-> FALSE]

Next ==
  \/ \E size \in Tamanios : Pedir(size)
  \/ CreateProcess \/ Compactacion
  \/ \E pid \in DOMAIN mapPCBPorParticion : TerminateProcess(pid)
  \/ \E pid \in Pids, tid \in Tids :
       \/ CreateThread(pid, tid) \/ UpdateExecutionContext(pid, tid)
       \/ TerminateThread(pid, tid)
  \/ \E pid \in DOMAIN mapPIDxBaseLimit, d \in Direcciones :
       WriteMemory(pid, mapPIDxBaseLimit[pid].Base + d)

Spec == Init /\ [][Next]_vars

\* Requests are answered, and every process ends.
FairSpec ==
  /\ Spec
  /\ WF_vars(CreateProcess) /\ WF_vars(Compactacion)
  /\ \A pid \in Pids : WF_vars(pid \in DOMAIN mapPCBPorParticion /\ TerminateProcess(pid))
=============================================================================
