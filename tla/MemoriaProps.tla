----------------------------- MODULE MemoriaProps -----------------------------
(***************************************************************************)
(* The properties of memory.  The first group holds with both schemes, the *)
(* second with fixed partitions, and runs with dynamic ones show where it  *)
(* fails.                                                                  *)
(***************************************************************************)
EXTENDS Memoria

BaseLimits == [Base : Int, Limit : Int]

\* The tables agree in length, and every number in them is in range.
TypeOK ==
  /\ particiones \in Seq(Nat) /\ mapParticiones \in Seq(BOOLEAN)
  /\ Len(mapParticiones) = Len(particiones)
  /\ mapPCBPorParticion \in [DOMAIN mapPCBPorParticion -> DOMAIN particiones]
  /\ mapPIDxBaseLimit \in [DOMAIN mapPCBPorParticion -> BaseLimits]
  /\ DOMAIN mapPCBPorParticion \subseteq 1..pedido.pid
  /\ mapPCBPorTCB \in [DOMAIN mapPCBPorTCB -> SUBSET [Tid : Tids, nuevo : BOOLEAN]]
  /\ pedido \in [pid : 0..MaxPid, size : Tamanios \cup {0},
                 paso : {"nada", "pedir", "compactar", "espera"}, compacto : BOOLEAN]

-----------------------------------------------------------------------------
(* With both schemes *)

\* The partitions marked as occupied are those of the processes, one each,
\* after every division, join and compaction (utils.go:599, 615, 648, 850).
UnDuenio == \A p, q \in DOMAIN mapPCBPorParticion :
              mapPCBPorParticion[p] = mapPCBPorParticion[q] => p = q

OcupadasConDuenio ==
  \A i \in DOMAIN mapParticiones :
    mapParticiones[i] <=> \E p \in DOMAIN mapPCBPorParticion : mapPCBPorParticion[p] = i

OcupacionCoherente == UnDuenio /\ OcupadasConDuenio

\* The partitions always add up to the memory (utils.go:570, 648, 850).
SumaConstante == Suma(particiones, DOMAIN particiones) = Tamanio_Memoria

\* A process that is told to compact has its room right after: otherwise
\* inicializarProceso (kernel/utils/utils.go:327) calls itself without end.
CompactarAlcanza ==
  [][(pedido.paso = "pedir" /\ pedido.compacto) => pedido'.paso = "nada"]_vars

\* When processes end, the first that waits starts: it does not if its size
\* exceeds the memory (utils.go:716, 745 mean to stop there with a panic).
EsperaTermina == pedido.paso = "espera" ~> pedido.paso = "nada"

-----------------------------------------------------------------------------
(* With fixed partitions *)

\* The base and limit of a process are those of its partition
\* (utils.go:1172: the address must be in the partition of the pid).
SuParticion ==
  \A p \in DOMAIN mapPCBPorParticion :
    mapPIDxBaseLimit[p] = BaseYLimite(mapPCBPorParticion[p], particiones)

\* While a process lives, no other changes what it wrote.
LoEscritoQueda ==
  [][\A b \in DOMAIN MemoriaUsuario :
       LET p == MemoriaUsuario[b]
       IN (p \in DOMAIN mapPCBPorParticion /\ b \in mapPIDxBaseLimit[p].Base..mapPIDxBaseLimit[p].Limit)
            => MemoriaUsuario'[b] = p]_vars

EspacioLibre == Suma(particiones, Libres)

\* A process that ends gives back its partition, and nothing else changes:
\* the free space grows by its size (utils.go:804).
LiberaSuEspacio ==
  [][\A p \in DOMAIN mapPCBPorParticion :
       p \notin DOMAIN mapPCBPorParticion' =>
         EspacioLibre' = EspacioLibre + particiones[mapPCBPorParticion[p]]]_vars

=============================================================================
