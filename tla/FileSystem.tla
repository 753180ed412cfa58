----------------------------- MODULE FileSystem -----------------------------
(***************************************************************************)
(* The file system (src/filesystem/utils/utils.go): the bitmap in memory   *)
(* and in bitmap.dat, the bytes of bloques.dat, and one metadata file for  *)
(* each dump.  A dump is written in several steps; the program may stop    *)
(* after any of them and start again from the files.  Its only client      *)
(* sends one dump at a time (see Kernel.tla).                              *)
(*                                                                         *)
(* Blocks, and the bytes of a block, count from 0 as in the code.          *)
(***************************************************************************)
EXTENDS Integers, Sequences, FiniteSets, Functions

CONSTANTS
  Block_count,   \* blocks of bloques.dat
  Block_size,    \* bytes of a block
  ValoresByte,   \* values of a byte: 256 in the code
  Nombres,       \* names of dump files
  Datos,         \* contents of the partitions that are dumped
  MaxFallas      \* bound: stops, errors and names that are used again

Bloques == 0..(Block_count - 1)
Byte == 0..(ValoresByte - 1)

\* ToBytes fails unless bytes of the bitmap are whole (utils.go:128).
ASSUME FileSystemAssumption ==
  /\ Block_count \in Nat \ {0} /\ Block_count % 8 = 0
  /\ Block_size \in Nat \ {0}
  /\ ValoresByte \in Nat \ {0}
  /\ Datos \subseteq Seq(Byte)
  /\ MaxFallas \in Nat

VARIABLES
  pc,            \* how far the program is with its dump
  bitmapGlobal,  \* the blocks in use, in memory
  bitmapDat,     \* the bytes of bitmap.dat; none if it is empty or absent
  bloquesDat,    \* block -> its bytes; none if bloques.dat is absent
  metadata,      \* name -> contents of its metadata file
  dump,          \* the dump in progress
  archivos,      \* the dumps that were answered with "true", by name
  fallas         \* how often a dump was lost

disco == <<bitmapDat, bloquesDat, metadata>>
vars == <<pc, bitmapGlobal, disco, dump, archivos, fallas>>

\* No dump, and a metadata file with nothing in it.
SinDump == [NombreArchivo |-> <<>>, Data |-> <<>>, bloques |-> <<>>, escritos |-> 0]
Vacia == [IndexBlock |-> -1, Size |-> 0]

Minimo(i, j) == IF i < j THEN i ELSE j
Sin(f, n) == [m \in DOMAIN f \ {n} |-> f[m]]
Con(f, n, x) == [m \in DOMAIN f \cup {n} |-> IF m = n THEN x ELSE f[m]]

-----------------------------------------------------------------------------
(* Conversions *)

\* A byte of bitmap.dat is the set of its bits that are 1.
ToBytes(bits) == [j \in 1..(Block_count \div 8) |-> {b % 8 : b \in {c \in bits : c \div 8 = j - 1}}]
FromBytes(bytes) == {b \in Bloques : b % 8 \in bytes[1 + b \div 8]}

cargarBitmap == IF bitmapDat = <<>> THEN {} ELSE FromBytes(bitmapDat)

\* A block number in the index is cut to one byte.
toBytesBloque(bloques) == [i \in DOMAIN bloques |-> bloques[i] % ValoresByte]

-----------------------------------------------------------------------------
(* Room *)

\* Memory announces one byte more than it sends.
Tamanio(data) == Len(data) + 1

\* Mutant: one block too many.
cantidadDeBloques_DeMas(data) == (Tamanio(data) + Block_size - 1) \div Block_size + 2

\* The index, and the blocks of data.
cantidadDeBloques(data) == (Tamanio(data) + Block_size - 1) \div Block_size + 1

Libres == Bloques \ bitmapGlobal
hayEspacioDisponible(cantidad) == Cardinality(Libres) >= cantidad
entraEnElBloqueDeIndice(cantidad) == cantidad * 4 <= Block_size

Entra(data) ==
  /\ hayEspacioDisponible(cantidadDeBloques(data))
  /\ entraEnElBloqueDeIndice(cantidadDeBloques(data) - 1)

\* The blocks that reservarBloques finds, in their order.
PrimerosLibres(s) ==
  /\ \A i \in DOMAIN s : s[i] \in Libres
  /\ \A i, j \in DOMAIN s : i < j => s[i] < s[j]
  /\ \A b \in Libres : b < s[Len(s)] => b \in Range(s)

-----------------------------------------------------------------------------
(* Start, and the steps of DumpMemory *)

\* Mutant: bloques.dat is not created.
init_SinBloques ==
  /\ pc = "apagado"
  /\ pc' = "libre"
  /\ bitmapGlobal' = cargarBitmap
  /\ UNCHANGED <<disco, dump, archivos, fallas>>

\* The start: it takes the files that are there and creates the others.  A stop
\* half way leaves the files empty, as they were.
init ==
  /\ pc = "apagado"
  /\ pc' = "libre"
  /\ bitmapGlobal' = cargarBitmap
  /\ bloquesDat' = IF bloquesDat = <<>> THEN [b \in Bloques |-> [k \in 0..(Block_size - 1) |-> 0]]
                   ELSE bloquesDat
  /\ UNCHANGED <<bitmapDat, metadata, dump, archivos, fallas>>

\* A dump that does not fit is answered with "false".
SinLugar ==
  /\ pc = "libre"
  /\ \E d \in Datos : ~Entra(d)
  /\ UNCHANGED vars

reservarBloques(n, d) ==
  /\ pc = "libre"
  /\ Entra(d)
  /\ n \in DOMAIN archivos => fallas < MaxFallas
  /\ \E s \in [1..cantidadDeBloques(d) -> Bloques] :
       /\ PrimerosLibres(s)
       /\ bitmapGlobal' = bitmapGlobal \cup Range(s)
       /\ dump' = [NombreArchivo |-> <<n>>, Data |-> d, bloques |-> s, escritos |-> 0]
  /\ pc' = "reservado"
  /\ UNCHANGED <<disco, archivos, fallas>>

\* The name of the file, with the second in which it was asked for.
Nombre == dump.NombreArchivo[1]

\* os.Create empties the file of a dump of the same name.
CrearMetaData ==
  /\ pc = "reservado"
  /\ pc' = "creado"
  /\ metadata' = Con(metadata, Nombre, Vacia)
  /\ archivos' = Sin(archivos, Nombre)
  /\ fallas' = IF Nombre \in DOMAIN archivos THEN fallas + 1 ELSE fallas
  /\ UNCHANGED <<bitmapGlobal, bitmapDat, bloquesDat, dump>>

EscribirMetaData ==
  /\ pc = "creado"
  /\ pc' = "metadata"
  /\ metadata' = [metadata EXCEPT ![Nombre] = [IndexBlock |-> dump.bloques[1], Size |-> Tamanio(dump.Data)]]
  /\ UNCHANGED <<bitmapGlobal, bitmapDat, bloquesDat, dump, archivos, fallas>>

\* Mutant: the bitmap stays in memory.
actualizarBitmap_EnMemoria ==
  /\ pc = "metadata"
  /\ pc' = "bloques"
  /\ UNCHANGED <<bitmapGlobal, disco, dump, archivos, fallas>>

actualizarBitmap ==
  /\ pc = "metadata"
  /\ pc' = "bloques"
  /\ bitmapDat' = ToBytes(bitmapGlobal)
  /\ UNCHANGED <<bitmapGlobal, bloquesDat, metadata, dump, archivos, fallas>>

\* The bytes after those that are written stay.
escribirBloque(b, data) ==
  bloquesDat' = [bloquesDat EXCEPT ![b] =
    [k \in 0..(Block_size - 1) |-> IF k < Len(data) THEN data[k + 1] ELSE @[k]]]

\* Mutant: each slice starts one byte late.
Parte_Corrida(data, indice) ==
  SubSeq(data, indice * Block_size + 2, Minimo((indice + 1) * Block_size, Len(data)))

\* The slice of the data for a block.
Parte(data, indice) ==
  SubSeq(data, indice * Block_size + 1, Minimo((indice + 1) * Block_size, Len(data)))

\* The index block first, then each block of data.
actualizarBloques ==
  /\ pc = "bloques"
  /\ dump.escritos < Len(dump.bloques)
  /\ IF dump.escritos = 0
     THEN escribirBloque(dump.bloques[1], toBytesBloque(Tail(dump.bloques)))
     ELSE escribirBloque(dump.bloques[dump.escritos + 1], Parte(dump.Data, dump.escritos - 1))
  /\ dump' = [dump EXCEPT !.escritos = @ + 1]
  /\ UNCHANGED <<pc, bitmapGlobal, bitmapDat, metadata, archivos, fallas>>

\* Mutant: the answer does not wait for the last block.
Contestar_Antes ==
  /\ pc = "bloques"
  /\ dump.escritos + 1 = Len(dump.bloques)
  /\ pc' = "libre"
  /\ archivos' = Con(archivos, Nombre, dump.Data)
  /\ dump' = SinDump
  /\ UNCHANGED <<bitmapGlobal, disco, fallas>>

\* The answer is "true".
Contestar ==
  /\ pc = "bloques"
  /\ dump.escritos = Len(dump.bloques)
  /\ pc' = "libre"
  /\ archivos' = Con(archivos, Nombre, dump.Data)
  /\ dump' = SinDump
  /\ UNCHANGED <<bitmapGlobal, disco, fallas>>

-----------------------------------------------------------------------------
(* Failures *)

\* Creating or writing the metadata, the bitmap, or opening bloques.dat fails:
\* the blocks stay reserved.
Error ==
  /\ fallas < MaxFallas
  /\ \/ pc \in {"reservado", "creado", "metadata"}
     \/ pc = "bloques" /\ dump.escritos = 0
  /\ pc' = "libre"
  /\ dump' = SinDump
  /\ fallas' = fallas + 1
  /\ UNCHANGED <<bitmapGlobal, disco, archivos>>

\* The program ends: somebody stops it, or log.Fatalf after a failed write.
Caida ==
  /\ fallas < MaxFallas
  /\ pc # "apagado"
  /\ pc' = "apagado"
  /\ bitmapGlobal' = {}
  /\ dump' = SinDump
  /\ fallas' = fallas + 1
  /\ UNCHANGED <<disco, archivos>>

-----------------------------------------------------------------------------
Init ==
  /\ pc = "apagado" /\ bitmapGlobal = {} /\ dump = SinDump
  /\ bitmapDat = <<>> /\ bloquesDat = <<>> /\ metadata = <<>>
  /\ archivos = <<>> /\ fallas = 0

Next ==
  \/ init
  \/ SinLugar
  \/ \E n \in Nombres, d \in Datos : reservarBloques(n, d)
  \/ CrearMetaData
  \/ EscribirMetaData
  \/ actualizarBitmap
  \/ actualizarBloques
  \/ Contestar
  \/ Error
  \/ Caida

Spec == Init /\ [][Next]_vars
=============================================================================
