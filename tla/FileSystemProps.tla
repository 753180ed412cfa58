--------------------------- MODULE FileSystemProps ---------------------------
(***************************************************************************)
(* The properties of the file system.  Nothing in the code reads a dump:   *)
(* "Leer" is what the layout of the files means, and the properties say    *)
(* what somebody who follows it finds.                                     *)
(***************************************************************************)
EXTENDS FileSystem

Bytes == [0..(Block_size - 1) -> Byte]

\* Each variable has its type, and a dump has its blocks while it is written.
TypeOK ==
  /\ pc \in {"apagado", "libre", "reservado", "creado", "metadata", "bloques"}
  /\ bitmapGlobal \subseteq Bloques
  /\ bitmapDat = <<>> \/ bitmapDat \in [1..(Block_count \div 8) -> SUBSET (0..7)]
  /\ bloquesDat = <<>> \/ bloquesDat \in [Bloques -> Bytes]
  /\ bloquesDat = <<>> => pc = "apagado"
  /\ DOMAIN metadata \subseteq Nombres
  /\ metadata \in [DOMAIN metadata -> [IndexBlock : Bloques, Size : Nat \ {0}] \cup {Vacia}]
  /\ IF pc \in {"apagado", "libre"}
     THEN dump = SinDump
     ELSE /\ dump \in [NombreArchivo : [{1} -> Nombres], Data : Datos, bloques : Seq(Bloques), escritos : Nat]
          /\ Len(dump.bloques) = cantidadDeBloques(dump.Data)
          /\ dump.escritos <= Len(dump.bloques)
  /\ DOMAIN archivos \subseteq DOMAIN metadata
  /\ archivos \in [DOMAIN archivos -> Datos]
  /\ fallas \in Nat

\* Reading a file by its metadata: the index block gives the block of each byte.
\* The byte that memory announces and does not send is left out.
Puntero(n, j) == bloquesDat[metadata[n].IndexBlock][j]
Leer(n) ==
  [i \in 1..(metadata[n].Size - 1) |->
     bloquesDat[Puntero(n, (i - 1) \div Block_size)][(i - 1) % Block_size]]

\* The blocks of a file: its index and those that its index names.
BloquesDe(n) ==
  {metadata[n].IndexBlock} \cup
  {Puntero(n, (i - 1) \div Block_size) : i \in 1..metadata[n].Size}

\* A dump that was answered with "true" reads back as it was sent, across later
\* dumps, errors and restarts (utils.go:243, 256, 68).
GuardadoQueda == \A n \in DOMAIN archivos : Leer(n) = archivos[n]

\* The blocks of stored files are used in bitmap.dat, so that no restart gives
\* them to another (utils.go:236 comes before 244), and no two files share any.
ArchivosReservados ==
  /\ \A n \in DOMAIN archivos : BloquesDe(n) \subseteq cargarBitmap
  /\ \A n, m \in DOMAIN archivos : n # m => BloquesDe(n) \cap BloquesDe(m) = {}

\* Space is lost to failures only, and at most one file's worth to each: every
\* other block in use belongs to a file or to the dump in progress (utils.go:319).
MasGrande == Block_size \div 4 + 1
Guardados == UNION {BloquesDe(n) : n \in DOMAIN archivos}
EspacioExplicado ==
  Cardinality(bitmapGlobal \ (Guardados \cup Range(dump.bloques))) <= fallas * MasGrande

\* The file system implements Archivos, with what can be read from the disk.
A == INSTANCE Archivos WITH
  leido <- [n \in DOMAIN archivos |-> Leer(n)],
  pedido <- [n \in Range(dump.NombreArchivo) |-> dump.Data]
CumpleArchivos == A!Spec

==============================================================================
