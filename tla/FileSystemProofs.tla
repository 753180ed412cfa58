-------------------------- MODULE FileSystemProofs --------------------------
(***************************************************************************)
(* Proofs about the file system, for every number and size of blocks,      *)
(* every set of names and of contents, and any number of failures.         *)
(***************************************************************************)
EXTENDS FileSystemProps, SequenceTheorems, FiniteSetTheorems, TLAPS

-----------------------------------------------------------------------------
(* Arithmetic *)

\* Quotient and remainder by the size of a block.
LEMMA Division ==
  ASSUME NEW x \in Nat
  PROVE  /\ x \div Block_size \in Nat /\ x % Block_size \in 0..(Block_size - 1)
         /\ x = (x \div Block_size) * Block_size + (x % Block_size)
  BY FileSystemAssumption, SMTT(30)

\* The last byte of a file, and the one that is not sent, are in its last block.
LEMMA UltimoBloque ==
  ASSUME NEW x \in Nat, NEW y \in 0..x
  PROVE  /\ y \div Block_size \in 0..(x \div Block_size)
         /\ (x + Block_size) \div Block_size = x \div Block_size + 1
         /\ (x \div Block_size) * Block_size <= x
  BY FileSystemAssumption, SMTT(30)

\* A bitmap that is written and loaded is the same (utils.go:127, 135).
LEMMA IdaYVuelta ==
  ASSUME NEW bits \in SUBSET Bloques
  PROVE  /\ ToBytes(bits) \in [1..(Block_count \div 8) -> SUBSET (0..7)]
         /\ ToBytes(bits) # <<>>
         /\ FromBytes(ToBytes(bits)) = bits
<1>1. Block_count \div 8 \in Nat \ {0} /\ Block_count = 8 * (Block_count \div 8)
  BY FileSystemAssumption
<1>2. \A b \in Bloques : b % 8 \in 0..7 /\ 1 + b \div 8 \in 1..(Block_count \div 8)
  BY <1>1, FileSystemAssumption DEF Bloques
<1>3. ToBytes(bits) \in [1..(Block_count \div 8) -> SUBSET (0..7)]
  BY <1>2 DEF ToBytes
<1>4. ToBytes(bits) # <<>>
  <2>1. 1 \in DOMAIN ToBytes(bits)
    BY <1>1, <1>3
  <2>2. DOMAIN <<>> = {}
    OBVIOUS
  <2> QED
    BY <2>1, <2>2
<1>5. ASSUME NEW b \in Bloques PROVE b \in FromBytes(ToBytes(bits)) <=> b \in bits
  <2>1. ToBytes(bits)[1 + b \div 8] = {c % 8 : c \in {e \in bits : e \div 8 = (1 + b \div 8) - 1}}
    BY <1>2 DEF ToBytes
  <2>2. ASSUME NEW e \in bits, e \div 8 = (1 + b \div 8) - 1, e % 8 = b % 8 PROVE e = b
    BY <2>2, FileSystemAssumption DEF Bloques
  <2>3. b \div 8 = (1 + b \div 8) - 1
    BY FileSystemAssumption DEF Bloques
  <2> QED
    BY <2>1, <2>2, <2>3 DEF FromBytes
<1> QED
  BY <1>3, <1>4, <1>5 DEF FromBytes

-----------------------------------------------------------------------------
(* The helpers *)

\* The length of the data of a dump.
LEMMA LargoDatos ==
  ASSUME NEW d \in Datos
  PROVE  /\ d \in Seq(Byte) /\ Len(d) \in Nat /\ Tamanio(d) \in Nat \ {0}
         /\ cantidadDeBloques(d) = Len(d) \div Block_size + 2
         /\ cantidadDeBloques(d) \in Nat \ {0, 1}
<1>1. d \in Seq(Byte) /\ Len(d) \in Nat
  BY FileSystemAssumption, LenProperties
<1>2. Tamanio(d) + Block_size - 1 = Len(d) + Block_size
  BY <1>1, FileSystemAssumption DEF Tamanio
<1>3. Len(d) \div Block_size \in Nat /\ (Len(d) + Block_size) \div Block_size = Len(d) \div Block_size + 1
  BY <1>1, Division, UltimoBloque
<1> QED
  BY <1>1, <1>2, <1>3 DEF Tamanio, cantidadDeBloques

\* The bytes of a slice are those of the data, at their place.
LEMMA ParteDe ==
  ASSUME NEW d \in Datos, NEW j \in 0..(cantidadDeBloques(d) - 2)
  PROVE  /\ Parte(d, j) \in Seq(Byte)
         /\ \A k \in 0..(Block_size - 1) :
              /\ k < Len(Parte(d, j)) <=> j * Block_size + k < Len(d)
              /\ k < Len(Parte(d, j)) => Parte(d, j)[k + 1] = d[j * Block_size + k + 1]
<1> DEFINE p == j * Block_size
           f == Minimo((j + 1) * Block_size, Len(d))
<1>1. d \in Seq(Byte) /\ Len(d) \in Nat /\ j \in 0..(Len(d) \div Block_size) /\ Block_size \in Nat \ {0}
      /\ \A i \in 1..Len(d) : d[i] \in Byte
  BY LargoDatos, ElementOfSeq, FileSystemAssumption
<1>2. p \in Nat /\ (j + 1) * Block_size = p + Block_size
  BY <1>1, SMTT(30)
<1>3. f \in Nat /\ f <= Len(d) /\ f <= p + Block_size /\ (f = Len(d) \/ f = p + Block_size)
  BY <1>1, <1>2 DEF Minimo
<1> HIDE DEF p, f
<1>4. /\ SubSeq(d, p + 1, f) \in Seq(Byte)
      /\ Len(SubSeq(d, p + 1, f)) = IF p + 1 <= f THEN f - (p + 1) + 1 ELSE 0
      /\ \A i \in 1..(f - (p + 1) + 1) : SubSeq(d, p + 1, f)[i] = d[(p + 1) + i - 1]
  <2>1. \A i \in (p + 1)..f : d[i] \in Byte
    BY <1>1, <1>2, <1>3
  <2>2. p + 1 \in Int /\ f \in Int
    BY <1>2, <1>3
  <2> QED
    BY <2>1, <2>2, SubSeqProperties
<1>5. Parte(d, j) = SubSeq(d, p + 1, f)
  BY DEF Parte, p, f
<1>6. ASSUME NEW k \in 0..(Block_size - 1)
      PROVE  /\ k < Len(Parte(d, j)) <=> p + k < Len(d)
             /\ k < Len(Parte(d, j)) => Parte(d, j)[k + 1] = d[p + k + 1]
  <2>1. k < Len(Parte(d, j)) <=> p + k < Len(d)
    BY <1>1, <1>2, <1>3, <1>4, <1>5
  <2>2. ASSUME k < Len(Parte(d, j)) PROVE Parte(d, j)[k + 1] = d[p + k + 1]
    <3>1. k + 1 \in 1..(f - (p + 1) + 1) /\ (p + 1) + (k + 1) - 1 = p + k + 1
      BY <2>2, <1>1, <1>2, <1>3, <1>4, <1>5
    <3> QED
      BY <3>1, <1>4, <1>5
  <2> QED
    BY <2>1, <2>2
<1> QED
  BY <1>4, <1>5, <1>6 DEF p

\* What is written to a block is bytes (utils.go:285).
LEMMA EscribirTipo ==
  ASSUME bloquesDat \in [Bloques -> Bytes], NEW b \in Bloques, NEW s \in Seq(Byte), escribirBloque(b, s)
  PROVE  bloquesDat' \in [Bloques -> Bytes]
<1>1. \A k \in 0..(Block_size - 1) : k < Len(s) => s[k + 1] \in Byte
  BY ElementOfSeq, LenProperties, FileSystemAssumption
<1>2. [k \in 0..(Block_size - 1) |-> IF k < Len(s) THEN s[k + 1] ELSE bloquesDat[b][k]] \in Bytes
  BY <1>1 DEF Bytes
<1> QED
  BY <1>2 DEF escribirBloque

\* The index is bytes, one for each block of data (utils.go:293).
LEMMA IndiceTipo ==
  ASSUME NEW s \in Seq(Bloques), Len(s) > 0
  PROVE  /\ toBytesBloque(Tail(s)) \in Seq(Byte)
         /\ Len(toBytesBloque(Tail(s))) = Len(s) - 1
         /\ \A i \in 1..(Len(s) - 1) : toBytesBloque(Tail(s))[i] = s[i + 1] % ValoresByte
<1>1. s # <<>>
  OBVIOUS
<1>2. Tail(s) \in Seq(Bloques) /\ Len(Tail(s)) = Len(s) - 1
      /\ \A i \in 1..(Len(s) - 1) : Tail(s)[i] = s[i + 1]
  BY <1>1, HeadTailProperties
<1>3. Len(s) - 1 \in Nat /\ DOMAIN Tail(s) = 1..(Len(s) - 1)
  BY <1>2, LenProperties
<1>4. \A i \in 1..(Len(s) - 1) : Tail(s)[i] \in Bloques /\ Tail(s)[i] % ValoresByte \in Byte
  BY <1>2, <1>3, ElementOfSeq, FileSystemAssumption DEF Bloques, Byte
<1>5. toBytesBloque(Tail(s)) \in [1..(Len(s) - 1) -> Byte]
  BY <1>3, <1>4 DEF toBytesBloque
<1>6. toBytesBloque(Tail(s)) \in Seq(Byte) /\ Len(toBytesBloque(Tail(s))) = Len(s) - 1
  BY <1>3, <1>5, SeqDef, LenProperties
<1> QED
  BY <1>2, <1>3, <1>6 DEF toBytesBloque

-----------------------------------------------------------------------------
(* Types *)

\* The types, step by step.
LEMMA TipoInit == Init => TypeOK
  BY FileSystemAssumption DEF Init, TypeOK, SinDump

\* A start reads the disk into memory.
LEMMA TipoInicia == TypeOK /\ init => TypeOK'
<1> SUFFICES ASSUME TypeOK, init PROVE TypeOK'
  OBVIOUS
<1>1. bitmapGlobal' \subseteq Bloques
  BY DEF init, cargarBitmap, FromBytes
<1>2. bloquesDat' \in [Bloques -> Bytes]
  <2>1. [k \in 0..(Block_size - 1) |-> 0] \in Bytes
    BY FileSystemAssumption DEF Bytes, Byte
  <2> QED
    BY <2>1 DEF init, TypeOK
<1>3. bloquesDat' # <<>>
  <2>1. 0 \in DOMAIN bloquesDat'
    BY <1>2, FileSystemAssumption DEF Bloques
  <2>2. DOMAIN <<>> = {}
    OBVIOUS
  <2> QED
    BY <2>1, <2>2
<1> QED
  BY <1>1, <1>2, <1>3 DEF init, TypeOK

\* A dump reserves its blocks.
LEMMA TipoReservar ==
  ASSUME TypeOK, NEW n \in Nombres, NEW d \in Datos, reservarBloques(n, d)
  PROVE  TypeOK'
<1>1. PICK s \in [1..cantidadDeBloques(d) -> Bloques] :
        /\ bitmapGlobal' = bitmapGlobal \cup Range(s)
        /\ dump' = [NombreArchivo |-> <<n>>, Data |-> d, bloques |-> s, escritos |-> 0]
  BY DEF reservarBloques
<1>2. cantidadDeBloques(d) \in Nat
  BY LargoDatos
<1>3. s \in Seq(Bloques) /\ Len(s) = cantidadDeBloques(d)
  BY <1>2, SeqDef, LenProperties
<1>4. <<n>> \in [{1} -> Nombres]
  OBVIOUS
<1>5. /\ dump' \in [NombreArchivo : [{1} -> Nombres], Data : Datos, bloques : Seq(Bloques), escritos : Nat]
      /\ Len(dump'.bloques) = cantidadDeBloques(dump'.Data) /\ dump'.escritos <= Len(dump'.bloques)
  BY <1>1, <1>2, <1>3, <1>4
<1>6. bitmapGlobal' \subseteq Bloques
  BY <1>1 DEF TypeOK, Range
<1> QED
  BY <1>5, <1>6 DEF reservarBloques, TypeOK, disco

\* A dump writes its metadata.
LEMMA TipoMetaData == TypeOK /\ (CrearMetaData \/ EscribirMetaData) => TypeOK'
<1> SUFFICES ASSUME TypeOK, CrearMetaData \/ EscribirMetaData PROVE TypeOK'
  OBVIOUS
<1> USE DEF Vacia
<1>0. Nombre \in Nombres
  BY DEF CrearMetaData, EscribirMetaData, TypeOK, Nombre
<1>1. CASE CrearMetaData
  <2>1. DOMAIN metadata' \subseteq Nombres /\ Nombre \in DOMAIN metadata'
        /\ DOMAIN archivos' \subseteq DOMAIN metadata'
        /\ metadata' \in [DOMAIN metadata' -> [IndexBlock : Bloques, Size : Nat \ {0}] \cup {Vacia}]
    BY <1>0, <1>1 DEF CrearMetaData, TypeOK, Con, Sin
  <2>2. archivos' \in [DOMAIN archivos' -> Datos]
    BY <1>1 DEF CrearMetaData, TypeOK, Sin
  <2>3. fallas' \in Nat
    BY <1>1 DEF CrearMetaData, TypeOK
  <2> QED
    BY <1>1, <2>1, <2>2, <2>3 DEF CrearMetaData, TypeOK
<1>2. CASE EscribirMetaData
  <2>1. dump.bloques[1] \in Bloques /\ Tamanio(dump.Data) \in Nat \ {0}
    BY <1>2, LargoDatos, ElementOfSeq DEF EscribirMetaData, TypeOK
  <2> QED
    BY <1>2, <2>1 DEF EscribirMetaData, TypeOK
<1> QED
  BY <1>1, <1>2

\* A dump writes the bitmap.
LEMMA TipoBitmap == TypeOK /\ actualizarBitmap => TypeOK'
<1> SUFFICES ASSUME TypeOK, actualizarBitmap PROVE TypeOK'
  OBVIOUS
<1>1. bitmapDat' \in [1..(Block_count \div 8) -> SUBSET (0..7)]
  BY IdaYVuelta DEF actualizarBitmap, TypeOK
<1> QED
  BY <1>1 DEF actualizarBitmap, TypeOK

\* A dump writes a block.
LEMMA TipoBloques == TypeOK /\ actualizarBloques => TypeOK'
<1> SUFFICES ASSUME TypeOK, actualizarBloques PROVE TypeOK'
  OBVIOUS
<1>1. /\ dump.bloques \in Seq(Bloques) /\ dump.Data \in Datos /\ dump.escritos \in Nat
      /\ dump.escritos < Len(dump.bloques) /\ Len(dump.bloques) = cantidadDeBloques(dump.Data)
      /\ Len(dump.bloques) \in Nat
  BY LenProperties DEF actualizarBloques, TypeOK
<1>2. dump.bloques[dump.escritos + 1] \in Bloques /\ bloquesDat \in [Bloques -> Bytes]
  BY <1>1, ElementOfSeq DEF actualizarBloques, TypeOK
<1>3. bloquesDat' \in [Bloques -> Bytes]
  <2>1. CASE dump.escritos = 0
    <3>1. toBytesBloque(Tail(dump.bloques)) \in Seq(Byte)
      BY <1>1, IndiceTipo
    <3> QED
      BY <1>2, <2>1, <3>1, EscribirTipo DEF actualizarBloques
  <2>2. CASE dump.escritos # 0
    <3>1. dump.escritos - 1 \in 0..(cantidadDeBloques(dump.Data) - 2)
      BY <1>1, <2>2
    <3>2. Parte(dump.Data, dump.escritos - 1) \in Seq(Byte)
      BY <1>1, <3>1, ParteDe
    <3> QED
      BY <1>2, <2>2, <3>2, EscribirTipo DEF actualizarBloques
  <2> QED
    BY <2>1, <2>2
<1>4. dump' \in [NombreArchivo : [{1} -> Nombres], Data : Datos, bloques : Seq(Bloques), escritos : Nat]
      /\ dump'.bloques = dump.bloques /\ dump'.Data = dump.Data /\ dump'.escritos = dump.escritos + 1
  BY <1>1 DEF actualizarBloques, TypeOK
<1> QED
  BY <1>1, <1>3, <1>4 DEF actualizarBloques, TypeOK

\* A dump is answered.
LEMMA TipoContestar == TypeOK /\ Contestar /\ Nombre \in DOMAIN metadata => TypeOK'
<1> SUFFICES ASSUME TypeOK, Contestar, Nombre \in DOMAIN metadata PROVE TypeOK'
  OBVIOUS
<1>1. archivos' \in [DOMAIN archivos' -> Datos] /\ DOMAIN archivos' \subseteq DOMAIN metadata
  BY DEF Contestar, TypeOK, Con
<1> QED
  BY <1>1 DEF Contestar, TypeOK, disco

\* An error, or a crash.
LEMMA TipoFalla == TypeOK /\ (Error \/ Caida) => TypeOK'
<1> SUFFICES ASSUME TypeOK, Error \/ Caida PROVE TypeOK'
  OBVIOUS
<1>1. CASE Error
  BY <1>1 DEF Error, TypeOK, disco
<1>2. CASE Caida
  BY <1>2 DEF Caida, TypeOK, disco
<1> QED
  BY <1>1, <1>2

\* A stutter.
LEMMA TipoQuieto == TypeOK /\ UNCHANGED vars => TypeOK'
  BY DEF TypeOK, vars, disco

-----------------------------------------------------------------------------
(* The dump in progress and the bitmaps *)

\* The blocks of the dump in progress are different and reserved, and they fit in
\* its index; its metadata is there once written, and no stored file has its name.
DumpOK ==
  /\ pc \in {"reservado", "creado", "metadata", "bloques"} =>
       /\ \A i, j \in DOMAIN dump.bloques : dump.bloques[i] = dump.bloques[j] => i = j
       /\ Range(dump.bloques) \subseteq bitmapGlobal
       /\ entraEnElBloqueDeIndice(Len(dump.bloques) - 1)
  /\ pc \in {"reservado", "creado", "metadata"} => dump.escritos = 0
  /\ pc \in {"creado", "metadata", "bloques"} => Nombre \in DOMAIN metadata \ DOMAIN archivos
  /\ pc \in {"metadata", "bloques"} =>
       metadata[Nombre] = [IndexBlock |-> dump.bloques[1], Size |-> Tamanio(dump.Data)]
  /\ pc = "bloques" => Range(dump.bloques) \subseteq cargarBitmap

\* Memory knows all the blocks that are used on disk.
BitmapOK == pc # "apagado" => cargarBitmap \subseteq bitmapGlobal

Base == TypeOK /\ DumpOK /\ BitmapOK

\* The basic facts hold at the start.
LEMMA BaseInicial == Init => Base
  BY TipoInit DEF Base, Init, DumpOK, BitmapOK

\* A dump reserves its blocks.
LEMMA BaseReservar ==
  ASSUME Base, NEW n \in Nombres, NEW d \in Datos, reservarBloques(n, d)
  PROVE  Base'
<1> USE DEF Base
<1>1. PICK s \in [1..cantidadDeBloques(d) -> Bloques] :
        /\ PrimerosLibres(s)
        /\ bitmapGlobal' = bitmapGlobal \cup Range(s)
        /\ dump' = [NombreArchivo |-> <<n>>, Data |-> d, bloques |-> s, escritos |-> 0]
  BY DEF reservarBloques
<1>2. cantidadDeBloques(d) \in Nat /\ Len(s) = cantidadDeBloques(d)
  BY LargoDatos, SeqDef, LenProperties
<1>3. \A i, j \in DOMAIN s : s[i] = s[j] => i = j
  BY <1>1, <1>2 DEF PrimerosLibres, Bloques
<1>4. entraEnElBloqueDeIndice(Len(s) - 1)
  BY <1>2 DEF reservarBloques, Entra
<1>5. DumpOK'
  BY <1>1, <1>3, <1>4 DEF DumpOK, reservarBloques, entraEnElBloqueDeIndice
<1>6. BitmapOK'
  BY <1>1 DEF BitmapOK, reservarBloques, cargarBitmap, disco
<1> QED
  BY <1>5, <1>6, TipoReservar

\* A dump writes its metadata.
LEMMA BaseMetaData == Base /\ (CrearMetaData \/ EscribirMetaData) => Base'
<1> SUFFICES ASSUME Base, CrearMetaData \/ EscribirMetaData PROVE Base'
  OBVIOUS
<1> USE DEF Base
<1>1. CASE CrearMetaData
  <2>1. Nombre' = Nombre /\ Nombre \in DOMAIN metadata' \ DOMAIN archivos'
    BY <1>1 DEF CrearMetaData, Nombre, Con, Sin
  <2>2. DumpOK'
    BY <1>1, <2>1 DEF CrearMetaData, DumpOK, entraEnElBloqueDeIndice
  <2> QED
    BY <1>1, <2>2, TipoMetaData DEF CrearMetaData, BitmapOK, cargarBitmap
<1>2. CASE EscribirMetaData
  <2>1. Nombre' = Nombre
    BY <1>2 DEF EscribirMetaData, Nombre
  <2>2. DumpOK'
    BY <1>2, <2>1 DEF EscribirMetaData, DumpOK, entraEnElBloqueDeIndice
  <2> QED
    BY <1>2, <2>2, TipoMetaData DEF EscribirMetaData, BitmapOK, cargarBitmap
<1> QED
  BY <1>1, <1>2

\* A dump writes the bitmap, which never loses a block.
LEMMA BaseBitmap == Base /\ actualizarBitmap => Base' /\ cargarBitmap \subseteq cargarBitmap'
<1> SUFFICES ASSUME Base, actualizarBitmap PROVE Base' /\ cargarBitmap \subseteq cargarBitmap'
  OBVIOUS
<1> USE DEF Base
<1>1. cargarBitmap' = bitmapGlobal
  BY IdaYVuelta DEF actualizarBitmap, TypeOK, cargarBitmap
<1>2. Nombre' = Nombre
  BY DEF actualizarBitmap, Nombre
<1>3. DumpOK'
  BY <1>1, <1>2 DEF actualizarBitmap, DumpOK, entraEnElBloqueDeIndice
<1> QED
  BY <1>1, <1>3, TipoBitmap DEF actualizarBitmap, BitmapOK

\* The other steps.
LEMMA BaseResto ==
  Base /\ (init \/ actualizarBloques \/ Contestar \/ Error \/ Caida \/ UNCHANGED vars) => Base'
<1> SUFFICES ASSUME Base, init \/ actualizarBloques \/ Contestar \/ Error \/ Caida \/ UNCHANGED vars
             PROVE  Base'
  OBVIOUS
<1> USE DEF Base
<1>1. CASE init
  BY <1>1, TipoInicia DEF init, DumpOK, BitmapOK, cargarBitmap
<1>2. CASE actualizarBloques
  <2>1. dump'.bloques = dump.bloques /\ dump'.Data = dump.Data /\ Nombre' = Nombre
    BY <1>2 DEF actualizarBloques, TypeOK, Nombre
  <2> QED
    BY <1>2, <2>1, TipoBloques DEF actualizarBloques, DumpOK, BitmapOK, cargarBitmap, entraEnElBloqueDeIndice
<1>3. CASE Contestar
  BY <1>3, TipoContestar DEF Contestar, DumpOK, BitmapOK, cargarBitmap, disco
<1>4. CASE Error
  BY <1>4, TipoFalla DEF Error, DumpOK, BitmapOK, cargarBitmap, disco
<1>5. CASE Caida
  BY <1>5, TipoFalla DEF Caida, DumpOK, BitmapOK
<1>6. CASE UNCHANGED vars
  BY <1>6, TipoQuieto DEF vars, disco, DumpOK, BitmapOK, cargarBitmap, Nombre, entraEnElBloqueDeIndice
<1> QED
  BY <1>1, <1>2, <1>3, <1>4, <1>5, <1>6

\* Every step keeps the basic facts.
LEMMA BasePaso == Base /\ [Next]_vars => Base'
<1> SUFFICES ASSUME Base, [Next]_vars PROVE Base'
  OBVIOUS
<1>1. ASSUME NEW n \in Nombres, NEW d \in Datos, reservarBloques(n, d) PROVE Base'
  BY <1>1, BaseReservar
<1>2. SinLugar => UNCHANGED vars
  BY DEF SinLugar
<1> QED
  BY <1>1, <1>2, BaseMetaData, BaseBitmap, BaseResto DEF Next

\* The types, with what the program counter says of the dump in progress.
THEOREM BaseSiempre == Spec => []Base
<1> QED
  BY BaseInicial, BasePaso, PTL DEF Spec

\* The variables of the file system keep their types in every run.
THEOREM TiposFS == Spec => []TypeOK
<1>1. Base => TypeOK
  BY DEF Base
<1> QED
  BY <1>1, BaseSiempre, PTL

-----------------------------------------------------------------------------
(* The stored files *)

\* What is written of the dump in progress is in its place: the index, and the
\* data of each block that has been written.
EscritoOK ==
  pc = "bloques" =>
    /\ dump.escritos >= 1 =>
         \A j \in 0..(Len(dump.bloques) - 2) : bloquesDat[dump.bloques[1]][j] = dump.bloques[j + 2]
    /\ \A j \in 2..dump.escritos : \A k \in 0..(Block_size - 1) :
         (j - 2) * Block_size + k < Len(dump.Data) =>
           bloquesDat[dump.bloques[j]][k] = dump.Data[(j - 2) * Block_size + k + 1]

\* A stored file is on disk, in blocks that bitmap.dat knows and that are not those
\* of the dump in progress.
ArchivoOK(n) ==
  /\ bloquesDat # <<>>
  /\ metadata[n].Size = Tamanio(archivos[n])
  /\ BloquesDe(n) \subseteq cargarBitmap
  /\ BloquesDe(n) \cap Range(dump.bloques) = {}
  /\ Leer(n) = archivos[n]

ArchivosOK ==
  /\ \A n \in DOMAIN archivos : ArchivoOK(n)
  /\ \A n, m \in DOMAIN archivos : n # m => BloquesDe(n) \cap BloquesDe(m) = {}

IInv == Base /\ EscritoOK /\ ArchivosOK

\* A file whose metadata and blocks stay as they are stays as it is.
LEMMA Marco ==
  ASSUME TypeOK, NEW n \in DOMAIN archivos, ArchivoOK(n), metadata'[n] = metadata[n],
         \A b \in BloquesDe(n) : bloquesDat'[b] = bloquesDat[b]
  PROVE  BloquesDe(n)' = BloquesDe(n) /\ Leer(n)' = Leer(n)
<1>1. \A j : Puntero(n, j)' = Puntero(n, j)
  BY DEF Puntero, BloquesDe
<1>2. BloquesDe(n)' = BloquesDe(n)
  BY <1>1 DEF BloquesDe
<1>3. metadata[n].Size \in Nat
  BY LargoDatos DEF ArchivoOK, TypeOK
<1>4. ASSUME NEW i \in 1..(metadata[n].Size - 1)
      PROVE  bloquesDat'[Puntero(n, (i - 1) \div Block_size)] = bloquesDat[Puntero(n, (i - 1) \div Block_size)]
  BY <1>3 DEF BloquesDe
<1> QED
  BY <1>1, <1>2, <1>4 DEF Leer

\* A step that changes no block of a stored file, and no file.
LEMMA MarcoTodos ==
  ASSUME IInv, DOMAIN archivos' \subseteq DOMAIN archivos,
         \A n \in DOMAIN archivos' : /\ archivos'[n] = archivos[n] /\ metadata'[n] = metadata[n]
                                    /\ \A b \in BloquesDe(n) : bloquesDat'[b] = bloquesDat[b]
                                    /\ BloquesDe(n) \cap Range(dump'.bloques) = {},
         archivos' # <<>> => bloquesDat' # <<>>,
         cargarBitmap \subseteq cargarBitmap'
  PROVE  ArchivosOK'
<1>1. ASSUME NEW n \in DOMAIN archivos'
      PROVE  ArchivoOK(n)' /\ BloquesDe(n)' = BloquesDe(n)
  <2>1. n \in DOMAIN archivos /\ ArchivoOK(n)
    BY DEF IInv, ArchivosOK
  <2>2. BloquesDe(n)' = BloquesDe(n) /\ Leer(n)' = Leer(n)
    BY <2>1, Marco DEF IInv, Base
  <2>3. archivos' # <<>>
    BY <1>1
  <2> QED
    BY <2>1, <2>2, <2>3 DEF ArchivoOK
<1> QED
  BY <1>1 DEF ArchivosOK, IInv

\* The invariant holds at the start.
LEMMA IInvInicial == Init => IInv
<1> SUFFICES ASSUME Init PROVE IInv
  OBVIOUS
<1>1. DOMAIN archivos = {}
  BY DEF Init
<1> QED
  BY <1>1, BaseInicial DEF IInv, Init, EscritoOK, ArchivosOK

\* A start reads the disk.
LEMMA IInvInicia == IInv /\ init => IInv'
<1> SUFFICES ASSUME IInv, init PROVE IInv'
  OBVIOUS
<1>1. ASSUME NEW n \in DOMAIN archivos PROVE bloquesDat' = bloquesDat
  BY DEF init, IInv, ArchivosOK, ArchivoOK
<1>2. archivos' # <<>> => bloquesDat' # <<>>
  BY TipoInicia DEF init, IInv, Base, TypeOK
<1>3. cargarBitmap' = cargarBitmap
  BY DEF init, cargarBitmap
<1>4. ArchivosOK'
  BY <1>1, <1>2, <1>3, MarcoTodos DEF init, IInv, ArchivosOK, ArchivoOK
<1> QED
  BY <1>4, BaseResto DEF IInv, init, EscritoOK

\* A dump reserves its blocks.
LEMMA IInvReservar ==
  ASSUME IInv, NEW n \in Nombres, NEW d \in Datos, reservarBloques(n, d)
  PROVE  IInv'
<1>1. Range(dump'.bloques) \cap bitmapGlobal = {}
  BY DEF reservarBloques, PrimerosLibres, Range, Libres
<1>2. cargarBitmap \subseteq bitmapGlobal /\ cargarBitmap' = cargarBitmap
  BY DEF IInv, Base, BitmapOK, reservarBloques, cargarBitmap, disco
<1>3. ArchivosOK'
  <2>1. \A m \in DOMAIN archivos : BloquesDe(m) \cap Range(dump'.bloques) = {}
    BY <1>1, <1>2 DEF IInv, ArchivosOK, ArchivoOK
  <2>2. archivos' # <<>> => bloquesDat' # <<>>
    BY DEF IInv, Base, TypeOK, reservarBloques, disco
  <2> QED
    BY <1>2, <2>1, <2>2, MarcoTodos DEF reservarBloques, disco
<1> QED
  BY <1>3, BaseReservar DEF IInv, EscritoOK, reservarBloques

\* A dump writes its metadata.
LEMMA IInvMetaData == IInv /\ (CrearMetaData \/ EscribirMetaData) => IInv'
<1> SUFFICES ASSUME IInv, CrearMetaData \/ EscribirMetaData PROVE IInv'
  OBVIOUS
<1>1. /\ DOMAIN archivos' \subseteq DOMAIN archivos
      /\ \A n \in DOMAIN archivos' : archivos'[n] = archivos[n] /\ n # Nombre /\ n \in DOMAIN metadata
  BY DEF CrearMetaData, EscribirMetaData, IInv, Base, DumpOK, TypeOK, Sin
<1>2. \A n \in DOMAIN archivos' : metadata'[n] = metadata[n]
  BY <1>1 DEF CrearMetaData, EscribirMetaData, Con
<1>3. cargarBitmap' = cargarBitmap /\ bloquesDat' = bloquesDat /\ dump' = dump
      /\ bloquesDat # <<>>
  BY DEF CrearMetaData, EscribirMetaData, cargarBitmap, IInv, Base, TypeOK
<1>4. ArchivosOK'
  BY <1>1, <1>2, <1>3, MarcoTodos DEF IInv, ArchivosOK, ArchivoOK
<1> QED
  BY <1>4, BaseMetaData DEF IInv, EscritoOK, CrearMetaData, EscribirMetaData

\* A dump writes the bitmap.
LEMMA IInvBitmap == IInv /\ actualizarBitmap => IInv'
<1> SUFFICES ASSUME IInv, actualizarBitmap PROVE IInv'
  OBVIOUS
<1>1. bloquesDat # <<>>
  BY DEF actualizarBitmap, IInv, Base, TypeOK
<1>2. ArchivosOK'
  BY <1>1, BaseBitmap, MarcoTodos DEF actualizarBitmap, IInv, ArchivosOK, ArchivoOK
<1>3. EscritoOK'
  BY DEF actualizarBitmap, EscritoOK, IInv, Base, DumpOK
<1> QED
  BY <1>2, <1>3, BaseBitmap DEF IInv

\* The step that writes a block of the dump: the blocks written before are others.
LEMMA IInvBloques ==
  ASSUME Block_count <= ValoresByte, IInv, actualizarBloques
  PROVE  IInv'
<1> DEFINE s == dump.bloques
           e == dump.escritos
           d == dump.Data
<1>1. /\ s \in Seq(Bloques) /\ d \in Datos /\ e \in Nat /\ e < Len(s) /\ Len(s) \in Nat
      /\ Len(s) = cantidadDeBloques(d) /\ DOMAIN s = 1..Len(s) /\ bloquesDat \in [Bloques -> Bytes]
      /\ \A i \in 1..Len(s) : s[i] \in Bloques
      /\ pc = "bloques" /\ pc' = "bloques"
  BY LenProperties, ElementOfSeq DEF actualizarBloques, IInv, Base, TypeOK
<1>2. dump'.bloques = s /\ dump'.Data = d /\ dump'.escritos = e + 1
  BY DEF actualizarBloques, IInv, Base, TypeOK
<1>3. /\ \A i, j \in 1..Len(s) : s[i] = s[j] => i = j
      /\ (Len(s) - 1) * 4 <= Block_size
  BY <1>1 DEF IInv, Base, DumpOK, entraEnElBloqueDeIndice
<1>4. \A b \in Bloques : b # s[e + 1] => bloquesDat'[b] = bloquesDat[b]
  BY <1>1 DEF actualizarBloques, escribirBloque
<1>5. ArchivosOK'
  <2>1. s[e + 1] \in Range(s)
    BY <1>1 DEF Range
  <2>2. ASSUME NEW n \in DOMAIN archivos
        PROVE  /\ \A b \in BloquesDe(n) : bloquesDat'[b] = bloquesDat[b]
               /\ BloquesDe(n) \cap Range(dump'.bloques) = {}
    <3>1. BloquesDe(n) \subseteq Bloques
      BY DEF IInv, ArchivosOK, ArchivoOK, cargarBitmap, FromBytes
    <3> QED
      BY <1>2, <1>4, <2>1, <3>1 DEF IInv, ArchivosOK, ArchivoOK
  <2>3. bloquesDat' # <<>>
    BY BaseResto, <1>1 DEF IInv, Base, TypeOK
  <2>4. archivos' = archivos /\ metadata' = metadata /\ cargarBitmap' = cargarBitmap
    BY DEF actualizarBloques, cargarBitmap
  <2> HIDE DEF s
  <2> QED
    BY <2>2, <2>3, <2>4, MarcoTodos
<1>6. ASSUME NEW j \in 0..(Len(s) - 2)
      PROVE  bloquesDat'[s[1]][j] = s[j + 2]
  <2>1. CASE e = 0
    <3>1. /\ j + 1 \in 1..(Len(s) - 1) /\ j \in 0..(Block_size - 1) /\ j < Len(s) - 1
          /\ s[j + 2] \in Bloques /\ s[1] \in Bloques
      BY <1>1, <1>3, FileSystemAssumption
    <3>2. /\ Len(toBytesBloque(Tail(s))) = Len(s) - 1
          /\ toBytesBloque(Tail(s))[j + 1] = s[(j + 1) + 1] % ValoresByte
      <4> HIDE DEF s, d, e
      <4>1. Len(s) > 0
        BY <1>1
      <4> QED
        BY <1>1, <3>1, <4>1, IndiceTipo
    <3>3. s[(j + 1) + 1] % ValoresByte = s[j + 2]
      <4>1. s[j + 2] \in 0..(ValoresByte - 1)
        BY <3>1, FileSystemAssumption DEF Bloques
      <4>2. \A x \in 0..(ValoresByte - 1) : x % ValoresByte = x
        BY FileSystemAssumption, SMTT(30)
      <4>3. (j + 1) + 1 = j + 2
        OBVIOUS
      <4> QED
        BY <4>1, <4>2, <4>3
    <3>4. bloquesDat' = [bloquesDat EXCEPT ![s[1]] =
            [k \in 0..(Block_size - 1) |-> IF k < Len(toBytesBloque(Tail(s))) THEN toBytesBloque(Tail(s))[k + 1] ELSE @[k]]]
      BY <2>1 DEF actualizarBloques, escribirBloque
    <3> HIDE DEF s
    <3> QED
      BY <1>1, <3>1, <3>2, <3>3, <3>4
  <2>2. CASE e # 0
    <3>1. bloquesDat'[s[1]] = bloquesDat[s[1]]
      <4>1. s[1] # s[e + 1] /\ s[1] \in Bloques
        <5> HIDE DEF s, d, e
        <5> QED
          BY <1>1, <1>3, <2>2
      <4> QED
        BY <1>4, <4>1
    <3> QED
      BY <1>1, <2>2, <3>1 DEF IInv, EscritoOK
  <2> QED
    BY <2>1, <2>2
<1>7. ASSUME NEW j \in 2..(e + 1), NEW k \in 0..(Block_size - 1), (j - 2) * Block_size + k < Len(d)
      PROVE  bloquesDat'[s[j]][k] = d[(j - 2) * Block_size + k + 1]
  <2>1. CASE j = e + 1
    <3>1. bloquesDat' = [bloquesDat EXCEPT ![s[j]] =
            [i \in 0..(Block_size - 1) |-> IF i < Len(Parte(d, j - 2)) THEN Parte(d, j - 2)[i + 1] ELSE @[i]]]
      <4>1. e + 1 = j /\ e - 1 = j - 2 /\ e # 0
        BY <1>1, <2>1
      <4>2. escribirBloque(s[e + 1], Parte(d, e - 1))
        BY <4>1 DEF actualizarBloques
      <4>3. escribirBloque(s[j], Parte(d, j - 2))
        BY <4>1, <4>2
      <4> QED
        BY <4>3 DEF escribirBloque
    <3>2. j - 2 \in 0..(cantidadDeBloques(d) - 2) /\ s[j] \in Bloques
      BY <1>1, <2>1
    <3>3. k < Len(Parte(d, j - 2)) /\ Parte(d, j - 2)[k + 1] = d[(j - 2) * Block_size + k + 1]
      BY <1>1, <1>7, <3>2, ParteDe
    <3> HIDE DEF s, d, e
    <3> QED
      BY <1>1, <3>1, <3>2, <3>3
  <2>2. CASE j # e + 1
    <3>1. bloquesDat'[s[j]] = bloquesDat[s[j]]
      <4>1. s[j] # s[e + 1] /\ s[j] \in Bloques
        <5> HIDE DEF s, d, e
        <5> QED
          BY <1>1, <1>3, <2>2
      <4> QED
        BY <1>4, <4>1
    <3>2. j \in 2..e
      BY <1>1, <2>2
    <3> QED
      BY <1>1, <1>7, <3>1, <3>2 DEF IInv, EscritoOK
  <2> QED
    BY <2>1, <2>2
<1>8. EscritoOK'
  <2> HIDE DEF s, d, e
  <2> QED
    BY <1>1, <1>2, <1>6, <1>7 DEF EscritoOK
<1> QED
  BY <1>5, <1>8, BaseResto DEF IInv

\* The dump that is answered with "true" is on disk.
LEMMA IInvContestar == IInv /\ Contestar => IInv'
<1> SUFFICES ASSUME IInv, Contestar PROVE IInv'
  OBVIOUS
<1> DEFINE s == dump.bloques
           d == dump.Data
           bs == Block_size
           q(i) == (i - 1) \div bs
<1>1. /\ d \in Datos /\ d \in [1..Len(d) -> Byte] /\ Len(d) \in Nat /\ Len(s) = Len(d) \div bs + 2
      /\ DOMAIN s = 1..Len(s) /\ pc = "bloques" /\ dump.escritos = Len(s)
      /\ Tamanio(d) = Len(d) + 1 /\ Len(s) \in Nat /\ Len(d) \div bs \in Nat
  BY LargoDatos, LenProperties, Division DEF Contestar, IInv, Base, TypeOK, Tamanio
<1>2. /\ Nombre \in DOMAIN metadata /\ Nombre \notin DOMAIN archivos
      /\ metadata[Nombre].IndexBlock = s[1] /\ metadata[Nombre].Size = Len(d) + 1
      /\ Range(s) \subseteq cargarBitmap
  BY <1>1 DEF IInv, Base, DumpOK
<1>3. ASSUME NEW i \in 1..(Len(d) + 1)
      PROVE  /\ q(i) \in 0..(Len(s) - 2) /\ (i - 1) % bs \in 0..(bs - 1)
             /\ i - 1 = q(i) * bs + ((i - 1) % bs)
             /\ Puntero(Nombre, q(i)) = s[q(i) + 2]
  <2>1. i - 1 \in Nat /\ i - 1 \in 0..Len(d)
    BY <1>1
  <2>2. q(i) \in 0..(Len(d) \div bs)
    BY <1>1, <2>1, UltimoBloque
  <2>3. q(i) \in 0..(Len(s) - 2)
    <3>1. Len(d) \div bs \in Nat /\ Len(s) - 2 = Len(d) \div bs
      <4> HIDE DEF s, d
      <4> QED
        BY <1>1
    <3> QED
      BY <2>2, <3>1
  <2>4. Puntero(Nombre, q(i)) = s[q(i) + 2]
    <3>1. dump.escritos >= 1
      <4> HIDE DEF s, d
      <4> QED
        BY <1>1
    <3> HIDE DEF q
    <3> QED
      BY <1>1, <1>2, <2>3, <3>1 DEF IInv, EscritoOK, Puntero
  <2> QED
    BY <2>1, <2>3, <2>4, Division
<1>4. BloquesDe(Nombre) \subseteq Range(s)
  <2>1. ASSUME NEW i \in 1..(Len(d) + 1) PROVE Puntero(Nombre, q(i)) \in Range(s)
    <3>1. q(i) + 2 \in DOMAIN s
      <4> HIDE DEF s, d, q
      <4> QED
        BY <1>1, <1>3
    <3> QED
      BY <1>3, <3>1 DEF Range
  <2>2. s[1] \in Range(s)
    <3>1. 1 \in DOMAIN s
      <4> HIDE DEF s, d
      <4> QED
        BY <1>1
    <3> QED
      BY <3>1 DEF Range
  <2> HIDE DEF s, d
  <2> QED
    BY <1>2, <2>1, <2>2 DEF BloquesDe, q
<1>5. Leer(Nombre) = d
  <2>1. ASSUME NEW i \in 1..Len(d)
        PROVE  bloquesDat[Puntero(Nombre, q(i))][(i - 1) % bs] = d[i]
    <3>1. i \in 1..(Len(d) + 1) /\ i - 1 < Len(d)
      BY <1>1
    <3> DEFINE j == q(i) + 2
               k == (i - 1) % bs
    <3>2. /\ j \in 2..Len(s) /\ k \in 0..(bs - 1) /\ (j - 2) * bs + k = i - 1
      <4>1. q(i) \in Int /\ (q(i) + 2) - 2 = q(i)
        BY <1>3, <3>1
      <4> HIDE DEF q, s, d
      <4> QED
        BY <1>1, <1>3, <3>1, <4>1
    <3>3. (j - 2) * bs + k < Len(d) /\ (j - 2) * bs + k + 1 = i
      BY <1>1, <3>1, <3>2
    <3>4. Puntero(Nombre, q(i)) = s[j]
      BY <1>3, <3>1
    <3> HIDE DEF j, k
    <3>5. bloquesDat[s[j]][k] = d[(j - 2) * bs + k + 1]
      BY <1>1, <3>2, <3>3 DEF IInv, EscritoOK
    <3> QED
      BY <3>3, <3>4, <3>5 DEF k
  <2>2. metadata[Nombre].Size - 1 = Len(d)
    BY <1>1, <1>2
  <2>3. Leer(Nombre) = [i \in 1..Len(d) |-> bloquesDat[Puntero(Nombre, q(i))][(i - 1) % bs]]
    BY <2>2 DEF Leer
  <2> HIDE DEF d, q
  <2> QED
    BY <1>1, <2>1, <2>3
<1>6. /\ bloquesDat' = bloquesDat /\ metadata' = metadata /\ cargarBitmap' = cargarBitmap
      /\ Range(dump'.bloques) = {} /\ bloquesDat # <<>>
      /\ \A n : BloquesDe(n)' = BloquesDe(n) /\ Leer(n)' = Leer(n)
  <2>1. bloquesDat' = bloquesDat /\ metadata' = metadata /\ cargarBitmap' = cargarBitmap /\ bloquesDat # <<>>
    BY <1>1 DEF Contestar, disco, cargarBitmap, IInv, Base, TypeOK
  <2>2. Range(dump'.bloques) = {}
    BY DEF Contestar, SinDump, Range
  <2>3. \A n : BloquesDe(n)' = BloquesDe(n) /\ Leer(n)' = Leer(n)
    BY <2>1 DEF Puntero, BloquesDe, Leer
  <2> QED
    BY <2>1, <2>2, <2>3
<1>7. /\ DOMAIN archivos' = DOMAIN archivos \cup {Nombre} /\ archivos'[Nombre] = d
      /\ \A n \in DOMAIN archivos : archivos'[n] = archivos[n]
  BY <1>2 DEF Contestar, Con
<1>8. ASSUME NEW n \in DOMAIN archivos' PROVE ArchivoOK(n)'
  <2>1. CASE n \in DOMAIN archivos
    BY <1>6, <1>7, <2>1 DEF IInv, ArchivosOK, ArchivoOK
  <2>2. CASE n = Nombre
    BY <1>1, <1>2, <1>4, <1>5, <1>6, <1>7, <2>2 DEF ArchivoOK
  <2> QED
    BY <1>7, <2>1, <2>2
<1>9. ASSUME NEW n \in DOMAIN archivos', NEW m \in DOMAIN archivos', n # m
      PROVE  BloquesDe(n)' \cap BloquesDe(m)' = {}
  <2>1. \A r \in DOMAIN archivos : BloquesDe(r) \cap Range(s) = {}
    BY DEF IInv, ArchivosOK, ArchivoOK
  <2> HIDE DEF s, d
  <2> QED
    BY <1>4, <1>6, <1>7, <1>9, <2>1 DEF IInv, ArchivosOK
<1> QED
  BY <1>8, <1>9, BaseResto DEF IInv, ArchivosOK, EscritoOK, Contestar

\* An error, or a crash.
LEMMA IInvFalla == IInv /\ (Error \/ Caida) => IInv'
<1> SUFFICES ASSUME IInv, Error \/ Caida PROVE IInv'
  OBVIOUS
<1>1. Range(dump'.bloques) = {}
  BY DEF Error, Caida, SinDump, Range
<1>2. cargarBitmap' = cargarBitmap /\ archivos' = archivos /\ metadata' = metadata /\ bloquesDat' = bloquesDat
      /\ pc' # "bloques"
  BY DEF Error, Caida, disco, cargarBitmap
<1>3. archivos' # <<>> => bloquesDat' # <<>>
  BY <1>2, BaseResto DEF IInv, Base, TypeOK, Error, Caida
<1>4. \A n \in DOMAIN archivos : bloquesDat # <<>>
  BY DEF IInv, ArchivosOK, ArchivoOK
<1>5. ArchivosOK'
  <2>1. ASSUME NEW n \in DOMAIN archivos
        PROVE  ArchivoOK(n)' /\ BloquesDe(n)' = BloquesDe(n)
    BY <1>1, <1>2, <1>4, Marco DEF IInv, Base, ArchivosOK, ArchivoOK
  <2> QED
    BY <1>2, <2>1 DEF IInv, ArchivosOK
<1> QED
  BY <1>2, <1>5, BaseResto DEF IInv, EscritoOK

\* A stutter.
LEMMA IInvQuieto == IInv /\ UNCHANGED vars => IInv'
<1> SUFFICES ASSUME IInv, UNCHANGED vars PROVE IInv'
  OBVIOUS
<1>1. cargarBitmap' = cargarBitmap /\ dump' = dump /\ archivos' = archivos /\ metadata' = metadata
      /\ bloquesDat' = bloquesDat /\ pc' = pc
  BY DEF vars, disco, cargarBitmap
<1>2. \A n : ArchivoOK(n)' = ArchivoOK(n) /\ BloquesDe(n)' = BloquesDe(n)
  BY <1>1 DEF ArchivoOK, BloquesDe, Puntero, Leer
<1> QED
  BY <1>1, <1>2, BaseResto DEF IInv, ArchivosOK, EscritoOK

\* Every step keeps the invariant.
LEMMA IInvPaso ==
  ASSUME Block_count <= ValoresByte, IInv, [Next]_vars
  PROVE  IInv'
<1>1. ASSUME NEW n \in Nombres, NEW d \in Datos, reservarBloques(n, d) PROVE IInv'
  BY <1>1, IInvReservar
<1>2. SinLugar => UNCHANGED vars
  BY DEF SinLugar
<1> QED
  BY <1>1, <1>2, IInvInicia, IInvMetaData, IInvBitmap, IInvBloques, IInvContestar, IInvFalla,
     IInvQuieto DEF Next

\* If a byte can number every block, the strengthened invariant holds in every run.
THEOREM InvarianteFS ==
  ASSUME Block_count <= ValoresByte
  PROVE  Spec => []IInv
<1>1. Init => IInv
  BY IInvInicial
<1>2. IInv /\ [Next]_vars => IInv'
  BY IInvPaso
<1> QED
  BY <1>1, <1>2, PTL DEF Spec

\* A dump that was answered with "true" reads back as it was sent for ever after,
\* through other dumps, errors and restarts (utils.go:204, 256, 68).
THEOREM GuardadoSiempreQueda ==
  ASSUME Block_count <= ValoresByte
  PROVE  Spec => []GuardadoQueda
<1>1. IInv => GuardadoQueda
  BY DEF IInv, ArchivosOK, ArchivoOK, GuardadoQueda
<1> QED
  BY <1>1, InvarianteFS, PTL

\* The blocks of stored files stay reserved on disk, and are of one file each
\* (utils.go:172, 319).
THEOREM ArchivosSiempreReservados ==
  ASSUME Block_count <= ValoresByte
  PROVE  Spec => []ArchivosReservados
<1>1. IInv => ArchivosReservados
  BY DEF IInv, ArchivosOK, ArchivoOK, ArchivosReservados
<1> QED
  BY <1>1, InvarianteFS, PTL

-----------------------------------------------------------------------------
(* The file system implements Archivos *)

\* What can be read is what was stored.
LEMMA LeidoEsArchivos ==
  ASSUME IInv
  PROVE  [n \in DOMAIN archivos |-> Leer(n)] = archivos
  BY DEF IInv, Base, TypeOK, ArchivosOK, ArchivoOK

\* At the start nothing is stored.
LEMMA CumpleInit == Init => A!Init
<1> SUFFICES ASSUME Init PROVE A!Init
  OBVIOUS
<1>1. [n \in DOMAIN archivos |-> Leer(n)] = <<>>
  BY DEF Init
<1>2. [n \in Range(dump.NombreArchivo) |-> dump.Data] = <<>>
  <2>1. Range(dump.NombreArchivo) = {}
    BY DEF Init, SinDump, Range
  <2> QED
    BY <2>1
<1> QED
  BY <1>1, <1>2 DEF A!Init

\* Every step is a step of Archivos, or none.
LEMMA CumplePaso ==
  ASSUME IInv, IInv', [Next]_vars
  PROVE  [A!Next]_<<[n \in DOMAIN archivos |-> Leer(n)], [n \in Range(dump.NombreArchivo) |-> dump.Data]>>
<1> DEFINE leido == [n \in DOMAIN archivos |-> Leer(n)]
           pedido == [n \in Range(dump.NombreArchivo) |-> dump.Data]
<1>1. leido = archivos /\ leido' = archivos'
  <2>1. leido = archivos
    BY LeidoEsArchivos
  <2>2. leido' = archivos'
    BY DEF IInv, Base, TypeOK, ArchivosOK, ArchivoOK
  <2> QED
    BY <2>1, <2>2
<1>2. Range(SinDump.NombreArchivo) = {}
  BY DEF SinDump, Range
<1>3. pc \in {"apagado", "libre"} => pedido = <<>>
  BY <1>2 DEF IInv, Base, TypeOK
<1>4. pc' \in {"apagado", "libre"} => pedido' = <<>>
  BY <1>2 DEF IInv, Base, TypeOK
<1>5. pc \notin {"apagado", "libre"} =>
        Nombre \in Nombres /\ pedido = [n \in {Nombre} |-> dump.Data]
  BY DEF IInv, Base, TypeOK, Nombre, Range
<1> HIDE DEF leido, pedido
<1>6. CASE archivos' = archivos /\ dump' = dump
  <2>1. pedido' = pedido
    BY <1>6 DEF pedido
  <2> QED
    BY <1>1, <1>6, <2>1 DEF leido, pedido
<1>7. CASE pc' \in {"apagado", "libre"} /\ archivos' = archivos
  <2>1. A!Abandonar
    BY <1>1, <1>4, <1>7 DEF A!Abandonar, leido, pedido
  <2> QED
    BY <2>1 DEF A!Next
<1>8. ASSUME NEW n \in Nombres, NEW d \in Datos, reservarBloques(n, d) PROVE A!Next
  <2>1. pedido' = [m \in {n} |-> d]
    BY <1>8 DEF reservarBloques, pedido, Range
  <2>2. A!Empezar(n, d)
    BY <1>1, <1>3, <1>8, <2>1 DEF reservarBloques, A!Empezar, leido, pedido
  <2> QED
    BY <2>2 DEF A!Next
<1>9. CASE CrearMetaData
  <2>1. A!Reemplazar(Nombre)
    BY <1>1, <1>5, <1>9 DEF CrearMetaData, A!Reemplazar, A!Quitar, Sin, leido, pedido
  <2> QED
    BY <1>5, <1>9, <2>1 DEF CrearMetaData, A!Next
<1>10. CASE actualizarBloques
  <2>1. dump'.NombreArchivo = dump.NombreArchivo /\ dump'.Data = dump.Data
    BY <1>10 DEF actualizarBloques, IInv, Base, TypeOK
  <2>2. pedido' = pedido
    BY <2>1 DEF pedido
  <2> QED
    BY <1>1, <1>10, <2>2 DEF actualizarBloques, leido, pedido
<1>11. CASE Contestar
  <2>1. A!Guardar(Nombre)
    BY <1>1, <1>4, <1>5, <1>11 DEF Contestar, A!Guardar, Con, leido, pedido
  <2> QED
    BY <1>5, <1>11, <2>1 DEF Contestar, A!Next
<1> QED
  BY <1>6, <1>7, <1>8, <1>9, <1>10, <1>11
     DEF Next, vars, disco, SinLugar, init, EscribirMetaData, actualizarBitmap, Error, Caida, leido, pedido

\* Every step of the file system is a step of Archivos, or none.
THEOREM CumpleSiempreArchivos ==
  ASSUME Block_count <= ValoresByte
  PROVE  Spec => CumpleArchivos
<1>1. IInv /\ IInv' /\ [Next]_vars =>
        [A!Next]_<<[n \in DOMAIN archivos |-> Leer(n)], [n \in Range(dump.NombreArchivo) |-> dump.Data]>>
  BY CumplePaso
<1> QED
  BY <1>1, CumpleInit, InvarianteFS, PTL DEF Spec, CumpleArchivos, A!Spec

-----------------------------------------------------------------------------
(* The space *)

\* The blocks in use: in memory, and on disk while the program is off, which is
\* what the next start takes for used.
EnUso == IF pc = "apagado" THEN cargarBitmap ELSE bitmapGlobal

\* The blocks in use that belong to nobody.
Perdidos == EnUso \ (Guardados \cup Range(dump.bloques))

\* A stored file is not larger than its index allows, and each failure has lost
\* the blocks of one dump at most.
EspacioOK ==
  /\ pc = "apagado" => bitmapGlobal = {}
  /\ \A n \in DOMAIN archivos : Cardinality(BloquesDe(n)) <= MasGrande
  /\ Cardinality(Perdidos) <= fallas * MasGrande

\* The blocks are finitely many.
LEMMA Finitos ==
  ASSUME NEW S \in SUBSET Bloques
  PROVE  IsFiniteSet(S) /\ Cardinality(S) \in Nat
<1>1. 0 \in Int /\ Block_count - 1 \in Int
  BY FileSystemAssumption
<1>2. IsFiniteSet(Bloques)
  BY <1>1, FS_Interval DEF Bloques
<1>3. IsFiniteSet(S)
  BY <1>2, FS_Subset
<1> QED
  BY <1>3, FS_CardinalityType

\* Fewer blocks, and blocks with some more.
LEMMA Cuentas ==
  ASSUME NEW S \in SUBSET Bloques, NEW T \in SUBSET Bloques, NEW R \in SUBSET (S \cup T)
  PROVE  /\ Cardinality(R) <= Cardinality(S) + Cardinality(T)
         /\ R \subseteq S => Cardinality(R) <= Cardinality(S)
         /\ Cardinality(R) \in Nat /\ Cardinality(S) \in Nat /\ Cardinality(T) \in Nat
<1>1. /\ IsFiniteSet(S) /\ IsFiniteSet(T) /\ IsFiniteSet(S \cup T)
      /\ Cardinality(S) \in Nat /\ Cardinality(T) \in Nat /\ Cardinality(S \cap T) \in Nat
      /\ Cardinality(R) \in Nat /\ Cardinality(S \cup T) \in Nat
  BY Finitos
<1>2. Cardinality(S \cup T) = Cardinality(S) + Cardinality(T) - Cardinality(S \cap T)
  BY <1>1, FS_Union
<1>3. Cardinality(R) <= Cardinality(S \cup T)
  BY <1>1, FS_Subset
<1>4. R \subseteq S => Cardinality(R) <= Cardinality(S)
  BY <1>1, FS_Subset
<1> QED
  BY <1>1, <1>2, <1>3, <1>4

\* As many blocks as places in the sequence, at most.
LEMMA RangoCorto ==
  ASSUME NEW s \in Seq(Bloques)
  PROVE  Range(s) \subseteq Bloques /\ Cardinality(Range(s)) <= Len(s)
<1>1. Len(s) \in Nat /\ DOMAIN s = 1..Len(s) /\ \A i \in 1..Len(s) : s[i] \in Bloques
  BY LenProperties, ElementOfSeq
<1>2. s \in Surjection(1..Len(s), Range(s))
  <2>1. s \in [1..Len(s) -> Range(s)]
    BY <1>1, LenProperties DEF Range
  <2> QED
    BY <1>1, <2>1 DEF Surjection, Range
<1>3. IsFiniteSet(1..Len(s)) /\ Cardinality(1..Len(s)) = Len(s)
  <2>1. 1 \in Int /\ Len(s) \in Int
    BY <1>1
  <2>2. /\ IsFiniteSet(1..Len(s))
        /\ Cardinality(1..Len(s)) = IF 1 > Len(s) THEN 0 ELSE Len(s) - 1 + 1
    BY <2>1, FS_Interval
  <2> QED
    BY <1>1, <2>2
<1>4. Cardinality(Range(s)) <= Len(s)
  BY <1>2, <1>3, FS_Surjection
<1> QED
  BY <1>1, <1>4 DEF Range

\* The largest file, and its multiples.
LEMMA Multiplos ==
  /\ MasGrande \in Nat /\ \A k \in Nat : entraEnElBloqueDeIndice(k - 1) => k <= MasGrande
  /\ \A f \in Nat : f * MasGrande \in Nat /\ (f + 1) * MasGrande = f * MasGrande + MasGrande
<1>1. /\ Block_size \in Nat /\ Block_size \div 4 \in Nat
      /\ 4 * (Block_size \div 4) <= Block_size /\ Block_size < 4 * (Block_size \div 4) + 4
  BY FileSystemAssumption
<1>2. MasGrande \in Nat
  BY <1>1 DEF MasGrande
<1>3. \A k \in Nat : entraEnElBloqueDeIndice(k - 1) => k <= MasGrande
  BY <1>1 DEF MasGrande, entraEnElBloqueDeIndice
<1>4. ASSUME NEW m \in Nat, NEW f \in Nat
      PROVE  f * m \in Nat /\ (f + 1) * m = f * m + m
  BY SMTT(30)
<1> QED
  BY <1>2, <1>3, <1>4

\* The dump in progress is not larger than a file may be.
LEMMA DumpChico ==
  ASSUME Base
  PROVE  Range(dump.bloques) \subseteq Bloques /\ Cardinality(Range(dump.bloques)) <= MasGrande
<1>1. CASE pc \in {"apagado", "libre"}
  <2>1. Range(dump.bloques) = {}
    BY <1>1 DEF Base, TypeOK, SinDump, Range
  <2> QED
    BY <2>1, FS_EmptySet, Multiplos
<1>2. CASE pc \notin {"apagado", "libre"}
  <2>1. dump.bloques \in Seq(Bloques) /\ entraEnElBloqueDeIndice(Len(dump.bloques) - 1)
    BY <1>2 DEF Base, TypeOK, DumpOK
  <2>2. Len(dump.bloques) \in Nat
    BY <2>1, LenProperties
  <2>3. Len(dump.bloques) <= MasGrande
    BY <2>1, <2>2, Multiplos
  <2>4. Range(dump.bloques) \subseteq Bloques /\ Cardinality(Range(dump.bloques)) <= Len(dump.bloques)
    BY <2>1, RangoCorto
  <2>5. Cardinality(Range(dump.bloques)) \in Nat
    BY <2>4, Finitos
  <2> QED
    BY <2>2, <2>3, <2>4, <2>5, Multiplos
<1> QED
  BY <1>1, <1>2

\* Everything in use is a block, and what memory uses holds what the disk does.
LEMMA UsoTipo ==
  ASSUME Base
  PROVE  /\ EnUso \subseteq Bloques /\ cargarBitmap \subseteq EnUso
         /\ Perdidos \subseteq Bloques
<1>1. cargarBitmap \subseteq Bloques
  BY DEF cargarBitmap, FromBytes
<1> QED
  BY <1>1 DEF EnUso, Perdidos, Base, TypeOK, BitmapOK

\* A step that stores or replaces nothing, and loses no more than it counts.
LEMMA EspacioMarco ==
  ASSUME IInv, EspacioOK, Base', archivos' = archivos,
         \A n \in DOMAIN archivos : BloquesDe(n)' = BloquesDe(n),
         pc' = "apagado" => bitmapGlobal' = {},
         EnUso' \subseteq EnUso \cup Range(dump'.bloques),
         \/ fallas' = fallas /\ Range(dump.bloques) \subseteq Range(dump'.bloques)
         \/ fallas' = fallas + 1
  PROVE  EspacioOK'
<1>1. Guardados' = Guardados
  BY DEF Guardados
<1>2. /\ Perdidos \subseteq Bloques /\ Range(dump.bloques) \subseteq Bloques
      /\ Cardinality(Range(dump.bloques)) <= MasGrande /\ fallas \in Nat
  BY UsoTipo, DumpChico DEF IInv, Base, TypeOK
<1>3. /\ Perdidos' \subseteq Perdidos \cup Range(dump.bloques)
      /\ Range(dump.bloques) \subseteq Range(dump'.bloques) => Perdidos' \subseteq Perdidos
  BY <1>1 DEF Perdidos
<1>4. /\ Cardinality(Perdidos') <= Cardinality(Perdidos) + Cardinality(Range(dump.bloques))
      /\ Perdidos' \subseteq Perdidos => Cardinality(Perdidos') <= Cardinality(Perdidos)
      /\ Cardinality(Perdidos') \in Nat /\ Cardinality(Perdidos) \in Nat
      /\ Cardinality(Range(dump.bloques)) \in Nat
  BY <1>2, <1>3, Cuentas
<1>5. Cardinality(Perdidos') <= fallas' * MasGrande
  <2>1. Cardinality(Perdidos) <= fallas * MasGrande
    BY DEF EspacioOK
  <2>2. /\ MasGrande \in Nat /\ fallas * MasGrande \in Nat
        /\ (fallas + 1) * MasGrande = fallas * MasGrande + MasGrande
    BY <1>2, Multiplos
  <2>3. CASE fallas' = fallas /\ Range(dump.bloques) \subseteq Range(dump'.bloques)
    BY <1>3, <1>4, <2>1, <2>2, <2>3
  <2>4. CASE fallas' = fallas + 1
    BY <1>2, <1>4, <2>1, <2>2, <2>4
  <2> QED
    BY <2>3, <2>4
<1>6. Cardinality(Perdidos)' <= (fallas * MasGrande)'
  BY <1>5 DEF MasGrande
<1> QED
  BY <1>6 DEF EspacioOK, MasGrande

\* The step that writes a block of the dump writes none of a stored file.
LEMMA ArchivosTrasBloques ==
  ASSUME IInv, actualizarBloques, NEW n \in DOMAIN archivos
  PROVE  BloquesDe(n)' = BloquesDe(n)
<1>1. /\ dump.bloques \in Seq(Bloques) /\ dump.escritos + 1 \in 1..Len(dump.bloques)
      /\ BloquesDe(n) \subseteq Bloques /\ BloquesDe(n) \cap Range(dump.bloques) = {}
  BY LenProperties DEF actualizarBloques, IInv, Base, TypeOK, ArchivosOK, ArchivoOK, cargarBitmap, FromBytes
<1>2. dump.bloques[dump.escritos + 1] \in Range(dump.bloques)
  BY <1>1, LenProperties DEF Range
<1>3. \A b \in Bloques : b # dump.bloques[dump.escritos + 1] => bloquesDat'[b] = bloquesDat[b]
  BY DEF actualizarBloques, escribirBloque, IInv, Base, TypeOK
<1>4. \A b \in BloquesDe(n) : bloquesDat'[b] = bloquesDat[b]
  BY <1>1, <1>2, <1>3
<1>5. metadata'[n] = metadata[n] /\ TypeOK /\ ArchivoOK(n)
  BY DEF actualizarBloques, IInv, Base, ArchivosOK
<1> QED
  BY <1>4, <1>5, Marco

\* Steps that touch no block and no metadata of a stored file.
LEMMA ArchivosIguales ==
  ASSUME IInv, init \/ EscribirMetaData \/ actualizarBitmap \/ Error \/ Caida \/ UNCHANGED vars,
         NEW n \in DOMAIN archivos
  PROVE  BloquesDe(n)' = BloquesDe(n)
<1>1. metadata'[n] = metadata[n]
  <2>1. CASE EscribirMetaData
    <3>1. n # Nombre /\ n \in DOMAIN metadata
      BY <2>1 DEF EscribirMetaData, IInv, Base, DumpOK, TypeOK
    <3> QED
      BY <2>1, <3>1 DEF EscribirMetaData
  <2>2. CASE ~EscribirMetaData
    BY <2>2 DEF init, actualizarBitmap, Error, Caida, vars, disco
  <2> QED
    BY <2>1, <2>2
<1>2. bloquesDat # <<>> /\ TypeOK /\ ArchivoOK(n)
  BY DEF IInv, Base, ArchivosOK, ArchivoOK
<1>3. bloquesDat' = bloquesDat
  BY <1>2 DEF init, EscribirMetaData, actualizarBitmap, Error, Caida, vars, disco
<1> QED
  BY <1>1, <1>2, <1>3, Marco

\* A dump reserves blocks that nobody uses.
LEMMA EspacioReservar ==
  ASSUME IInv, EspacioOK, NEW n \in Nombres, NEW d \in Datos, reservarBloques(n, d)
  PROVE  EspacioOK'
<1>1. Base'
  BY BaseReservar DEF IInv
<1>2. /\ bitmapGlobal' = bitmapGlobal \cup Range(dump'.bloques) /\ pc = "libre" /\ pc' = "reservado"
      /\ archivos' = archivos /\ fallas' = fallas /\ metadata' = metadata /\ bloquesDat' = bloquesDat
  BY DEF reservarBloques, disco
<1>3. Range(dump.bloques) = {}
  BY <1>2 DEF IInv, Base, TypeOK, SinDump, Range
<1>4. EnUso' = EnUso \cup Range(dump'.bloques)
  BY <1>2 DEF EnUso
<1>5. \A m \in DOMAIN archivos : BloquesDe(m)' = BloquesDe(m)
  BY <1>2 DEF BloquesDe, Puntero
<1> QED
  BY <1>1, <1>2, <1>3, <1>4, <1>5, EspacioMarco

\* Steps that only write, and a start.
LEMMA EspacioEscribe ==
  ASSUME IInv, EspacioOK, Base',
         init \/ EscribirMetaData \/ actualizarBitmap \/ actualizarBloques \/ UNCHANGED vars
  PROVE  EspacioOK'
<1>1. \A n \in DOMAIN archivos : BloquesDe(n)' = BloquesDe(n)
  BY ArchivosIguales, ArchivosTrasBloques
<1>2. archivos' = archivos /\ fallas' = fallas /\ dump'.bloques = dump.bloques
  BY DEF init, EscribirMetaData, actualizarBitmap, actualizarBloques, vars, disco, IInv, Base, TypeOK
<1>3. pc' = "apagado" => bitmapGlobal' = {}
  BY DEF init, EscribirMetaData, actualizarBitmap, actualizarBloques, vars, disco, EspacioOK
<1>4. EnUso' = EnUso
  BY DEF init, EscribirMetaData, actualizarBitmap, actualizarBloques, vars, disco, EnUso, cargarBitmap
<1> QED
  BY <1>1, <1>2, <1>3, <1>4, EspacioMarco

\* A failure loses the blocks of the dump in progress, and it is counted.
LEMMA EspacioFalla ==
  ASSUME IInv, EspacioOK, Error \/ Caida
  PROVE  EspacioOK'
<1>1. \A n \in DOMAIN archivos : BloquesDe(n)' = BloquesDe(n)
  BY ArchivosIguales
<1>2. Base' /\ archivos' = archivos /\ fallas' = fallas + 1
  BY BaseResto DEF Error, Caida, IInv
<1>3. pc' = "apagado" => bitmapGlobal' = {}
  BY DEF Error, Caida
<1>4. EnUso' \subseteq EnUso
  <2>1. CASE Error
    BY <2>1 DEF Error, EnUso
  <2>2. CASE Caida
    <3>1. EnUso' = cargarBitmap
      BY <2>2 DEF Caida, EnUso, cargarBitmap, disco
    <3> QED
      BY <3>1, UsoTipo DEF IInv
  <2> QED
    BY <2>1, <2>2
<1> QED
  BY <1>1, <1>2, <1>3, <1>4, EspacioMarco

\* A name that is used again loses the blocks of its file, and it is counted.
LEMMA EspacioCrear ==
  ASSUME IInv, EspacioOK, CrearMetaData
  PROVE  EspacioOK'
<1>1. /\ DOMAIN archivos' = DOMAIN archivos \ {Nombre} /\ dump' = dump /\ EnUso' = EnUso
      /\ pc' # "apagado" /\ bloquesDat' = bloquesDat
      /\ \A n \in DOMAIN archivos' : n \in DOMAIN metadata /\ metadata'[n] = metadata[n]
  BY DEF CrearMetaData, EnUso, Sin, Con, IInv, Base, TypeOK
<1>2. \A n \in DOMAIN archivos' : BloquesDe(n)' = BloquesDe(n)
  BY <1>1 DEF BloquesDe, Puntero
<1>3. Guardados' = UNION {BloquesDe(n) : n \in DOMAIN archivos'}
  BY <1>2 DEF Guardados
<1>4. \A n \in DOMAIN archivos' : Cardinality(BloquesDe(n))' <= MasGrande'
  BY <1>1, <1>2 DEF EspacioOK, MasGrande
<1>5. /\ Perdidos \subseteq Bloques /\ fallas \in Nat
      /\ Cardinality(Perdidos) <= fallas * MasGrande
  BY UsoTipo DEF IInv, Base, TypeOK, EspacioOK
<1>6. /\ MasGrande \in Nat /\ fallas * MasGrande \in Nat
      /\ (fallas + 1) * MasGrande = fallas * MasGrande + MasGrande
  BY <1>5, Multiplos
<1>7. Cardinality(Perdidos') <= fallas' * MasGrande
  <2>1. CASE Nombre \in DOMAIN archivos
    <3>1. BloquesDe(Nombre) \subseteq Bloques /\ Cardinality(BloquesDe(Nombre)) <= MasGrande
      BY <2>1 DEF IInv, ArchivosOK, ArchivoOK, cargarBitmap, FromBytes, EspacioOK
    <3>2. Guardados \subseteq Guardados' \cup BloquesDe(Nombre)
      BY <1>1, <1>3 DEF Guardados
    <3>3. Perdidos' \subseteq Perdidos \cup BloquesDe(Nombre)
      BY <1>1, <3>2 DEF Perdidos
    <3>4. /\ Cardinality(Perdidos') <= Cardinality(Perdidos) + Cardinality(BloquesDe(Nombre))
          /\ Cardinality(Perdidos') \in Nat /\ Cardinality(Perdidos) \in Nat
          /\ Cardinality(BloquesDe(Nombre)) \in Nat
      BY <1>5, <3>1, <3>3, Cuentas
    <3>5. fallas' = fallas + 1
      BY <2>1 DEF CrearMetaData
    <3> QED
      BY <1>5, <1>6, <3>1, <3>4, <3>5
  <2>2. CASE Nombre \notin DOMAIN archivos
    <3>1. Guardados' = Guardados
      BY <1>1, <1>3, <2>2 DEF Guardados
    <3>2. Perdidos' = Perdidos /\ fallas' = fallas
      BY <1>1, <2>2, <3>1 DEF Perdidos, CrearMetaData
    <3> QED
      BY <1>5, <3>2
  <2> QED
    BY <2>1, <2>2
<1>8. Cardinality(Perdidos)' <= (fallas * MasGrande)'
  BY <1>7 DEF MasGrande
<1> QED
  BY <1>1, <1>4, <1>8 DEF EspacioOK

\* The blocks of the dump that is answered are those of its file.
LEMMA BloquesDelDump ==
  ASSUME IInv, Contestar
  PROVE  BloquesDe(Nombre) = Range(dump.bloques)
<1> DEFINE s == dump.bloques
           d == dump.Data
           bs == Block_size
           q(i) == (i - 1) \div bs
<1>1. /\ d \in Datos /\ Len(d) \in Nat /\ Len(s) = Len(d) \div bs + 2 /\ Len(d) \div bs \in Nat
      /\ DOMAIN s = 1..Len(s) /\ pc = "bloques" /\ dump.escritos = Len(s)
      /\ Tamanio(d) = Len(d) + 1 /\ Len(s) \in Nat
  BY LargoDatos, LenProperties, Division DEF Contestar, IInv, Base, TypeOK, Tamanio
<1>2. metadata[Nombre].IndexBlock = s[1] /\ metadata[Nombre].Size = Len(d) + 1
  BY <1>1 DEF IInv, Base, DumpOK
<1>3. \A j \in 0..(Len(s) - 2) : Puntero(Nombre, j) = s[j + 2]
  <2>1. dump.escritos >= 1
    <3> HIDE DEF s, d
    <3> QED
      BY <1>1
  <2> QED
    BY <1>1, <1>2, <2>1 DEF IInv, EscritoOK, Puntero
<1>4. BloquesDe(Nombre) = {s[1]} \cup {Puntero(Nombre, q(i)) : i \in 1..(Len(d) + 1)}
  BY <1>2 DEF BloquesDe
<1> HIDE DEF s, d
<1>5. ASSUME NEW i \in 1..(Len(d) + 1) PROVE q(i) \in 0..(Len(s) - 2)
  <2>1. i - 1 \in Nat /\ i - 1 \in 0..Len(d)
    BY <1>1
  <2>2. q(i) \in 0..(Len(d) \div bs)
    BY <1>1, <2>1, UltimoBloque
  <2> QED
    BY <1>1, <2>2
<1>6. ASSUME NEW j \in 0..(Len(s) - 2) PROVE \E i \in 1..(Len(d) + 1) : q(i) = j
  <2>1. j * bs \in Nat /\ j * bs <= (Len(d) \div bs) * bs /\ (j * bs) \div bs = j
    <3>1. ASSUME NEW m \in Nat, NEW l \in 0..m
          PROVE  l * bs \in Nat /\ l * bs <= m * bs /\ (l * bs) \div bs = l
      BY FileSystemAssumption, SMTT(30)
    <3>2. j \in 0..(Len(d) \div bs)
      BY <1>1
    <3> QED
      BY <1>1, <3>1, <3>2
  <2>2. (Len(d) \div bs) * bs <= Len(d)
    <3>1. Len(d) \in 0..Len(d)
      BY <1>1
    <3> QED
      BY <1>1, <3>1, UltimoBloque
  <2> DEFINE x == j * bs
  <2>3. x \in Nat /\ x <= Len(d) /\ x \div bs = j
    <3>1. (Len(d) \div bs) * bs \in Nat
      BY <1>1, FileSystemAssumption, SMTT(30)
    <3> DEFINE y == (Len(d) \div bs) * bs
    <3>2. x \in Nat /\ y \in Nat /\ x <= y /\ y <= Len(d) /\ x \div bs = j
      BY <2>1, <2>2, <3>1
    <3> HIDE DEF x, y
    <3> QED
      BY <1>1, <3>2
  <2> HIDE DEF x
  <2>4. x + 1 \in 1..(Len(d) + 1) /\ (x + 1) - 1 = x
    BY <1>1, <2>3
  <2> QED
    BY <2>3, <2>4
<1> HIDE DEF q
<1>7. ASSUME NEW b \in BloquesDe(Nombre) PROVE b \in Range(s)
  <2>1. CASE b = s[1]
    BY <1>1, <2>1 DEF Range
  <2>2. ASSUME NEW i \in 1..(Len(d) + 1), b = Puntero(Nombre, q(i)) PROVE b \in Range(s)
    <3>1. q(i) \in 0..(Len(s) - 2) /\ b = s[q(i) + 2]
      BY <1>3, <1>5, <2>2
    <3>2. q(i) + 2 \in DOMAIN s
      BY <1>1, <3>1
    <3> QED
      BY <3>1, <3>2 DEF Range
  <2> QED
    BY <1>4, <2>1, <2>2
<1>8. ASSUME NEW b \in Range(s) PROVE b \in BloquesDe(Nombre)
  <2>1. PICK k \in 1..Len(s) : b = s[k]
    BY <1>1 DEF Range
  <2>2. CASE k = 1
    BY <1>4, <2>1, <2>2
  <2>3. CASE k # 1
    <3>1. k - 2 \in 0..(Len(s) - 2) /\ (k - 2) + 2 = k
      BY <1>1, <2>1, <2>3
    <3>2. b = Puntero(Nombre, k - 2) /\ \E i \in 1..(Len(d) + 1) : q(i) = k - 2
      BY <1>3, <1>6, <2>1, <3>1
    <3> QED
      BY <1>4, <3>2
  <2> QED
    BY <2>2, <2>3
<1> QED
  BY <1>7, <1>8 DEF s

\* The blocks of the dump that is answered are explained by its file.
LEMMA EspacioContestar ==
  ASSUME IInv, EspacioOK, Contestar
  PROVE  EspacioOK'
<1>1. /\ DOMAIN archivos' = DOMAIN archivos \cup {Nombre} /\ EnUso' = EnUso
      /\ pc' # "apagado" /\ fallas' = fallas /\ Range(dump'.bloques) = {}
      /\ \A n : BloquesDe(n)' = BloquesDe(n)
  BY DEF Contestar, EnUso, Con, SinDump, Range, disco, BloquesDe, Puntero
<1>2. Guardados' = Guardados \cup BloquesDe(Nombre)
  BY <1>1 DEF Guardados
<1>3. Perdidos' = Perdidos
  BY <1>1, <1>2, BloquesDelDump DEF Perdidos
<1>4. \A n \in DOMAIN archivos' : Cardinality(BloquesDe(n)) <= MasGrande
  BY <1>1, BloquesDelDump, DumpChico DEF EspacioOK, IInv
<1>5. \A n \in DOMAIN archivos' : Cardinality(BloquesDe(n))' <= MasGrande'
  BY <1>1, <1>4 DEF MasGrande
<1>6. Cardinality(Perdidos)' <= (fallas * MasGrande)'
  BY <1>1, <1>3 DEF EspacioOK, MasGrande
<1> QED
  BY <1>1, <1>5, <1>6 DEF EspacioOK

\* Every step accounts for the space.
LEMMA EspacioPaso ==
  ASSUME IInv, EspacioOK, [Next]_vars
  PROVE  EspacioOK'
<1>1. Base'
  BY BasePaso DEF IInv
<1>2. SinLugar => UNCHANGED vars
  BY DEF SinLugar
<1>3. ASSUME NEW n \in Nombres, NEW d \in Datos, reservarBloques(n, d) PROVE EspacioOK'
  BY <1>3, EspacioReservar
<1> QED
  BY <1>1, <1>2, <1>3, EspacioEscribe, EspacioFalla, EspacioCrear, EspacioContestar DEF Next

\* Space is lost to failures only, and no more than one dump's worth to each: no
\* sequence of dumps, errors and restarts leaks another block (utils.go:231, 319).
THEOREM EspacioSiempreExplicado ==
  ASSUME Block_count <= ValoresByte
  PROVE  Spec => []EspacioExplicado
<1>1. Init => EspacioOK
  <2> SUFFICES ASSUME Init PROVE EspacioOK
    OBVIOUS
  <2>1. Perdidos = {} /\ fallas = 0 /\ DOMAIN archivos = {} /\ bitmapGlobal = {}
    BY DEF Init, Perdidos, EnUso, cargarBitmap
  <2> QED
    BY <2>1, FS_EmptySet, Multiplos DEF EspacioOK
<1>2. IInv /\ EspacioOK /\ [Next]_vars => EspacioOK'
  BY EspacioPaso
<1>3. IInv /\ EspacioOK => EspacioExplicado
  <2> SUFFICES ASSUME IInv, EspacioOK PROVE EspacioExplicado
    OBVIOUS
  <2>1. CASE pc = "apagado"
    <3>1. Cardinality(bitmapGlobal \ (Guardados \cup Range(dump.bloques))) = 0
      BY <2>1, FS_EmptySet DEF EspacioOK
    <3>2. fallas * MasGrande \in Nat
      BY Multiplos DEF IInv, Base, TypeOK
    <3> QED
      BY <3>1, <3>2 DEF EspacioExplicado
  <2>2. CASE pc # "apagado"
    BY <2>2 DEF EspacioOK, EspacioExplicado, Perdidos, EnUso
  <2> QED
    BY <2>1, <2>2
<1> QED
  BY <1>1, <1>2, <1>3, InvarianteFS, PTL DEF Spec
=============================================================================
