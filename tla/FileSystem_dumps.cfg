\* Dumps of one and two blocks that fill a disk of eight, or are refused, with
\* stops, errors and names that are used again.
SPECIFICATION Spec
CONSTANTS
  Block_count = 8
  Block_size = 8
  ValoresByte = 16
  Nombres = {f1, f2, f3}
  Datos <- DatosChicos
  MaxFallas = 2
SYMMETRY Simetria
INVARIANTS
  TypeOK GuardadoQueda ArchivosReservados EspacioExplicado
PROPERTIES
  CumpleArchivos
