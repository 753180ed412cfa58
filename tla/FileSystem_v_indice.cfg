\* A disk with more blocks than a byte can number: 1024 and 4096 blocks in most of
\* src/filesystem/configsFS.
SPECIFICATION Spec
CONSTANTS
  Block_count = 16
  Block_size = 8
  ValoresByte = 8
  Nombres = {f1, f2, f3, f4, f5}
  Datos <- DatosChicos
  MaxFallas = 0
SYMMETRY Simetria
INVARIANTS
  GuardadoQueda
