\* Two threads of one priority, one that may never stop and one with every kind of
\* syscall and fault, three bursts deep, with two timers alive at once.
SPECIFICATION FairSpec
CONSTANTS
  h1 = h1
  h2 = h2
  Fin = Fin
  Hilos = {h1, h2}
  Programa <- Programas
  Registros = {"AX", "BX"}
  Palabra = 4
  Base <- BaseUno
  Limite <- LimiteDos
  Prioridad <- MismaPrioridad
  MaxTemporizadores = 2
  Supuestos = {"quantum largo", "despierta a tiempo"}
INVARIANTS
  TypeOK RafagaDelExec AccesoPropio SiempreDesalojable
PROPERTIES
  CumpleMaquinas RotaLaCpu
