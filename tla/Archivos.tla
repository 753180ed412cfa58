------------------------------ MODULE Archivos ------------------------------
(***************************************************************************)
(* What the file system promises about dumps: one that is answered with    *)
(* "true" can be read back, whatever else happens, until another dump of   *)
(* the same name begins to replace it.  Any other dump leaves no trace.    *)
(***************************************************************************)
CONSTANTS
  Nombres,  \* names of files
  Datos     \* what a file may hold

VARIABLES
  leido,    \* name -> what reading the file gives
  pedido    \* the dump in progress: none, or one name with its data

Quitar(f, n) == [m \in DOMAIN f \ {n} |-> f[m]]

Empezar(n, d) ==
  /\ pedido = <<>>
  /\ pedido' = [m \in {n} |-> d]
  /\ UNCHANGED leido

\* The file of the same name is about to be replaced.
Reemplazar(n) ==
  /\ n \in DOMAIN pedido
  /\ leido' = Quitar(leido, n)
  /\ UNCHANGED pedido

Guardar(n) ==
  /\ n \in DOMAIN pedido
  /\ leido' = [m \in DOMAIN leido \cup {n} |-> IF m = n THEN pedido[n] ELSE leido[m]]
  /\ pedido' = <<>>

Abandonar ==
  /\ pedido' = <<>>
  /\ UNCHANGED leido

Init == leido = <<>> /\ pedido = <<>>

Next ==
  \/ \E n \in Nombres, d \in Datos : Empezar(n, d)
  \/ \E n \in Nombres : Reemplazar(n) \/ Guardar(n)
  \/ Abandonar

Spec == Init /\ [][Next]_<<leido, pedido>>
=============================================================================
