------------------------------ MODULE MCSistema ------------------------------
(* Model values for the run of the kernel and memory together. *)
EXTENDS SistemaProps

UnaDoce == <<12>>
ReglasDelSistema == {"archivos", "crea el principal", "sale el principal", "salida ordenada"}
=============================================================================
