------------------------------ MODULE MCMemoria ------------------------------
(* Model values for the runs of memory: sizes of bytes instead of the sizes of *)
(* src/memoria/configsMemoria, in the same proportions.                        *)
EXTENDS MemoriaProps

FijasChicas == <<5, 2, 8, 3>>
UnaDoce == <<12>>
=============================================================================
