----------------------------- MODULE CicloDeVida -----------------------------
(***************************************************************************)
(* What the kernel promises about the life of a thread: it is created      *)
(* ready, at most one thread executes at a time, a thread leaves a state   *)
(* only by the transitions below, and EXIT is for good.                    *)
(***************************************************************************)
CONSTANT Hilos   \* the threads that may be created

VARIABLE estado  \* the state of each thread

Estados == {"no creado", "ready", "exec", "block", "exit"}

Pasa(h, desde, hasta) ==
  /\ estado[h] = desde
  /\ estado' = [estado EXCEPT ![h] = hasta]

Crear(h) == Pasa(h, "no creado", "ready")
Ejecutar(h) == (\A g \in Hilos : estado[g] # "exec") /\ Pasa(h, "ready", "exec")
Desalojar(h) == Pasa(h, "exec", "ready")
Bloquear(h) == Pasa(h, "exec", "block")
Despertar(h) == Pasa(h, "block", "ready")
Terminar(h) == \E e \in {"ready", "exec", "block"} : Pasa(h, e, "exit")

Init ==
  /\ estado \in [Hilos -> {"no creado", "ready"}]
  /\ \A g, h \in Hilos : estado[g] = "ready" /\ estado[h] = "ready" => g = h

Next ==
  \E h \in Hilos : \/ Crear(h) \/ Ejecutar(h) \/ Desalojar(h)
                   \/ Bloquear(h) \/ Despertar(h) \/ Terminar(h)

Spec == Init /\ [][Next]_estado

\* At most one thread executes.
UnoEnExec == \A g, h \in Hilos : estado[g] = "exec" /\ estado[h] = "exec" => g = h
==============================================================================
