---------------------------- MODULE Instrucciones ----------------------------
(***************************************************************************)
(* What the instructions of a script do to the context of their thread     *)
(* (src/cpu/utils/utils.go:485-1060), on words of a small width.  A thread *)
(* stands for the only thread of a process with its own partition.         *)
(***************************************************************************)
EXTENDS Integers, Sequences

CONSTANTS
  Hilos,      \* the threads
  Programa,   \* the script of each thread, a sequence of instructions
  Registros,  \* the registers that scripts use
  Palabra,    \* a word is 0..(Palabra - 1): 2^32 in the code
  Base, Limite  \* the first and the last address of each thread's partition

\* The syscalls by what the kernel does with a thread that makes them: it goes
\* back to the CPU, sleeps in IO, is blocked and ready again, or ends.  Each
\* name stands for those that have the same effect.
Sigue == {"MUTEX_CREATE"}
Bloquea == {"IO"}
Vuelca == {"DUMP_MEMORY"}
Termina == {"PROCESS_EXIT"}
Syscalls == Sigue \cup Bloquea \cup Vuelca \cup Termina

Palabras == 0..(Palabra - 1)

Instruccion ==
  [op : {"SET"}, r : Registros, v : Palabras]
    \cup [op : {"SUM", "SUB", "READ_MEM", "WRITE_MEM"}, r : Registros, s : Registros]
    \cup [op : {"JNZ"}, r : Registros, v : Nat]
    \cup [op : {"LOG"} \cup Syscalls]

ASSUME InstruccionesAssumption ==
  /\ Palabra \in Nat \ {0}
  /\ Programa \in [Hilos -> Seq(Instruccion)]
  /\ Base \in [Hilos -> Palabras] /\ Limite \in [Hilos -> Palabras]
  /\ \A h \in Hilos : Base[h] <= Limite[h]

\* Scripts end with the end of their process, and jump to lines that they have.
ASSUME ProgramaAssumption ==
  \A h \in Hilos :
    /\ 1 \in DOMAIN Programa[h]
    /\ \A i \in DOMAIN Programa[h] :
         /\ Programa[h][i].op \notin Termina => i + 1 \in DOMAIN Programa[h]
         /\ Programa[h][i].op = "JNZ" => Programa[h][i].v + 1 \in DOMAIN Programa[h]

-----------------------------------------------------------------------------
(* Words and addresses *)

\* The sum, or the difference, of two words wraps around.
Envolver(n) == IF n < 0 THEN n + Palabra ELSE IF n >= Palabra THEN n - Palabra ELSE n

direccionFisica(h, l) == Envolver(l + Base[h])

\* TranslateAdress fails: the address is beyond the limit.
SegmentationFault(h, l) == direccionFisica(h, l) > Limite[h]

\* Mutant: memory tests the limit only, as the CPU does.
EnRango_SinBase(h, a) == a <= Limite[h]

\* Memory serves the address (ReadMemory, WriteMemory).
EnRango(h, a) == Base[h] <= a /\ a <= Limite[h]

Servido(h, l) == ~SegmentationFault(h, l) /\ EnRango(h, direccionFisica(h, l))

-----------------------------------------------------------------------------
(* Instructions *)

Contextos == [PC : Nat, reg : [Registros -> Palabras]]
ContextoInicial == [PC |-> 0, reg |-> [r \in Registros |-> 0]]

Actual(h, ctx) == Programa[h][ctx.PC + 1]

\* The logical address that READ_MEM or WRITE_MEM use.
DireccionLogica(i, ctx) == IF i.op = "READ_MEM" THEN ctx.reg[i.s] ELSE ctx.reg[i.r]

Falla(h, ctx) ==
  /\ Actual(h, ctx).op \in {"READ_MEM", "WRITE_MEM"}
  /\ SegmentationFault(h, DireccionLogica(Actual(h, ctx), ctx))

\* ModificarValorCampo
Poner(ctx, r, v) == [ctx EXCEPT !.reg[r] = v]

\* The contexts that the instruction at PC may leave.  A word that is read may
\* be any; an access that fails changes nothing but the PC.
Ejecutar(h, ctx) ==
  LET i == Actual(h, ctx)
      c == [ctx EXCEPT !.PC = @ + 1]
  IN CASE i.op = "SET" -> {Poner(c, i.r, i.v)}
       [] i.op = "SUM" -> {Poner(c, i.r, Envolver(c.reg[i.r] + c.reg[i.s]))}
       [] i.op = "SUB" -> {Poner(c, i.r, Envolver(c.reg[i.r] - c.reg[i.s]))}
       [] i.op = "JNZ" /\ c.reg[i.r] # 0 -> {[c EXCEPT !.PC = i.v]}
       [] i.op = "READ_MEM" /\ Servido(h, DireccionLogica(i, ctx)) ->
            {Poner(c, i.r, v) : v \in Palabras}
       [] OTHER -> {c}
=============================================================================
