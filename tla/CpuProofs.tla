------------------------------ MODULE CpuProofs ------------------------------
(***************************************************************************)
(* Proofs about the bursts of the CPU, for any threads, priorities,        *)
(* scripts, words and partitions, any number of timers, and whatever is    *)
(* assumed of delays or not.                                               *)
(***************************************************************************)
EXTENDS CpuProps, SequenceTheorems, FiniteSetTheorems, WellFoundedInduction, TLAPS

-----------------------------------------------------------------------------
(* The invariant *)

\* Only the innermost burst runs.
Exteriores == \A k \in DOMAIN rafagas : k < Len(rafagas) => rafagas[k].paso = "llamada"

\* The thread of the burst that runs is in exec until it makes its last syscall
\* or the burst is over.
ExecOK ==
  \/ rafagas = <<>> /\ colaExecHilo = <<>>
  \/ rafagas # <<>> /\ Tope.paso # "llamada" /\ ~syscallEnviada /\ colaExecHilo = <<Tope.hilo>>
  \/ rafagas # <<>> /\ Tope.paso = "llamada" /\ colaExecHilo = <<>>
  \/ rafagas # <<>> /\ Tope.paso = "control" /\ syscallEnviada /\ colaExecHilo = <<>>

Distintos(cola) == \A i, j \in DOMAIN cola : cola[i] = cola[j] => i = j

\* A thread is in one place, once.
ColasOK ==
  /\ Distintos(colaReadyHilo)
  /\ \A i \in DOMAIN colaReadyHilo :
       colaReadyHilo[i] \notin enIo \cup terminados /\ colaExecHilo # <<colaReadyHilo[i]>>
  /\ enIo \cap terminados = {}
  /\ \A h \in enIo \cup terminados : colaExecHilo # <<h>>

\* The flags are set between an instruction and the end of its burst only.
BanderasOK ==
  /\ syscallEnviada => Interna("control") /\ ~flagSegmentationFault
  /\ flagSegmentationFault => Interna("control")

Desalojos == {"desalojo inicial", "desalojo"}

\* Memory has the context of the thread that is being evicted.
GuardadoOK == rafagas # <<>> /\ Tope.paso \in Desalojos => contextos[Tope.hilo] = Tope.ctx

EnGuion(h, ctx) == ctx.PC + 1 \in DOMAIN Programa[h]

\* A thread that has not ended has an instruction to go on with.
GuionOK ==
  /\ \A h \in Hilos \ terminados : EnGuion(h, contextos[h])
  /\ rafagas # <<>> /\ Tope.paso \in {"inicio", "ciclo", "control"} /\ ~syscallEnviada =>
       EnGuion(Tope.hilo, Tope.ctx)

\* The WaitGroup counts the burst that has not begun its loop.
WgOK == wg = IF rafagas # <<>> /\ Tope.paso \in {"inicio", "desalojo inicial"} THEN 1 ELSE 0

IInv ==
  TypeOK /\ Exteriores /\ ExecOK /\ ColasOK /\ BanderasOK /\ GuardadoOK /\ GuionOK /\ WgOK

-----------------------------------------------------------------------------
(* Instructions *)

\* The result of an addition or a subtraction is a word again.
LEMMA EnvolverTipo ==
  ASSUME NEW a \in Palabras, NEW b \in Palabras
  PROVE  Envolver(a + b) \in Palabras /\ Envolver(a - b) \in Palabras
BY InstruccionesAssumption DEF Palabras, Envolver

\* The instruction at a PC of the script, with its operands.
LEMMA ActualTipo ==
  ASSUME NEW h \in Hilos, NEW ctx \in Contextos, EnGuion(h, ctx)
  PROVE  /\ Actual(h, ctx) \in Instruccion
         /\ Actual(h, ctx).op \notin Termina => ctx.PC + 1 + 1 \in DOMAIN Programa[h]
         /\ Actual(h, ctx).op = "JNZ" => Actual(h, ctx).v + 1 \in DOMAIN Programa[h]
<1>1. Programa[h] \in Seq(Instruccion)
  BY InstruccionesAssumption
<1>2. ctx.PC + 1 \in DOMAIN Programa[h]
  BY DEF EnGuion
<1>3. Programa[h][ctx.PC + 1] \in Instruccion
  BY <1>1, <1>2, ElementOfSeq
<1> QED
  BY <1>2, <1>3, ProgramaAssumption DEF Actual

\* The context of a new thread is a context.
LEMMA InicialTipo == ContextoInicial \in Contextos
<1>1. 0 \in Palabras
  BY InstruccionesAssumption DEF Palabras
<1> QED
  BY <1>1 DEF ContextoInicial, Contextos

\* Setting a register (cpu 1092) leaves a context at the same line.
LEMMA PonerTipo ==
  ASSUME NEW c \in Contextos, NEW r, NEW v \in Palabras
  PROVE  Poner(c, r, v) \in Contextos /\ Poner(c, r, v).PC = c.PC
BY DEF Poner, Contextos

\* An instruction leaves a context, with a line of the script to go on with
\* unless it ends the process.
LEMMA EjecutarTipo ==
  ASSUME NEW h \in Hilos, NEW ctx \in Contextos, EnGuion(h, ctx),
         NEW c \in Ejecutar(h, ctx)
  PROVE  /\ c \in Contextos
         /\ Actual(h, ctx).op \notin Termina => EnGuion(h, c)
<1> DEFINE i == Actual(h, ctx)
           d == [ctx EXCEPT !.PC = @ + 1]
<1>1. /\ i \in Instruccion
      /\ i.op \notin Termina => ctx.PC + 1 + 1 \in DOMAIN Programa[h]
      /\ i.op = "JNZ" => i.v + 1 \in DOMAIN Programa[h]
  BY ActualTipo
<1>2. d \in Contextos /\ d.PC = ctx.PC + 1 /\ d.reg = ctx.reg
  BY DEF Contextos
<1>3. \A r \in Registros : d.reg[r] \in Palabras
  BY <1>2 DEF Contextos
<1> HIDE DEF i, d
<1>4. CASE i.op = "SET"
  <2>1. i.v \in Palabras
    BY <1>1, <1>4 DEF Instruccion, Syscalls, Sigue, Bloquea, Vuelca, Termina
  <2>2. c = Poner(d, i.r, i.v)
    BY <1>4 DEF Ejecutar, i, d
  <2> QED
    BY <1>1, <1>2, <1>4, <2>1, <2>2, PonerTipo DEF EnGuion, i
<1>5. CASE i.op \in {"SUM", "SUB"}
  <2>1. i.r \in Registros /\ i.s \in Registros
    BY <1>1, <1>5 DEF Instruccion, Syscalls, Sigue, Bloquea, Vuelca, Termina
  <2>2. PICK v \in Palabras : c = Poner(d, i.r, v)
    <3>1. Envolver(d.reg[i.r] + d.reg[i.s]) \in Palabras /\ Envolver(d.reg[i.r] - d.reg[i.s]) \in Palabras
      BY <2>1, <1>3, EnvolverTipo
    <3>2. CASE i.op = "SUM"
      <4>1. c = Poner(d, i.r, Envolver(d.reg[i.r] + d.reg[i.s]))
        BY <3>2 DEF Ejecutar, i, d
      <4> QED
        BY <4>1, <3>1
    <3>3. CASE i.op = "SUB"
      <4>1. c = Poner(d, i.r, Envolver(d.reg[i.r] - d.reg[i.s]))
        BY <3>3 DEF Ejecutar, i, d
      <4> QED
        BY <4>1, <3>1
    <3> QED
      BY <1>5, <3>2, <3>3
  <2> QED
    BY <1>1, <1>2, <1>5, <2>2, PonerTipo DEF EnGuion, i
<1>6. CASE i.op = "READ_MEM"
  <2>1. c = d \/ \E v \in Palabras : c = Poner(d, i.r, v)
    BY <1>6 DEF Ejecutar, i, d
  <2> QED
    BY <1>1, <1>2, <1>6, <2>1, PonerTipo DEF EnGuion, i, Termina
<1>7. CASE i.op = "JNZ"
  <2>1. i.v \in Nat
    BY <1>1, <1>7 DEF Instruccion, Syscalls, Sigue, Bloquea, Vuelca, Termina
  <2>2. c = d \/ c = [d EXCEPT !.PC = i.v]
    BY <1>7 DEF Ejecutar, i, d
  <2> QED
    BY <1>1, <1>2, <1>7, <2>1, <2>2 DEF EnGuion, i, Termina, Contextos
<1>8. CASE i.op \notin {"SET", "SUM", "SUB", "READ_MEM", "JNZ"}
  <2>1. c = d
    BY <1>8 DEF Ejecutar, i, d
  <2> QED
    BY <1>1, <1>2, <2>1 DEF EnGuion, i
<1> QED
  BY <1>4, <1>5, <1>6, <1>7, <1>8

\* Some context is left, and a syscall changes the PC only.
LEMMA EjecutarHay ==
  ASSUME NEW h \in Hilos, NEW ctx \in Contextos
  PROVE  Actual(h, ctx).op \in Syscalls => Ejecutar(h, ctx) = {[ctx EXCEPT !.PC = @ + 1]}
BY DEF Ejecutar, Syscalls, Sigue, Bloquea, Vuelca, Termina

\* Memory serves nothing outside the partition.
LEMMA AccesoSeguro ==
  ASSUME NEW h \in Hilos, NEW l \in Palabras, Servido(h, l)
  PROVE  l <= Limite[h] - Base[h]
BY InstruccionesAssumption
   DEF Servido, SegmentationFault, EnRango, direccionFisica, Envolver, Palabras

-----------------------------------------------------------------------------
(* The stack of bursts *)

\* The innermost burst is a burst.
LEMMA TopeTipo ==
  ASSUME rafagas \in Seq(Rafagas), rafagas # <<>>
  PROVE  /\ Len(rafagas) \in DOMAIN rafagas /\ Len(rafagas) \in Nat \ {0}
         /\ DOMAIN rafagas = 1..Len(rafagas)
         /\ Tope \in Rafagas /\ Tope.hilo \in Hilos /\ Tope.ctx \in Contextos
<1>1. Len(rafagas) \in Nat \ {0} /\ DOMAIN rafagas = 1..Len(rafagas)
  BY EmptySeq, LenProperties
<1>2. Tope \in Rafagas
  BY <1>1, ElementOfSeq DEF Tope
<1>3. Tope.hilo \in Hilos /\ Tope.ctx \in Contextos
  BY <1>2 DEF Rafagas
<1>4. Len(rafagas) \in 1..Len(rafagas)
  BY <1>1
<1> QED
  BY <1>1, <1>2, <1>3, <1>4

\* A step of the innermost burst leaves the others alone.
LEMMA TopeCambia ==
  ASSUME rafagas \in Seq(Rafagas), rafagas # <<>>, Exteriores,
         NEW r \in Rafagas, Cambiar(r)
  PROVE  rafagas' \in Seq(Rafagas) /\ rafagas' # <<>> /\ Tope' = r /\ Exteriores'
<1> DEFINE n == Len(rafagas)
<1>1. n \in DOMAIN rafagas /\ n \in Nat \ {0} /\ DOMAIN rafagas = 1..n
  BY TopeTipo
<1>2. rafagas' = [rafagas EXCEPT ![n] = r]
  BY DEF Cambiar
<1>3. rafagas' \in Seq(Rafagas) /\ Len(rafagas') = n
  BY <1>1, <1>2, ExceptSeq
<1>4. /\ DOMAIN rafagas' = 1..n /\ rafagas'[n] = r
      /\ \A k \in 1..n : k # n => rafagas'[k] = rafagas[k]
  BY <1>1, <1>2
<1>5. rafagas' # <<>>
  BY <1>1, <1>3, EmptySeq
<1> HIDE DEF n
<1>6. ASSUME NEW k \in 1..n, k < n PROVE rafagas'[k].paso = "llamada"
  <2>1. k # n
    BY <1>1, <1>6
  <2>2. rafagas'[k] = rafagas[k]
    BY <1>4, <2>1
  <2> QED
    BY <1>1, <1>6, <2>2 DEF Exteriores
<1>7. Exteriores'
  BY <1>3, <1>4, <1>6 DEF Exteriores
<1> QED
  BY <1>3, <1>4, <1>5, <1>7 DEF Tope

\* The same for a step that names the new values of its fields.
LEMMA PasarCambia ==
  ASSUME rafagas \in Seq(Rafagas), rafagas # <<>>, Exteriores,
         NEW paso \in {"recibe", "inicio", "ciclo", "llamada", "control",
                       "desalojo inicial", "desalojo"},
         NEW ctx \in Contextos,
         Cambiar([Tope EXCEPT !.ctx = ctx, !.paso = paso])
  PROVE  /\ rafagas' \in Seq(Rafagas) /\ rafagas' # <<>> /\ Exteriores'
         /\ Tope' \in Rafagas
         /\ Tope'.hilo = Tope.hilo /\ Tope'.ctx = ctx /\ Tope'.paso = paso
<1> DEFINE r == [Tope EXCEPT !.ctx = ctx, !.paso = paso]
<1>1. Tope \in Rafagas
  BY TopeTipo
<1>2. r \in Rafagas /\ r.hilo = Tope.hilo /\ r.ctx = ctx /\ r.paso = paso
  BY <1>1 DEF Rafagas
<1> HIDE DEF r
<1>3. Cambiar(r)
  BY DEF r
<1>4. rafagas' \in Seq(Rafagas) /\ rafagas' # <<>> /\ Tope' = r /\ Exteriores'
  BY <1>2, <1>3, TopeCambia
<1> QED
  BY <1>2, <1>4

\* A step that changes the step of the burst only.
LEMMA PasarSolo ==
  ASSUME rafagas \in Seq(Rafagas), rafagas # <<>>, NEW paso, Pasar(paso)
  PROVE  Cambiar([Tope EXCEPT !.ctx = Tope.ctx, !.paso = paso])
<1>1. Tope \in Rafagas
  BY TopeTipo
<1>2. [Tope EXCEPT !.ctx = Tope.ctx, !.paso = paso] = [Tope EXCEPT !.paso = paso]
  BY <1>1 DEF Rafagas
<1> QED
  BY <1>2 DEF Pasar

\* After the end of a burst, the one around it waits for the kernel.
LEMMA TopeTermina ==
  ASSUME rafagas \in Seq(Rafagas), rafagas # <<>>, Exteriores, FinRafaga
  PROVE  /\ rafagas' \in Seq(Rafagas) /\ Exteriores'
         /\ rafagas' # <<>> => Tope' \in Rafagas /\ Tope'.paso = "llamada"
<1> DEFINE n == Len(rafagas)
<1>1. n \in Nat \ {0} /\ DOMAIN rafagas = 1..n
  BY TopeTipo
<1>2. \A i \in 1..(n - 1) : rafagas[i] \in Rafagas
  BY <1>1, ElementOfSeq
<1>3. /\ rafagas' \in Seq(Rafagas) /\ Len(rafagas') = n - 1
      /\ \A k \in 1..(n - 1) : rafagas'[k] = rafagas[k]
  BY <1>1, <1>2, SubSeqProperties DEF FinRafaga
<1>4. DOMAIN rafagas' = 1..(n - 1)
  BY <1>1, <1>3, LenProperties
<1>5. Exteriores'
  BY <1>1, <1>3, <1>4 DEF Exteriores
<1>6. ASSUME rafagas' # <<>> PROVE Tope' \in Rafagas /\ Tope'.paso = "llamada"
  <2>1. n - 1 \in 1..(n - 1)
    BY <1>1, <1>3, <1>6, EmptySeq
  <2>2. Tope' = rafagas[n - 1]
    BY <1>3, <2>1 DEF Tope
  <2> QED
    BY <1>1, <1>2, <2>1, <2>2 DEF Exteriores
<1> QED
  BY <1>3, <1>5, <1>6

\* A dispatch within a syscall: the burst around waits, the new one begins.
LEMMA TopeAnida ==
  ASSUME rafagas \in Seq(Rafagas), rafagas # <<>>, Exteriores,
         NEW c \in Contextos, NEW h \in Hilos,
         rafagas' = Append([rafagas EXCEPT ![Len(rafagas)].ctx = c,
                                           ![Len(rafagas)].paso = "llamada"],
                           enviarTCBCpu(h))
  PROVE  /\ rafagas' \in Seq(Rafagas) /\ rafagas' # <<>> /\ Exteriores'
         /\ Tope' = enviarTCBCpu(h) /\ Tope' \in Rafagas
<1> DEFINE n == Len(rafagas)
           r == [Tope EXCEPT !.ctx = c, !.paso = "llamada"]
           q == [rafagas EXCEPT ![n] = r]
<1>1. n \in DOMAIN rafagas /\ n \in Nat \ {0} /\ DOMAIN rafagas = 1..n /\ Tope \in Rafagas
  BY TopeTipo
<1>2. r \in Rafagas /\ r.paso = "llamada"
  BY <1>1 DEF Rafagas
<1>3. rafagas' = Append(q, enviarTCBCpu(h))
  BY <1>1 DEF Tope
<1>4. enviarTCBCpu(h) \in Rafagas
  BY InicialTipo DEF enviarTCBCpu, Rafagas
<1> HIDE DEF r
<1>5. /\ q \in Seq(Rafagas) /\ Len(q) = n /\ DOMAIN q = 1..n /\ q[n] = r
      /\ \A k \in 1..n : k # n => q[k] = rafagas[k]
  BY <1>1, <1>2, ExceptSeq
<1> DEFINE t == enviarTCBCpu(h)
<1> HIDE DEF q, t, n
<1>6. /\ Append(q, t) \in Seq(Rafagas) /\ Append(q, t) # <<>>
      /\ Len(Append(q, t)) = Len(q) + 1
      /\ \A k \in 1..Len(q) : Append(q, t)[k] = q[k]
      /\ Append(q, t)[Len(q) + 1] = t
  BY <1>4, <1>5, AppendProperties DEF t
<1>7. /\ rafagas' \in Seq(Rafagas) /\ rafagas' # <<>> /\ Len(rafagas') = n + 1
      /\ \A k \in 1..n : rafagas'[k] = q[k]
      /\ rafagas'[n + 1] = t
  BY <1>3, <1>5, <1>6 DEF t
<1>8. DOMAIN rafagas' = 1..(n + 1)
  BY <1>7, LenProperties
<1>9. ASSUME NEW k \in 1..(n + 1), k < n + 1 PROVE rafagas'[k].paso = "llamada"
  <2>1. k \in 1..n
    BY <1>1, <1>9
  <2>4. rafagas'[k] = q[k]
    BY <1>7, <2>1
  <2>2. CASE k = n
    BY <1>2, <1>5, <2>2, <2>4
  <2>3. CASE k # n
    BY <1>1, <1>5, <1>9, <2>1, <2>3, <2>4 DEF Exteriores
  <2> QED
    BY <2>2, <2>3
<1>10. Exteriores'
  BY <1>7, <1>8, <1>9 DEF Exteriores
<1>11. Tope' = t
  BY <1>7 DEF Tope
<1> QED
  BY <1>4, <1>7, <1>10, <1>11 DEF t

-----------------------------------------------------------------------------
(* The queues *)

\* The queue of one thread is empty without it.
LEMMA QuitarSolo ==
  ASSUME NEW h
  PROVE  Quitar(<<h>>, h) = <<>>
<1>1. DOMAIN <<h>> = {1} /\ <<h>>[1] = h /\ Len(<<h>>) = 1
  OBVIOUS
<1>2. (CHOOSE i \in DOMAIN <<h>> : <<h>>[i] = h) = 1
  BY <1>1
<1>3. Quitar(<<h>>, h) = SubSeq(<<h>>, 1, 0) \o SubSeq(<<h>>, 2, 1)
  BY <1>1, <1>2 DEF Quitar
<1>4. SubSeq(<<h>>, 1, 0) = <<>> /\ SubSeq(<<h>>, 2, 1) = <<>>
  BY SubSeqEmpty
<1> QED
  BY <1>3, <1>4, ConcatEmptySeq, EmptySeq

\* A thread leaves the queue, and the others stay, each once.
LEMMA QuitarDe ==
  ASSUME NEW S, NEW cola \in Seq(S), Distintos(cola), NEW h, \E j \in DOMAIN cola : cola[j] = h
  PROVE  /\ Quitar(cola, h) \in Seq(S) /\ Distintos(Quitar(cola, h))
         /\ \A k \in DOMAIN Quitar(cola, h) :
              /\ Quitar(cola, h)[k] # h
              /\ \E j \in DOMAIN cola : Quitar(cola, h)[k] = cola[j]
<1> DEFINE n == Len(cola)
           i == CHOOSE i \in DOMAIN cola : cola[i] = h
           a == SubSeq(cola, 1, i - 1)
           b == SubSeq(cola, i + 1, n)
           q == a \o b
<1>1. n \in Nat /\ DOMAIN cola = 1..n /\ i \in 1..n /\ cola[i] = h
  BY LenProperties
<1>2. \A j \in 1..n : cola[j] \in S
  BY <1>1, ElementOfSeq
<1>3. Quitar(cola, h) = q
  BY DEF Quitar
<1> HIDE DEF n, i
<1>4. /\ a \in Seq(S) /\ Len(a) = i - 1
      /\ \A j \in 1..(i - 1) : a[j] = cola[j]
  <2>1. \A j \in 1..(i - 1) : cola[j] \in S
    BY <1>1, <1>2
  <2>2. /\ a \in Seq(S) /\ Len(a) = IF 1 <= i - 1 THEN i - 1 - 1 + 1 ELSE 0
        /\ \A j \in 1..(i - 1 - 1 + 1) : a[j] = cola[1 + j - 1]
    BY <1>1, <2>1, SubSeqProperties
  <2> QED
    BY <1>1, <2>2
<1>5. /\ b \in Seq(S) /\ Len(b) = n - i
      /\ \A j \in 1..(n - i) : b[j] = cola[i + j]
  <2>1. \A j \in (i + 1)..n : cola[j] \in S
    BY <1>1, <1>2
  <2>2. /\ b \in Seq(S) /\ Len(b) = IF i + 1 <= n THEN n - (i + 1) + 1 ELSE 0
        /\ \A j \in 1..(n - (i + 1) + 1) : b[j] = cola[i + 1 + j - 1]
    BY <1>1, <2>1, SubSeqProperties
  <2> QED
    BY <1>1, <2>2
<1> HIDE DEF a, b
<1>6. /\ q \in Seq(S) /\ Len(q) = Len(a) + Len(b)
      /\ \A k \in 1..(Len(a) + Len(b)) : q[k] = IF k <= Len(a) THEN a[k] ELSE b[k - Len(a)]
  BY <1>4, <1>5, ConcatProperties
<1>7. DOMAIN q = 1..(n - 1)
  BY <1>1, <1>4, <1>5, <1>6, LenProperties
<1> DEFINE f(k) == IF k < i THEN k ELSE k + 1
<1>8. ASSUME NEW k \in 1..(n - 1) PROVE q[k] = cola[f(k)] /\ f(k) \in 1..n /\ f(k) # i
  <2> HIDE DEF q
  <2>0. Len(a) = i - 1 /\ k \in 1..(Len(a) + Len(b))
    BY <1>1, <1>4, <1>5
  <2>1. q[k] = IF k <= i - 1 THEN a[k] ELSE b[k - (i - 1)]
    BY <2>0, <1>6
  <2>2. CASE k < i
    BY <1>1, <1>4, <2>1, <2>2
  <2>3. CASE ~(k < i)
    <3>1. k - (i - 1) \in 1..(n - i) /\ i + (k - (i - 1)) = k + 1
      BY <1>1, <2>3
    <3>2. q[k] = b[k - (i - 1)]
      BY <1>1, <2>1, <2>3
    <3> QED
      BY <1>1, <1>5, <2>3, <3>1, <3>2
  <2> QED
    BY <2>2, <2>3
<1> HIDE DEF q
<1>9. ASSUME NEW k \in 1..(n - 1) PROVE q[k] # h
  BY <1>1, <1>8 DEF Distintos
<1>10. Distintos(q)
  <2> SUFFICES ASSUME NEW k \in 1..(n - 1), NEW l \in 1..(n - 1), q[k] = q[l] PROVE k = l
    BY <1>7 DEF Distintos
  <2>1. f(k) = f(l)
    BY <1>1, <1>8 DEF Distintos
  <2> QED
    BY <1>1, <2>1
<1>11. q \in Seq(S)
  BY <1>6
<1> QED
  BY <1>1, <1>3, <1>7, <1>8, <1>9, <1>10, <1>11

\* A thread joins the queue.
LEMMA AgregarA ==
  ASSUME NEW S, NEW cola \in Seq(S), Distintos(cola), NEW h \in S, \A j \in DOMAIN cola : cola[j] # h
  PROVE  /\ Append(cola, h) \in Seq(S) /\ Distintos(Append(cola, h))
         /\ \A k \in DOMAIN Append(cola, h) :
              \/ Append(cola, h)[k] = h
              \/ \E j \in DOMAIN cola : Append(cola, h)[k] = cola[j]
<1> DEFINE n == Len(cola)
           q == Append(cola, h)
<1>1. n \in Nat /\ DOMAIN cola = 1..n
  BY LenProperties
<1>2. /\ q \in Seq(S) /\ Len(q) = n + 1
      /\ \A i \in 1..n : q[i] = cola[i]
      /\ q[n + 1] = h
  BY AppendProperties
<1> HIDE DEF n, q
<1>3. DOMAIN q = 1..(n + 1)
  BY <1>2, LenProperties
<1>4. \A k \in 1..(n + 1) : k = n + 1 \/ k \in 1..n
  BY <1>1
<1> QED
  BY <1>1, <1>2, <1>3, <1>4 DEF Distintos, q

\* A non-empty set of naturals has a least element.
LEMMA MenorNatural ==
  ASSUME NEW T \in SUBSET Nat, T # {}
  PROVE  \E x \in T : \A y \in T : x <= y
<1> DEFINE R == {ss \in Nat \X Nat : ss[1] < ss[2]}
<1>1. IsWellFoundedOn(R, Nat)
  BY NatLessThanWellFounded DEF OpToRel
<1>2. PICK x \in T : \A y \in T : ~ (<<y, x>> \in R)
  BY <1>1, WFMin
<1>3. ASSUME NEW y \in T PROVE x <= y
  <2>1. <<y, x>> \in Nat \X Nat /\ <<y, x>>[1] = y /\ <<y, x>>[2] = x
    OBVIOUS
  <2>2. ~ (<<y, x>>[1] < <<y, x>>[2])
    BY <1>2, <2>1
  <2> QED
    BY <2>1, <2>2
<1> QED
  BY <1>3

\* The scan for the best priority ends in a thread of the queue.
LEMMA SiguienteEsta ==
  ASSUME colaReadyHilo \in Seq(Hilos), colaReadyHilo # <<>>
  PROVE  obtenerHiloMayorPrioridad \in DOMAIN colaReadyHilo
<1> DEFINE D == DOMAIN colaReadyHilo
           pr(i) == Prioridad[colaReadyHilo[i]]
           P == {pr(i) : i \in D}
<1>1. Len(colaReadyHilo) \in Nat \ {0} /\ D = 1..Len(colaReadyHilo) /\ \A i \in D : pr(i) \in Nat
  BY EmptySeq, LenProperties, ElementOfSeq, CpuAssumption
<1>2. D \in SUBSET Nat /\ D # {}
  BY <1>1
<1> HIDE DEF D
<1>3. PICK p \in P : \A r \in P : p <= r
  <2>1. P \in SUBSET Nat /\ P # {}
    BY <1>1, <1>2
  <2> QED
    BY <2>1, MenorNatural
<1>4. PICK i \in {i \in D : pr(i) = p} : \A j \in {j \in D : pr(j) = p} : i <= j
  <2>1. {i \in D : pr(i) = p} \in SUBSET Nat /\ {i \in D : pr(i) = p} # {}
    BY <1>2
  <2> QED
    BY <2>1, MenorNatural
<1>5. \A j \in D : pr(i) < pr(j) \/ (pr(i) = pr(j) /\ i <= j)
  <2> TAKE j \in D
  <2>1. pr(i) = p /\ pr(i) \in Nat /\ pr(j) \in Nat /\ pr(j) \in P
    BY <1>1, <1>4
  <2>2. p <= pr(j)
    BY <1>3, <2>1
  <2>3. CASE pr(j) = p
    BY <1>4, <2>1, <2>3
  <2>4. CASE pr(j) # p
    BY <2>1, <2>2, <2>4
  <2> QED
    BY <2>3, <2>4
<1> QED
  BY <1>4, <1>5 DEF obtenerHiloMayorPrioridad, D

-----------------------------------------------------------------------------
(* The timers *)

RelojesOK ==
  /\ temporizadores \in [DOMAIN temporizadores -> Temporizador]
  /\ DOMAIN temporizadores \subseteq Relojes

\* A timer moves on, or ends.
LEMMA RelojPasa ==
  ASSUME RelojesOK, NEW i \in DOMAIN temporizadores,
         NEW etapa \in {"duerme"} \cup EnCamino,
         Etapa(i, etapa) \/ SinTemporizador(i)
  PROVE  RelojesOK'
<1>1. temporizadores[i] \in Temporizador
  BY DEF RelojesOK
<1>2. CASE Etapa(i, etapa)
  <2>1. [temporizadores[i] EXCEPT !.etapa = etapa] \in Temporizador
    BY <1>1 DEF Temporizador
  <2>2. /\ DOMAIN temporizadores' = DOMAIN temporizadores
        /\ temporizadores' = [temporizadores EXCEPT ![i] = [temporizadores[i] EXCEPT !.etapa = etapa]]
    BY <1>2 DEF Etapa
  <2> QED
    BY <2>1, <2>2 DEF RelojesOK
<1>3. CASE SinTemporizador(i)
  BY <1>3 DEF RelojesOK, SinTemporizador
<1> QED
  BY <1>2, <1>3

\* wg.Done wakes up goroutines, and the timers stay timers.
LEMMA RelojDone == RelojesOK /\ Done => RelojesOK' /\ wg' = wg - 1
<1> SUFFICES ASSUME RelojesOK, Done PROVE RelojesOK'
  BY DEF Done
<1>1. DOMAIN temporizadores' = DOMAIN temporizadores
  BY DEF Done
<1>2. ASSUME NEW i \in DOMAIN temporizadores PROVE temporizadores'[i] \in Temporizador
  <2>1. temporizadores[i] \in Temporizador
    BY DEF RelojesOK
  <2>2. [temporizadores[i] EXCEPT !.etapa = "despierta"] \in Temporizador
    BY <2>1 DEF Temporizador, EnCamino
  <2> QED
    BY <2>1, <2>2 DEF Done
<1>3. temporizadores' = [i \in DOMAIN temporizadores |-> temporizadores'[i]]
  BY DEF Done
<1> QED
  BY <1>1, <1>2, <1>3 DEF RelojesOK

\* A dispatch adds a timer.
LEMMA RelojNuevo ==
  ASSUME RelojesOK, NEW h \in Hilos, comenzarQuantum(h)
  PROVE  RelojesOK'
<1> DEFINE i == CHOOSE i \in Libres : \A j \in Libres : i <= j
<1>1. i \in Libres
  <2>1. Libres \in SUBSET Nat /\ Libres # {}
    BY DEF comenzarQuantum, Libres, Relojes
  <2> QED
    BY <2>1, MenorNatural
<1>2. temporizadores' = [j \in DOMAIN temporizadores \cup {i} |->
           IF j = i THEN [hilo |-> h, etapa |-> "duerme"] ELSE temporizadores[j]]
  BY DEF comenzarQuantum
<1> HIDE DEF i
<1>3. [hilo |-> h, etapa |-> "duerme"] \in Temporizador
  BY DEF Temporizador
<1> QED
  BY <1>1, <1>2, <1>3 DEF RelojesOK, Libres

-----------------------------------------------------------------------------
(* The invariant holds, step by step *)

\* Where the thread of the burst that runs is.
LEMMA EnMarcha ==
  ASSUME IInv, rafagas # <<>>, Tope.paso # "llamada", ~syscallEnviada
  PROVE  /\ Tope \in Rafagas /\ Tope.hilo \in Hilos /\ Tope.ctx \in Contextos
         /\ colaExecHilo = <<Tope.hilo>>
         /\ Tope.hilo \notin enIo \cup terminados
         /\ \A i \in DOMAIN colaReadyHilo : colaReadyHilo[i] # Tope.hilo
         /\ Quitar(colaExecHilo, Tope.hilo) = <<>>
<1>1. rafagas \in Seq(Rafagas)
  BY DEF IInv, TypeOK
<1>2. Tope \in Rafagas /\ Tope.hilo \in Hilos /\ Tope.ctx \in Contextos
  BY <1>1, TopeTipo
<1>3. colaExecHilo = <<Tope.hilo>>
  BY DEF IInv, ExecOK
<1>4. Tope.hilo \notin enIo \cup terminados
  BY <1>3 DEF IInv, ColasOK
<1>5. \A i \in DOMAIN colaReadyHilo : colaReadyHilo[i] # Tope.hilo
  BY <1>3 DEF IInv, ColasOK
<1> QED
  BY <1>2, <1>3, <1>4, <1>5, QuitarSolo

\* The invariant holds at the start.
LEMMA IInvInicial == Init => IInv
<1> SUFFICES ASSUME Init PROVE IInv
  OBVIOUS
<1> DEFINE n == Cardinality(Hilos)
<1>1. n \in Nat \ {0}
  BY CpuAssumption, FS_CardinalityType, FS_EmptySet
<1> HIDE DEF n
<1>2. colaReadyHilo \in [1..n -> Hilos] /\ Distintos(colaReadyHilo)
  BY DEF Init, Distintos, n
<1>3. colaReadyHilo \in Seq(Hilos) /\ colaReadyHilo[1] \in Hilos
  BY <1>1, <1>2, SeqDef
<1>4. DOMAIN temporizadores = {} /\ temporizadores \in [DOMAIN temporizadores -> Temporizador]
  BY DEF Init
<1>5. TypeOK
  <2>1. <<>> \in Seq(Hilos) /\ <<>> \in Seq(Rafagas)
    BY EmptySeq
  <2>2. [h \in Hilos |-> ContextoInicial] \in [Hilos -> Contextos]
    BY InicialTipo
  <2>3. 1 \in Relojes
    BY CpuAssumption DEF Relojes
  <2> QED
    BY <1>3, <1>4, <2>1, <2>2, <2>3 DEF Init, TypeOK
<1>6. Exteriores /\ ExecOK /\ BanderasOK /\ GuardadoOK /\ WgOK
  BY DEF Init, Exteriores, ExecOK, BanderasOK, GuardadoOK, WgOK
<1>7. ColasOK
  BY <1>2 DEF Init, ColasOK
<1>8. GuionOK
  BY ProgramaAssumption DEF Init, GuionOK, EnGuion, ContextoInicial
<1> QED
  BY <1>5, <1>6, <1>7, <1>8 DEF IInv

\* The steps of the timers and of their interruptions.
LEMMA IInvRelojes ==
  ASSUME IInv, RelojesOK', nuevaInterrupcion' \in [flagInterrupcion : BOOLEAN, hilo : Hilos],
         UNCHANGED <<kernel, contextos, rafagas, hiloAnt, banderas, wg>>
  PROVE  IInv'
<1>1. Tope' = Tope
  BY DEF Tope
<1>2. TypeOK'
  BY DEF IInv, TypeOK, RelojesOK, kernel, banderas
<1>3. Exteriores' /\ ExecOK' /\ ColasOK' /\ BanderasOK' /\ GuardadoOK' /\ GuionOK' /\ WgOK'
  BY <1>1 DEF IInv, Exteriores, ExecOK, ColasOK, BanderasOK, GuardadoOK, GuionOK, WgOK,
              kernel, banderas, Interna
<1> QED
  BY <1>2, <1>3 DEF IInv

\* The end of a quantum, and each step of RecieveInterruption.
LEMMA IInvInterrupcion ==
  ASSUME IInv, NEW i \in Relojes, VenceQuantum(i) \/ PasoInterrupcion(i)
  PROVE  IInv'
<1>1. RelojesOK /\ nuevaInterrupcion \in [flagInterrupcion : BOOLEAN, hilo : Hilos]
  BY DEF IInv, TypeOK, RelojesOK
<1>2. i \in DOMAIN temporizadores /\ temporizadores[i].hilo \in Hilos
  BY <1>1 DEF VenceQuantum, PasoInterrupcion, RecieveInterruption, VuelveDeWait, Registra,
              EnEtapa, RelojesOK, Temporizador
<1>3. PICK etapa \in {"duerme"} \cup EnCamino : Etapa(i, etapa) \/ SinTemporizador(i)
  BY DEF VenceQuantum, PasoInterrupcion, RecieveInterruption, VuelveDeWait, Registra, EnCamino
<1>4. RelojesOK'
  BY <1>1, <1>2, <1>3, RelojPasa
<1>5. nuevaInterrupcion' \in [flagInterrupcion : BOOLEAN, hilo : Hilos]
  <2>1. CASE Registra(i)
    <3>1. nuevaInterrupcion' = [flagInterrupcion |-> TRUE, hilo |-> temporizadores[i].hilo]
      BY <2>1 DEF Registra
    <3> QED
      BY <1>2, <3>1
  <2>2. CASE ~Registra(i)
    <3>1. nuevaInterrupcion' = nuevaInterrupcion
      BY <2>2 DEF VenceQuantum, PasoInterrupcion, RecieveInterruption, VuelveDeWait
    <3> QED
      BY <1>1, <3>1
  <2> QED
    BY <2>1, <2>2
<1>6. UNCHANGED <<kernel, contextos, rafagas, hiloAnt, banderas, wg>>
  BY DEF VenceQuantum, PasoInterrupcion, RecieveInterruption, VuelveDeWait, Registra
<1> QED
  BY <1>4, <1>5, <1>6, IInvRelojes

\* The first dispatch of a chain.
LEMMA IInvDespacha == IInv /\ ejecutarHilosColasMultinivel => IInv'
<1> SUFFICES ASSUME IInv, ejecutarHilosColasMultinivel PROVE IInv'
  OBVIOUS
<1> DEFINE h == colaReadyHilo[obtenerHiloMayorPrioridad]
<1>1. /\ rafagas = <<>> /\ colaReadyHilo # <<>> /\ colaExecHilo = <<>>
      /\ comenzarQuantum(h)
      /\ colaReadyHilo' = Quitar(colaReadyHilo, h)
      /\ colaExecHilo' = Append(colaExecHilo, h)
      /\ rafagas' = <<enviarTCBCpu(h)>>
      /\ UNCHANGED <<enIo, terminados, contextos, hiloAnt, banderas, wg, nuevaInterrupcion>>
  BY DEF ejecutarHilosColasMultinivel, Despachable
<1>2. colaReadyHilo \in Seq(Hilos) /\ Distintos(colaReadyHilo) /\ RelojesOK
  BY DEF IInv, TypeOK, ColasOK, RelojesOK
<1>3. obtenerHiloMayorPrioridad \in DOMAIN colaReadyHilo
  BY <1>1, <1>2, SiguienteEsta
<1>4. h \in Hilos /\ h \notin enIo \cup terminados
  BY <1>2, <1>3, ElementOfSeq DEF IInv, ColasOK
<1> HIDE DEF h
<1>5. \E j \in DOMAIN colaReadyHilo : colaReadyHilo[j] = h
  BY <1>3 DEF h
<1>6. /\ colaReadyHilo' \in Seq(Hilos) /\ Distintos(colaReadyHilo')
      /\ \A k \in DOMAIN colaReadyHilo' :
           /\ colaReadyHilo'[k] # h
           /\ \E j \in DOMAIN colaReadyHilo : colaReadyHilo'[k] = colaReadyHilo[j]
  BY <1>1, <1>2, <1>5, QuitarDe
<1>7. colaExecHilo' = <<h>>
  BY <1>1
<1>8. RelojesOK'
  BY <1>1, <1>2, <1>4, RelojNuevo
<1>9. /\ Tope' = enviarTCBCpu(h) /\ Tope' \in Rafagas /\ rafagas' # <<>>
      /\ DOMAIN rafagas' = {1} /\ Len(rafagas') = 1
      /\ Tope'.hilo = h /\ Tope'.paso = "recibe"
  BY <1>1, <1>4, InicialTipo DEF Tope, enviarTCBCpu, Rafagas
<1>10. TypeOK'
  <2>1. rafagas' \in Seq(Rafagas) /\ colaExecHilo' \in Seq(Hilos)
    BY <1>1, <1>4, <1>7, <1>9
  <2> QED
    BY <1>1, <1>6, <1>8, <2>1 DEF IInv, TypeOK, RelojesOK, banderas
<1>11. ~syscallEnviada' /\ ~flagSegmentationFault'
  BY <1>1 DEF IInv, BanderasOK, Interna, banderas
<1>12. Exteriores'
  BY <1>9 DEF Exteriores
<1>13. ExecOK' /\ BanderasOK' /\ GuardadoOK'
  BY <1>7, <1>9, <1>11 DEF ExecOK, BanderasOK, GuardadoOK, Desalojos
<1>14. ColasOK'
  BY <1>1, <1>4, <1>6, <1>7 DEF IInv, ColasOK
<1>15. GuionOK' /\ WgOK'
  BY <1>1, <1>9 DEF IInv, GuionOK, WgOK, EnGuion
<1> QED
  BY <1>10, <1>12, <1>13, <1>14, <1>15 DEF IInv

\* The CPU gets the thread and its context.
LEMMA IInvRecibe == IInv /\ RecibirPIDyTID => IInv'
<1> SUFFICES ASSUME IInv, RecibirPIDyTID PROVE IInv'
  OBVIOUS
<1>1. /\ rafagas # <<>> /\ Tope.paso = "recibe" /\ wg' = wg + 1
      /\ Cambiar([Tope EXCEPT !.paso = "inicio", !.ctx = contextos[Tope.hilo]])
      /\ UNCHANGED <<kernel, contextos, hiloAnt, banderas, quantum>>
  BY DEF RecibirPIDyTID, Interna
<1>2. ~syscallEnviada /\ ~flagSegmentationFault
  BY <1>1 DEF IInv, BanderasOK, Interna
<1>3. /\ Tope \in Rafagas /\ Tope.hilo \in Hilos /\ colaExecHilo = <<Tope.hilo>>
      /\ Tope.hilo \notin terminados
  BY <1>1, <1>2, EnMarcha
<1>4. contextos[Tope.hilo] \in Contextos
  BY <1>3 DEF IInv, TypeOK
<1>5. [Tope EXCEPT !.paso = "inicio", !.ctx = contextos[Tope.hilo]]
        = [Tope EXCEPT !.ctx = contextos[Tope.hilo], !.paso = "inicio"]
  BY <1>3 DEF Rafagas
<1>6. /\ rafagas' \in Seq(Rafagas) /\ rafagas' # <<>> /\ Exteriores'
      /\ Tope'.hilo = Tope.hilo /\ Tope'.ctx = contextos[Tope.hilo] /\ Tope'.paso = "inicio"
  BY <1>1, <1>4, <1>5, PasarCambia DEF IInv, TypeOK
<1>7. wg' = 1
  <2>1. wg = 0
    BY <1>1 DEF IInv, WgOK
  <2> QED
    BY <1>1, <2>1
<1>8. TypeOK'
  BY <1>1, <1>6, <1>7 DEF IInv, TypeOK, kernel, banderas, quantum
<1>9. ExecOK' /\ BanderasOK' /\ GuardadoOK' /\ WgOK'
  BY <1>1, <1>2, <1>3, <1>6, <1>7
     DEF ExecOK, BanderasOK, GuardadoOK, Desalojos, WgOK, kernel, banderas
<1>10. ColasOK'
  BY <1>1 DEF IInv, ColasOK, kernel
<1>11. GuionOK'
  BY <1>1, <1>3, <1>6 DEF IInv, GuionOK, kernel, EnGuion
<1> QED
  BY <1>6, <1>8, <1>9, <1>10, <1>11 DEF IInv

\* A burst begins its loop.
LEMMA IInvEmpieza == IInv /\ InstructionCycle => IInv'
<1> SUFFICES ASSUME IInv, InstructionCycle PROVE IInv'
  OBVIOUS
<1>1. /\ rafagas # <<>> /\ Tope.paso = "inicio"
      /\ Done /\ hiloAnt' = <<Tope.hilo>> /\ Pasar("ciclo")
      /\ UNCHANGED <<kernel, contextos, banderas, nuevaInterrupcion>>
  BY DEF InstructionCycle, Interna
<1>2. ~syscallEnviada /\ ~flagSegmentationFault
  BY <1>1 DEF IInv, BanderasOK, Interna
<1>3. /\ Tope \in Rafagas /\ Tope.hilo \in Hilos /\ Tope.ctx \in Contextos
      /\ colaExecHilo = <<Tope.hilo>>
  BY <1>1, <1>2, EnMarcha
<1>4. /\ rafagas' \in Seq(Rafagas) /\ rafagas' # <<>> /\ Exteriores'
      /\ Tope'.hilo = Tope.hilo /\ Tope'.ctx = Tope.ctx /\ Tope'.paso = "ciclo"
  BY <1>1, <1>3, PasarSolo, PasarCambia DEF IInv, TypeOK
<1>5. wg' = 0 /\ RelojesOK'
  BY <1>1, RelojDone DEF IInv, WgOK, TypeOK, RelojesOK
<1>6. TypeOK'
  BY <1>1, <1>3, <1>4, <1>5 DEF IInv, TypeOK, kernel, banderas, RelojesOK
<1>7. ExecOK' /\ BanderasOK' /\ GuardadoOK' /\ WgOK'
  BY <1>1, <1>2, <1>3, <1>4, <1>5
     DEF ExecOK, BanderasOK, GuardadoOK, Desalojos, WgOK, kernel, banderas
<1>8. ColasOK'
  BY <1>1 DEF IInv, ColasOK, kernel
<1>9. GuionOK'
  BY <1>1, <1>2, <1>4 DEF IInv, GuionOK, kernel, EnGuion
<1> QED
  BY <1>4, <1>6, <1>7, <1>8, <1>9 DEF IInv

\* Both evictions: the context is saved before the kernel hears of it.
LEMMA IInvDesaloja == IInv /\ (InterrupcionInicial \/ Interrupcion) => IInv'
<1> SUFFICES ASSUME IInv, InterrupcionInicial \/ Interrupcion PROVE IInv'
  OBVIOUS
<1>1. PICK paso \in Desalojos :
      /\ rafagas # <<>>
      /\ Tope.paso = IF paso = "desalojo inicial" THEN "inicio" ELSE "control"
      /\ ~syscallEnviada /\ ~flagSegmentationFault
      /\ CheckInterrupt /\ Pasar(paso) /\ Guardar
      /\ UNCHANGED <<kernel, hiloAnt, banderas, wg, temporizadores>>
  BY DEF InterrupcionInicial, Interrupcion, SinNovedad, Interna, Desalojos, IInv, BanderasOK,
         RealizarInterrupcion
<1>2. /\ Tope \in Rafagas /\ Tope.hilo \in Hilos /\ Tope.ctx \in Contextos
      /\ colaExecHilo = <<Tope.hilo>>
  BY <1>1, EnMarcha
<1>3. paso \in {"recibe", "inicio", "ciclo", "llamada", "control", "desalojo inicial", "desalojo"}
  BY DEF Desalojos
<1>4. /\ rafagas' \in Seq(Rafagas) /\ rafagas' # <<>> /\ Exteriores'
      /\ Tope'.hilo = Tope.hilo /\ Tope'.ctx = Tope.ctx /\ Tope'.paso = paso
  BY <1>1, <1>2, <1>3, PasarSolo, PasarCambia DEF IInv, TypeOK
<1>5. /\ contextos' = [contextos EXCEPT ![Tope.hilo] = Tope.ctx]
      /\ contextos' \in [Hilos -> Contextos] /\ contextos'[Tope.hilo] = Tope.ctx
  BY <1>1, <1>2 DEF Guardar, IInv, TypeOK
<1>6. nuevaInterrupcion' \in [flagInterrupcion : BOOLEAN, hilo : Hilos]
  BY <1>1 DEF CheckInterrupt, IInv, TypeOK
<1>7. TypeOK'
  BY <1>1, <1>4, <1>5, <1>6 DEF IInv, TypeOK, kernel, banderas
<1>8. ExecOK' /\ BanderasOK' /\ GuardadoOK'
  BY <1>1, <1>2, <1>4, <1>5 DEF ExecOK, BanderasOK, GuardadoOK, Desalojos, kernel, banderas
<1>9. WgOK'
  BY <1>1, <1>4 DEF IInv, WgOK, Desalojos
<1>10. ColasOK'
  BY <1>1 DEF IInv, ColasOK, kernel
<1>11. GuionOK'
  <2>1. EnGuion(Tope.hilo, Tope.ctx)
    BY <1>1 DEF IInv, GuionOK
  <2>2. \A h \in Hilos \ terminados : EnGuion(h, contextos'[h])
    BY <1>5, <2>1 DEF IInv, GuionOK, TypeOK
  <2> QED
    BY <1>1, <1>4, <2>2 DEF GuionOK, EnGuion, kernel, Desalojos
<1> QED
  BY <1>4, <1>7, <1>8, <1>9, <1>10, <1>11 DEF IInv

\* A thread that leaves the CPU or its IO joins the ready queue.
LEMMA VuelveAReady ==
  ASSUME IInv, NEW h \in Hilos, \A i \in DOMAIN colaReadyHilo : colaReadyHilo[i] # h,
         colaReadyHilo' = Append(colaReadyHilo, h),
         h \notin enIo' \cup terminados', enIo' \subseteq enIo, terminados' = terminados,
         \/ colaExecHilo' = <<>>
         \/ colaExecHilo' = colaExecHilo /\ colaExecHilo # <<h>>
  PROVE  colaReadyHilo' \in Seq(Hilos) /\ ColasOK'
<1> DEFINE q == Append(colaReadyHilo, h)
<1>1. colaReadyHilo \in Seq(Hilos) /\ Distintos(colaReadyHilo)
  BY DEF IInv, TypeOK, ColasOK
<1>2. /\ q \in Seq(Hilos) /\ Distintos(q)
      /\ \A k \in DOMAIN q : q[k] = h \/ \E j \in DOMAIN colaReadyHilo : q[k] = colaReadyHilo[j]
  BY <1>1, AgregarA
<1> HIDE DEF q
<1>3. colaReadyHilo' = q
  BY DEF q
<1>4. \A g : colaExecHilo' = <<g>> => colaExecHilo' = colaExecHilo /\ g # h
  OBVIOUS
<1>5. ASSUME NEW k \in DOMAIN q
      PROVE  q[k] \notin enIo' \cup terminados' /\ colaExecHilo' # <<q[k]>>
  <2>1. CASE q[k] = h
    BY <1>4, <2>1
  <2>2. CASE q[k] # h
    <3>1. PICK j \in DOMAIN colaReadyHilo : q[k] = colaReadyHilo[j]
      BY <1>2, <2>2
    <3>2. /\ colaReadyHilo[j] \notin enIo \cup terminados
          /\ colaExecHilo # <<colaReadyHilo[j]>>
      BY DEF IInv, ColasOK
    <3> QED
      BY <1>4, <3>1, <3>2
  <2> QED
    BY <2>1, <2>2
<1>6. enIo' \cap terminados' = {}
  BY DEF IInv, ColasOK
<1>7. \A g \in enIo' \cup terminados' : colaExecHilo' # <<g>>
  BY <1>4 DEF IInv, ColasOK
<1> QED
  BY <1>2, <1>3, <1>5, <1>6, <1>7 DEF ColasOK

\* The kernel gets the evicted thread back.
LEMMA IInvDevuelve == IInv /\ DevolverPidTid => IInv'
<1> SUFFICES ASSUME IInv, DevolverPidTid PROVE IInv'
  OBVIOUS
<1>1. /\ rafagas # <<>> /\ Tope.paso \in Desalojos
      /\ colaExecHilo' = Quitar(colaExecHilo, Tope.hilo)
      /\ colaReadyHilo' = Append(colaReadyHilo, Tope.hilo)
      /\ FinRafaga
      /\ IF Tope.paso = "desalojo inicial" THEN Done ELSE UNCHANGED <<wg, temporizadores>>
      /\ UNCHANGED <<enIo, terminados, contextos, hiloAnt, banderas, nuevaInterrupcion>>
  BY DEF DevolverPidTid, Interna, Desalojos
<1>2. ~syscallEnviada /\ ~flagSegmentationFault
  BY <1>1 DEF IInv, BanderasOK, Interna, Desalojos
<1>3. /\ Tope \in Rafagas /\ Tope.hilo \in Hilos
      /\ Tope.hilo \notin enIo \cup terminados
      /\ \A i \in DOMAIN colaReadyHilo : colaReadyHilo[i] # Tope.hilo
      /\ Quitar(colaExecHilo, Tope.hilo) = <<>>
  BY <1>1, <1>2, EnMarcha DEF Desalojos
<1>4. /\ rafagas' \in Seq(Rafagas) /\ Exteriores'
      /\ rafagas' # <<>> => Tope' \in Rafagas /\ Tope'.paso = "llamada"
  BY <1>1, TopeTermina DEF IInv, TypeOK
<1>5. colaReadyHilo' \in Seq(Hilos) /\ ColasOK'
  BY <1>1, <1>3, VuelveAReady
<1>6. wg' = 0 /\ RelojesOK'
  <2>1. RelojesOK
    BY DEF IInv, TypeOK, RelojesOK
  <2>2. CASE Tope.paso = "desalojo inicial"
    <3>1. wg = 1
      BY <1>1, <2>2 DEF IInv, WgOK
    <3>2. RelojesOK' /\ wg' = wg - 1
      BY <1>1, <2>1, <2>2, RelojDone
    <3> QED
      BY <3>1, <3>2
  <2>3. CASE Tope.paso # "desalojo inicial"
    <3>1. wg = 0
      BY <1>1, <2>3 DEF IInv, WgOK, Desalojos
    <3>2. wg' = wg /\ temporizadores' = temporizadores
      BY <1>1, <2>3
    <3> QED
      BY <2>1, <3>1, <3>2 DEF RelojesOK
  <2> QED
    BY <2>2, <2>3
<1>7. colaExecHilo' = <<>>
  BY <1>1, <1>3
<1>8. TypeOK'
  <2>1. <<>> \in Seq(Hilos)
    BY EmptySeq
  <2> QED
    BY <1>1, <1>4, <1>5, <1>6, <1>7, <2>1 DEF IInv, TypeOK, RelojesOK, banderas
<1>9. ExecOK' /\ BanderasOK' /\ GuardadoOK' /\ WgOK'
  BY <1>1, <1>2, <1>4, <1>6, <1>7
     DEF ExecOK, BanderasOK, GuardadoOK, Desalojos, WgOK, banderas
<1>11. GuionOK'
  BY <1>1, <1>4 DEF IInv, GuionOK, EnGuion
<1> QED
  BY <1>4, <1>5, <1>8, <1>9, <1>11 DEF IInv

\* An instruction of the thread that runs has a context to leave.
LEMMA EnInstruccion ==
  ASSUME IInv, Interna("ciclo")
  PROVE  /\ rafagas # <<>> /\ Tope.paso = "ciclo" /\ ~syscallEnviada /\ ~flagSegmentationFault
         /\ Tope \in Rafagas /\ Tope.hilo \in Hilos /\ Tope.ctx \in Contextos
         /\ colaExecHilo = <<Tope.hilo>> /\ Tope.hilo \notin enIo \cup terminados
         /\ \A i \in DOMAIN colaReadyHilo : colaReadyHilo[i] # Tope.hilo
         /\ Quitar(colaExecHilo, Tope.hilo) = <<>>
         /\ EnGuion(Tope.hilo, Tope.ctx) /\ wg = 0
<1>1. rafagas # <<>> /\ Tope.paso = "ciclo"
  BY DEF Interna
<1>2. ~syscallEnviada /\ ~flagSegmentationFault
  BY <1>1 DEF IInv, BanderasOK, Interna
<1>3. EnGuion(Tope.hilo, Tope.ctx)
  BY <1>1, <1>2 DEF IInv, GuionOK
<1>4. wg = 0
  BY <1>1 DEF IInv, WgOK
<1> QED
  BY <1>1, <1>2, <1>3, <1>4, EnMarcha

\* An instruction of the CPU itself.
LEMMA IInvEjecuta == IInv /\ Execute => IInv'
<1> SUFFICES ASSUME IInv, Execute PROVE IInv'
  OBVIOUS
<1>1. /\ Interna("ciclo") /\ Actual(Tope.hilo, Tope.ctx).op \notin Syscalls
      /\ flagSegmentationFault' = Falla(Tope.hilo, Tope.ctx)
      /\ UNCHANGED <<kernel, contextos, hiloAnt, syscallEnviada, wg, quantum>>
  BY DEF Execute, Busca
<1>2. PICK c \in Ejecutar(Tope.hilo, Tope.ctx) :
        Cambiar([Tope EXCEPT !.ctx = c, !.paso = "control"])
  BY DEF Execute
<1>3. /\ rafagas # <<>> /\ Tope.paso = "ciclo" /\ ~syscallEnviada
      /\ Tope \in Rafagas /\ Tope.hilo \in Hilos /\ Tope.ctx \in Contextos
      /\ colaExecHilo = <<Tope.hilo>> /\ EnGuion(Tope.hilo, Tope.ctx) /\ wg = 0
  BY <1>1, EnInstruccion
<1>4. c \in Contextos /\ EnGuion(Tope.hilo, c)
  BY <1>1, <1>2, <1>3, EjecutarTipo DEF Syscalls
<1>5. /\ rafagas' \in Seq(Rafagas) /\ rafagas' # <<>> /\ Exteriores'
      /\ Tope'.hilo = Tope.hilo /\ Tope'.ctx = c /\ Tope'.paso = "control"
  BY <1>2, <1>3, <1>4, PasarCambia DEF IInv, TypeOK
<1>6. TypeOK'
  <2>1. flagSegmentationFault' \in BOOLEAN
    BY <1>1 DEF Falla
  <2> QED
    BY <1>1, <1>5, <2>1 DEF IInv, TypeOK, kernel, quantum
<1>7. ExecOK' /\ BanderasOK' /\ GuardadoOK' /\ WgOK'
  BY <1>1, <1>3, <1>5
     DEF ExecOK, BanderasOK, GuardadoOK, Desalojos, WgOK, kernel, Interna
<1>8. ColasOK'
  BY <1>1 DEF IInv, ColasOK, kernel
<1>9. GuionOK'
  BY <1>1, <1>4, <1>5 DEF IInv, GuionOK, kernel, EnGuion
<1> QED
  BY <1>5, <1>6, <1>7, <1>8, <1>9 DEF IInv

\* What memory has after a syscall has saved its context.
LEMMA Guardado ==
  ASSUME IInv, NEW ops \in SUBSET Syscalls, Busca(ops), GuardarSiguiente
  PROVE  /\ Interna("ciclo") /\ Actual(Tope.hilo, Tope.ctx).op \in ops
         /\ Siguiente \in Contextos /\ Siguiente \in Ejecutar(Tope.hilo, Tope.ctx)
         /\ contextos' \in [Hilos -> Contextos] /\ contextos'[Tope.hilo] = Siguiente
         /\ \A h \in Hilos : h # Tope.hilo => contextos'[h] = contextos[h]
         /\ \A h \in Hilos \ terminados :
              h # Tope.hilo \/ ops \cap Termina = {} => EnGuion(h, contextos'[h])
<1>1. Interna("ciclo") /\ Actual(Tope.hilo, Tope.ctx).op \in ops
  BY DEF Busca
<1>2. Tope.hilo \in Hilos /\ Tope.ctx \in Contextos /\ EnGuion(Tope.hilo, Tope.ctx)
  BY <1>1, EnInstruccion
<1>3. Ejecutar(Tope.hilo, Tope.ctx) = {[Tope.ctx EXCEPT !.PC = @ + 1]}
  BY <1>1, <1>2, EjecutarHay
<1>4. Siguiente \in Ejecutar(Tope.hilo, Tope.ctx)
  BY <1>3 DEF Siguiente
<1>5. /\ Siguiente \in Contextos
      /\ Actual(Tope.hilo, Tope.ctx).op \notin Termina => EnGuion(Tope.hilo, Siguiente)
  BY <1>2, <1>4, EjecutarTipo
<1>6. contextos \in [Hilos -> Contextos] /\ contextos' = [contextos EXCEPT ![Tope.hilo] = Siguiente]
  BY DEF IInv, TypeOK, GuardarSiguiente
<1>7. /\ contextos' \in [Hilos -> Contextos] /\ contextos'[Tope.hilo] = Siguiente
      /\ \A h \in Hilos : h # Tope.hilo => contextos'[h] = contextos[h]
  BY <1>2, <1>5, <1>6
<1>8. ASSUME NEW h \in Hilos \ terminados, h # Tope.hilo \/ ops \cap Termina = {}
      PROVE  EnGuion(h, contextos'[h])
  <2>1. CASE h = Tope.hilo
    BY <1>1, <1>5, <1>7, <1>8, <2>1
  <2>2. CASE h # Tope.hilo
    BY <1>7, <2>2 DEF IInv, GuionOK
  <2> QED
    BY <2>1, <2>2
<1> QED
  BY <1>1, <1>4, <1>5, <1>7, <1>8

\* A syscall after which a burst nests.
LEMMA IInvAnida == IInv /\ LlamadaQueSigue => IInv'
<1> SUFFICES ASSUME IInv, LlamadaQueSigue PROVE IInv'
  OBVIOUS
<1>1. /\ Busca(Sigue) /\ GuardarSiguiente
      /\ rafagas' = Append([rafagas EXCEPT ![Len(rafagas)].ctx = Siguiente,
                                           ![Len(rafagas)].paso = "llamada"],
                            enviarTCBCpu(Tope.hilo))
      /\ UNCHANGED <<kernel, hiloAnt, banderas, wg, quantum>>
  BY DEF LlamadaQueSigue
<1>2. Sigue \in SUBSET Syscalls /\ Sigue \cap Termina = {}
  BY DEF Syscalls, Sigue, Termina
<1>3. /\ Interna("ciclo") /\ Siguiente \in Contextos
      /\ contextos' \in [Hilos -> Contextos]
      /\ \A h \in Hilos \ terminados : EnGuion(h, contextos'[h])
  BY <1>1, <1>2, Guardado
<1>4. /\ rafagas # <<>> /\ Tope.hilo \in Hilos /\ ~syscallEnviada /\ ~flagSegmentationFault
      /\ colaExecHilo = <<Tope.hilo>> /\ wg = 0
  BY <1>3, EnInstruccion
<1>5. /\ rafagas' \in Seq(Rafagas) /\ rafagas' # <<>> /\ Exteriores'
      /\ Tope' = enviarTCBCpu(Tope.hilo)
  BY <1>1, <1>3, <1>4, TopeAnida DEF IInv, TypeOK
<1>6. Tope'.hilo = Tope.hilo /\ Tope'.paso = "recibe"
  BY <1>5 DEF enviarTCBCpu
<1>7. TypeOK'
  BY <1>1, <1>3, <1>5 DEF IInv, TypeOK, kernel, banderas, quantum
<1>8. ExecOK' /\ BanderasOK' /\ GuardadoOK' /\ WgOK'
  BY <1>1, <1>4, <1>5, <1>6
     DEF ExecOK, BanderasOK, GuardadoOK, Desalojos, WgOK, kernel, banderas
<1>9. ColasOK'
  BY <1>1 DEF IInv, ColasOK, kernel
<1>10. GuionOK'
  BY <1>1, <1>3, <1>6 DEF GuionOK, kernel, EnGuion
<1> QED
  BY <1>5, <1>7, <1>8, <1>9, <1>10 DEF IInv

\* The answer to the burst around.
LEMMA IInvResponde == IInv /\ Respuesta => IInv'
<1> SUFFICES ASSUME IInv, Respuesta PROVE IInv'
  OBVIOUS
<1>1. /\ rafagas # <<>> /\ Tope.paso = "llamada" /\ syscallEnviada' = TRUE /\ Pasar("control")
      /\ UNCHANGED <<kernel, contextos, hiloAnt, flagSegmentationFault, wg, quantum>>
  BY DEF Respuesta, Interna
<1>2. ~flagSegmentationFault /\ colaExecHilo = <<>> /\ wg = 0
  BY <1>1 DEF IInv, BanderasOK, ExecOK, WgOK, Interna
<1>3. Tope.ctx \in Contextos
  BY <1>1, TopeTipo DEF IInv, TypeOK
<1>4. rafagas' \in Seq(Rafagas) /\ rafagas' # <<>> /\ Exteriores' /\ Tope'.paso = "control"
  BY <1>1, <1>3, PasarSolo, PasarCambia DEF IInv, TypeOK
<1>5. TypeOK'
  BY <1>1, <1>4 DEF IInv, TypeOK, kernel, quantum
<1>6. ExecOK' /\ BanderasOK' /\ GuardadoOK' /\ WgOK'
  BY <1>1, <1>2, <1>4 DEF ExecOK, BanderasOK, GuardadoOK, Desalojos, WgOK, kernel, Interna
<1>7. ColasOK' /\ GuionOK'
  BY <1>1 DEF IInv, ColasOK, GuionOK, kernel, EnGuion
<1> QED
  BY <1>4, <1>5, <1>6, <1>7 DEF IInv

\* The thread that leaves the CPU is blocked, or has ended.
LEMMA DejaLaCpu ==
  ASSUME IInv, NEW h \in Hilos, \A i \in DOMAIN colaReadyHilo : colaReadyHilo[i] # h,
         h \notin enIo \cup terminados,
         colaReadyHilo' = colaReadyHilo, colaExecHilo' = <<>>,
         \/ enIo' = enIo \cup {h} /\ terminados' = terminados
         \/ enIo' = enIo /\ terminados' = terminados \cup {h}
  PROVE  ColasOK'
<1>1. Distintos(colaReadyHilo)
  BY DEF IInv, ColasOK
<1>2. ASSUME NEW i \in DOMAIN colaReadyHilo
      PROVE  colaReadyHilo[i] \notin enIo' \cup terminados' /\ colaExecHilo' # <<colaReadyHilo[i]>>
  BY DEF IInv, ColasOK
<1>3. enIo' \cap terminados' = {}
  BY DEF IInv, ColasOK
<1>4. \A g \in enIo' \cup terminados' : colaExecHilo' # <<g>>
  OBVIOUS
<1> QED
  BY <1>1, <1>2, <1>3, <1>4 DEF ColasOK

\* The burst of a syscall that the kernel has answered.
LEMMA TrasContestar ==
  ASSUME IInv, Interna("ciclo"), Siguiente \in Contextos, Contestada, colaExecHilo' = <<>>,
         flagSegmentationFault' = flagSegmentationFault, wg' = wg
  PROVE  /\ rafagas' \in Seq(Rafagas) /\ rafagas' # <<>> /\ Exteriores'
         /\ Tope'.hilo = Tope.hilo /\ Tope'.ctx = Siguiente /\ Tope'.paso = "control"
         /\ syscallEnviada' = TRUE
         /\ ExecOK' /\ BanderasOK' /\ GuardadoOK' /\ WgOK'
<1>1. rafagas # <<>> /\ ~flagSegmentationFault /\ wg = 0
  BY EnInstruccion
<1>2. Cambiar([Tope EXCEPT !.ctx = Siguiente, !.paso = "control"]) /\ syscallEnviada' = TRUE
  BY DEF Contestada
<1>3. /\ rafagas' \in Seq(Rafagas) /\ rafagas' # <<>> /\ Exteriores'
      /\ Tope'.hilo = Tope.hilo /\ Tope'.ctx = Siguiente /\ Tope'.paso = "control"
  BY <1>1, <1>2, PasarCambia DEF IInv, TypeOK
<1> QED
  BY <1>1, <1>2, <1>3 DEF ExecOK, BanderasOK, GuardadoOK, Desalojos, WgOK, Interna

\* IO.
LEMMA IInvBloquea == IInv /\ ManejarIo => IInv'
<1> SUFFICES ASSUME IInv, ManejarIo PROVE IInv'
  OBVIOUS
<1>1. /\ Busca(Bloquea) /\ GuardarSiguiente /\ Contestada
      /\ colaExecHilo' = Quitar(colaExecHilo, Tope.hilo) /\ enIo' = enIo \cup {Tope.hilo}
      /\ UNCHANGED <<colaReadyHilo, terminados, hiloAnt, flagSegmentationFault, wg, quantum>>
  BY DEF ManejarIo
<1>2. Bloquea \in SUBSET Syscalls /\ Bloquea \cap Termina = {}
  BY DEF Syscalls, Bloquea, Termina
<1>3. /\ Interna("ciclo") /\ Siguiente \in Contextos
      /\ contextos' \in [Hilos -> Contextos]
      /\ \A h \in Hilos \ terminados : EnGuion(h, contextos'[h])
  BY <1>1, <1>2, Guardado
<1>4. /\ Tope.hilo \in Hilos /\ Tope.hilo \notin enIo \cup terminados
      /\ \A i \in DOMAIN colaReadyHilo : colaReadyHilo[i] # Tope.hilo
      /\ Quitar(colaExecHilo, Tope.hilo) = <<>>
  BY <1>3, EnInstruccion
<1>5. colaExecHilo' = <<>> /\ colaExecHilo' \in Seq(Hilos)
  BY <1>1, <1>4, EmptySeq
<1>6. /\ rafagas' \in Seq(Rafagas) /\ rafagas' # <<>> /\ Exteriores'
      /\ syscallEnviada' = TRUE
      /\ ExecOK' /\ BanderasOK' /\ GuardadoOK' /\ WgOK'
  BY <1>1, <1>3, <1>5, TrasContestar
<1>7. TypeOK'
  BY <1>1, <1>3, <1>4, <1>5, <1>6 DEF IInv, TypeOK, quantum
<1>8. ColasOK'
  BY <1>1, <1>4, <1>5, DejaLaCpu
<1>9. GuionOK'
  BY <1>1, <1>3, <1>6 DEF GuionOK, EnGuion
<1> QED
  BY <1>6, <1>7, <1>8, <1>9 DEF IInv

\* DUMP_MEMORY, done or not.
LEMMA IInvVuelca == IInv /\ (\E hecho \in BOOLEAN : DumpMemory(hecho)) => IInv'
<1> SUFFICES ASSUME IInv, NEW hecho \in BOOLEAN, DumpMemory(hecho) PROVE IInv'
  OBVIOUS
<1>1. /\ Busca(Vuelca) /\ GuardarSiguiente /\ Contestada
      /\ colaExecHilo' = Quitar(colaExecHilo, Tope.hilo)
      /\ \/ colaReadyHilo' = Append(colaReadyHilo, Tope.hilo) /\ terminados' = terminados
         \/ colaReadyHilo' = colaReadyHilo /\ terminados' = terminados \cup {Tope.hilo}
      /\ UNCHANGED <<enIo, hiloAnt, flagSegmentationFault, wg, quantum>>
  BY DEF DumpMemory
<1>2. Vuelca \in SUBSET Syscalls /\ Vuelca \cap Termina = {}
  BY DEF Syscalls, Vuelca, Termina
<1>3. /\ Interna("ciclo") /\ Siguiente \in Contextos
      /\ contextos' \in [Hilos -> Contextos]
      /\ \A h \in Hilos \ terminados : EnGuion(h, contextos'[h])
  BY <1>1, <1>2, Guardado
<1>4. /\ Tope.hilo \in Hilos /\ Tope.hilo \notin enIo \cup terminados
      /\ \A i \in DOMAIN colaReadyHilo : colaReadyHilo[i] # Tope.hilo
      /\ Quitar(colaExecHilo, Tope.hilo) = <<>>
  BY <1>3, EnInstruccion
<1>5. colaExecHilo' = <<>> /\ colaExecHilo' \in Seq(Hilos)
  BY <1>1, <1>4, EmptySeq
<1>6. /\ rafagas' \in Seq(Rafagas) /\ rafagas' # <<>> /\ Exteriores'
      /\ syscallEnviada' = TRUE
      /\ ExecOK' /\ BanderasOK' /\ GuardadoOK' /\ WgOK'
  BY <1>1, <1>3, <1>5, TrasContestar
<1>7. colaReadyHilo' \in Seq(Hilos) /\ ColasOK' /\ terminados' \subseteq Hilos
  <2>0. colaReadyHilo \in Seq(Hilos) /\ terminados \subseteq Hilos
    BY DEF IInv, TypeOK
  <2>1. CASE colaReadyHilo' = Append(colaReadyHilo, Tope.hilo) /\ terminados' = terminados
    BY <1>1, <1>4, <1>5, <2>0, <2>1, VuelveAReady
  <2>2. CASE colaReadyHilo' = colaReadyHilo /\ terminados' = terminados \cup {Tope.hilo}
    BY <1>1, <1>4, <1>5, <2>0, <2>2, DejaLaCpu
  <2> QED
    BY <1>1, <2>1, <2>2
<1>8. TypeOK'
  BY <1>1, <1>3, <1>5, <1>6, <1>7 DEF IInv, TypeOK, quantum
<1>9. GuionOK'
  BY <1>1, <1>3, <1>6 DEF GuionOK, EnGuion
<1> QED
  BY <1>6, <1>7, <1>8, <1>9 DEF IInv

\* PROCESS_EXIT.
LEMMA IInvFinaliza == IInv /\ FinalizarProceso => IInv'
<1> SUFFICES ASSUME IInv, FinalizarProceso PROVE IInv'
  OBVIOUS
<1>1. /\ Busca(Termina) /\ GuardarSiguiente /\ Contestada
      /\ colaExecHilo' = Quitar(colaExecHilo, Tope.hilo)
      /\ terminados' = terminados \cup {Tope.hilo}
      /\ UNCHANGED <<colaReadyHilo, enIo, hiloAnt, flagSegmentationFault, wg, quantum>>
  BY DEF FinalizarProceso, exitProcess
<1>2. Termina \in SUBSET Syscalls
  BY DEF Syscalls
<1>3. /\ Interna("ciclo") /\ Siguiente \in Contextos
      /\ contextos' \in [Hilos -> Contextos]
      /\ \A h \in Hilos \ terminados : h # Tope.hilo => EnGuion(h, contextos'[h])
  BY <1>1, <1>2, Guardado
<1>4. /\ Tope.hilo \in Hilos /\ Tope.hilo \notin enIo \cup terminados
      /\ \A i \in DOMAIN colaReadyHilo : colaReadyHilo[i] # Tope.hilo
      /\ Quitar(colaExecHilo, Tope.hilo) = <<>>
  BY <1>3, EnInstruccion
<1>5. colaExecHilo' = <<>> /\ colaExecHilo' \in Seq(Hilos)
  BY <1>1, <1>4, EmptySeq
<1>6. /\ rafagas' \in Seq(Rafagas) /\ rafagas' # <<>> /\ Exteriores'
      /\ syscallEnviada' = TRUE
      /\ ExecOK' /\ BanderasOK' /\ GuardadoOK' /\ WgOK'
  BY <1>1, <1>3, <1>5, TrasContestar
<1>7. TypeOK'
  BY <1>1, <1>3, <1>4, <1>5, <1>6 DEF IInv, TypeOK, quantum
<1>8. ColasOK'
  BY <1>1, <1>4, <1>5, DejaLaCpu
<1>9. GuionOK'
  BY <1>1, <1>3, <1>6 DEF GuionOK, EnGuion
<1> QED
  BY <1>6, <1>7, <1>8, <1>9 DEF IInv

\* A segmentation fault.
LEMMA IInvFault == IInv /\ EnviarSegmentationFault => IInv'
<1> SUFFICES ASSUME IInv, EnviarSegmentationFault PROVE IInv'
  OBVIOUS
<1>1. /\ rafagas # <<>> /\ Tope.paso = "control" /\ flagSegmentationFault
      /\ flagSegmentationFault' = FALSE /\ FinRafaga
      /\ colaExecHilo' = Quitar(colaExecHilo, Tope.hilo)
      /\ terminados' = terminados \cup {Tope.hilo}
      /\ UNCHANGED <<colaReadyHilo, enIo, contextos, hiloAnt, syscallEnviada, wg, quantum>>
  BY DEF EnviarSegmentationFault, exitProcess, Interna
<1>2. ~syscallEnviada
  BY <1>1 DEF IInv, BanderasOK
<1>3. /\ Tope.hilo \in Hilos /\ Tope.hilo \notin enIo \cup terminados
      /\ \A i \in DOMAIN colaReadyHilo : colaReadyHilo[i] # Tope.hilo
      /\ Quitar(colaExecHilo, Tope.hilo) = <<>>
  BY <1>1, <1>2, EnMarcha
<1>4. /\ rafagas' \in Seq(Rafagas) /\ Exteriores'
      /\ rafagas' # <<>> => Tope' \in Rafagas /\ Tope'.paso = "llamada"
  BY <1>1, TopeTermina DEF IInv, TypeOK
<1>5. colaExecHilo' = <<>> /\ colaExecHilo' \in Seq(Hilos)
  BY <1>1, <1>3, EmptySeq
<1>6. wg' = 0
  BY <1>1 DEF IInv, WgOK
<1>7. TypeOK'
  BY <1>1, <1>3, <1>4, <1>5 DEF IInv, TypeOK, quantum
<1>8. ExecOK' /\ BanderasOK' /\ GuardadoOK' /\ WgOK'
  BY <1>1, <1>2, <1>4, <1>5, <1>6 DEF ExecOK, BanderasOK, GuardadoOK, Desalojos, WgOK
<1>9. ColasOK'
  BY <1>1, <1>3, <1>5, DejaLaCpu
<1>10. GuionOK'
  BY <1>1, <1>4 DEF IInv, GuionOK, EnGuion
<1> QED
  BY <1>4, <1>7, <1>8, <1>9, <1>10 DEF IInv

\* The end of a burst after its syscall.
LEMMA IInvFinSyscall == IInv /\ FinPorSyscall => IInv'
<1> SUFFICES ASSUME IInv, FinPorSyscall PROVE IInv'
  OBVIOUS
<1>1. /\ rafagas # <<>> /\ Tope.paso = "control" /\ syscallEnviada /\ ~flagSegmentationFault
      /\ syscallEnviada' = FALSE /\ FinRafaga
      /\ UNCHANGED <<kernel, contextos, hiloAnt, flagSegmentationFault, wg, quantum>>
  BY DEF FinPorSyscall, Interna
<1>2. colaExecHilo = <<>> /\ wg = 0
  BY <1>1 DEF IInv, ExecOK, WgOK
<1>3. /\ rafagas' \in Seq(Rafagas) /\ Exteriores'
      /\ rafagas' # <<>> => Tope' \in Rafagas /\ Tope'.paso = "llamada"
  BY <1>1, TopeTermina DEF IInv, TypeOK
<1>4. TypeOK'
  BY <1>1, <1>3 DEF IInv, TypeOK, kernel, quantum
<1>5. ExecOK' /\ BanderasOK' /\ GuardadoOK' /\ WgOK'
  BY <1>1, <1>2, <1>3 DEF ExecOK, BanderasOK, GuardadoOK, Desalojos, WgOK, kernel
<1>6. ColasOK' /\ GuionOK'
  BY <1>1, <1>3 DEF IInv, ColasOK, GuionOK, kernel, EnGuion
<1> QED
  BY <1>3, <1>4, <1>5, <1>6 DEF IInv

\* The next instruction.
LEMMA IInvOtra == IInv /\ OtraInstruccion => IInv'
<1> SUFFICES ASSUME IInv, OtraInstruccion PROVE IInv'
  OBVIOUS
<1>1. /\ rafagas # <<>> /\ Tope.paso = "control" /\ ~syscallEnviada /\ ~flagSegmentationFault
      /\ Pasar("ciclo")
      /\ UNCHANGED <<kernel, contextos, hiloAnt, banderas, wg, quantum>>
  BY DEF OtraInstruccion, SinNovedad, Interna
<1>2. /\ Tope \in Rafagas /\ Tope.hilo \in Hilos /\ Tope.ctx \in Contextos
      /\ colaExecHilo = <<Tope.hilo>>
  BY <1>1, EnMarcha
<1>3. /\ rafagas' \in Seq(Rafagas) /\ rafagas' # <<>> /\ Exteriores'
      /\ Tope'.hilo = Tope.hilo /\ Tope'.ctx = Tope.ctx /\ Tope'.paso = "ciclo"
  BY <1>1, <1>2, PasarSolo, PasarCambia DEF IInv, TypeOK
<1>4. TypeOK'
  BY <1>1, <1>3 DEF IInv, TypeOK, kernel, banderas, quantum
<1>5. wg' = 0
  BY <1>1 DEF IInv, WgOK
<1>6. ExecOK' /\ BanderasOK' /\ GuardadoOK' /\ WgOK'
  BY <1>1, <1>2, <1>3, <1>5
     DEF ExecOK, BanderasOK, GuardadoOK, Desalojos, WgOK, kernel, banderas
<1>7. ColasOK'
  BY <1>1 DEF IInv, ColasOK, kernel
<1>8. GuionOK'
  BY <1>1, <1>3 DEF IInv, GuionOK, kernel, EnGuion
<1> QED
  BY <1>3, <1>4, <1>6, <1>7, <1>8 DEF IInv

\* The end of an IO.
LEMMA IInvTerminaIo ==
  ASSUME IInv, NEW h \in Hilos, TerminaIo(h)
  PROVE  IInv'
<1>1. /\ h \in enIo /\ enIo' = enIo \ {h} /\ colaReadyHilo' = Append(colaReadyHilo, h)
      /\ UNCHANGED <<colaExecHilo, terminados, contextos, rafagas, hiloAnt, banderas, wg, quantum>>
  BY DEF TerminaIo
<1>2. /\ \A i \in DOMAIN colaReadyHilo : colaReadyHilo[i] # h
      /\ h \notin terminados /\ colaExecHilo # <<h>>
  BY <1>1 DEF IInv, ColasOK
<1>3. colaReadyHilo' \in Seq(Hilos) /\ ColasOK'
  BY <1>1, <1>2, VuelveAReady
<1>4. Tope' = Tope
  BY <1>1 DEF Tope
<1>5. TypeOK'
  BY <1>1, <1>3 DEF IInv, TypeOK, banderas, quantum
<1>6. Exteriores' /\ ExecOK' /\ BanderasOK' /\ GuardadoOK' /\ GuionOK' /\ WgOK'
  BY <1>1, <1>4 DEF IInv, Exteriores, ExecOK, BanderasOK, GuardadoOK, GuionOK, WgOK,
                    banderas, Interna
<1> QED
  BY <1>3, <1>5, <1>6 DEF IInv

\* A stutter.
LEMMA IInvQuieto == IInv /\ UNCHANGED vars => IInv'
<1> SUFFICES ASSUME IInv, UNCHANGED vars PROVE IInv'
  OBVIOUS
<1>1. UNCHANGED <<kernel, contextos, rafagas, hiloAnt, banderas, wg, quantum>>
  BY DEF vars
<1>2. RelojesOK' /\ nuevaInterrupcion' \in [flagInterrupcion : BOOLEAN, hilo : Hilos]
  BY <1>1 DEF IInv, TypeOK, RelojesOK, quantum
<1> QED
  BY <1>1, <1>2, IInvRelojes DEF quantum

\* Every step keeps the invariant.
LEMMA IInvPaso == IInv /\ [Next]_vars => IInv'
BY IInvDespacha, IInvRecibe, IInvEmpieza, IInvDesaloja, IInvDevuelve, IInvEjecuta, IInvAnida,
   IInvResponde, IInvBloquea, IInvVuelca, IInvFinaliza, IInvFault, IInvFinSyscall, IInvOtra,
   IInvTerminaIo, IInvInterrupcion, IInvQuieto
   DEF Next, Cadena, Terminado

\* Whatever the delays, the bursts, the queues, the flags and the contexts stay
\* related as IInv says (kernel 860-921, cpu 185-371).
THEOREM InvarianteCpu == Spec => []IInv
<1>1. Init => IInv
  BY IInvInicial
<1>2. IInv /\ [Next]_vars => IInv'
  BY IInvPaso
<1> QED
  BY <1>1, <1>2, PTL DEF Spec

\* The types, and the counter of the WaitGroup.
THEOREM TiposCpu == Spec => []TypeOK
<1>1. IInv => TypeOK
  BY DEF IInv
<1> QED
  BY <1>1, InvarianteCpu, PTL

\* Only the innermost burst goes on, and only for the thread in exec.
THEOREM RafagaSiempreDelExec == Spec => []RafagaDelExec
<1>1. IInv => RafagaDelExec
  BY DEF IInv, Exteriores, ExecOK, RafagaDelExec
<1> QED
  BY <1>1, InvarianteCpu, PTL

-----------------------------------------------------------------------------
(* What a thread sees *)

\* The context of a thread that has not ended is a context.
LEMMA VisibleTipo ==
  ASSUME IInv, NEW h \in Hilos
  PROVE  Visible(h) = Fin \/ Visible(h) \in Contextos
<1>1. contextos[h] \in Contextos
  BY DEF IInv, TypeOK
<1>2. rafagas # <<>> => Tope.ctx \in Contextos
  BY TopeTipo DEF IInv, TypeOK
<1> QED
  BY <1>1, <1>2 DEF Visible, EnRafaga

\* Memory serves a thread the addresses of its partition only, for every word
\* that a register may hold (cpu 647, memoria 1061).
THEOREM AccesoSiemprePropio == Spec => []AccesoPropio
<1>1. IInv => AccesoPropio
  <2> SUFFICES ASSUME IInv, NEW h \in Hilos, Visible(h) # Fin, NEW r \in Registros,
                      Servido(h, Visible(h).reg[r])
               PROVE  Visible(h).reg[r] <= Limite[h] - Base[h]
    BY DEF AccesoPropio
  <2>1. Visible(h) \in Contextos
    BY VisibleTipo
  <2>2. Visible(h).reg[r] \in Palabras
    BY <2>1 DEF Contextos
  <2> QED
    BY <2>2, AccesoSeguro
<1> QED
  BY <1>1, InvarianteCpu, PTL

-----------------------------------------------------------------------------
(* The bursts implement Maquinas *)

\* The instructions of both are the same.
LEMMA MismasInstrucciones ==
  ASSUME NEW h, NEW c
  PROVE  /\ Maquina!Falla(h, c) = Falla(h, c)
         /\ Maquina!Actual(h, c) = Actual(h, c)
         /\ Maquina!Ejecutar(h, c) = Ejecutar(h, c)
         /\ Maquina!Termina = Termina /\ Maquina!Vuelca = Vuelca
         /\ Maquina!ContextoInicial = ContextoInicial
BY DEF Maquina!Falla, Maquina!Actual, Maquina!Ejecutar, Maquina!Termina, Maquina!Vuelca,
       Maquina!ContextoInicial, Maquina!SegmentationFault, Maquina!DireccionLogica,
       Maquina!direccionFisica, Maquina!Envolver, Maquina!Poner, Maquina!Servido,
       Maquina!EnRango, Maquina!Palabras, Falla, Actual, Ejecutar, Termina, Vuelca,
       ContextoInicial, SegmentationFault, DireccionLogica, direccionFisica, Envolver,
       Poner, Servido, EnRango, Palabras

\* At the start each thread sees the context of a new thread.
LEMMA CumpleMaquinasInit == Init => Maquina!Init
<1> SUFFICES ASSUME Init PROVE Maquina!Init
  OBVIOUS
<1>1. ASSUME NEW h \in Hilos PROVE Visible(h) = ContextoInicial
  BY <1>1 DEF Init, Visible, EnRafaga
<1> QED
  BY <1>1, MismasInstrucciones DEF Maquina!Init

Vistas == [h \in Hilos |-> Visible(h)]
PasoDeMaquina == \E h \in Hilos : Maquina!Avanza(h) \/ Maquina!Acaba(h)

\* A step that changes what one thread sees, as its instruction says.
LEMMA PasoDeUno ==
  ASSUME NEW h \in Hilos, \A g \in Hilos : g # h => Visible(g)' = Visible(g),
         Visible(h) # Fin,
         \/ /\ ~Falla(h, Visible(h)) /\ Actual(h, Visible(h)).op \notin Termina
            /\ Visible(h)' \in Ejecutar(h, Visible(h))
         \/ /\ Falla(h, Visible(h)) \/ Actual(h, Visible(h)).op \in Termina \cup Vuelca
            /\ Visible(h)' = Fin
  PROVE  PasoDeMaquina
<1>1. Vistas[h] = Visible(h)
  BY DEF Vistas
<1>2. Vistas' = [Vistas EXCEPT ![h] = Visible(h)']
  BY DEF Vistas
<1>3. CASE /\ ~Falla(h, Visible(h)) /\ Actual(h, Visible(h)).op \notin Termina
           /\ Visible(h)' \in Ejecutar(h, Visible(h))
  <2>1. /\ Vistas[h] # Fin /\ ~Maquina!Falla(h, Vistas[h])
        /\ Maquina!Actual(h, Vistas[h]).op \notin Maquina!Termina
        /\ Visible(h)' \in Maquina!Ejecutar(h, Vistas[h])
    BY <1>1, <1>3, MismasInstrucciones
  <2>2. Maquina!Avanza(h)
    BY <1>2, <2>1 DEF Maquina!Avanza, Vistas
  <2> QED
    BY <2>2 DEF PasoDeMaquina
<1>4. CASE /\ Falla(h, Visible(h)) \/ Actual(h, Visible(h)).op \in Termina \cup Vuelca
           /\ Visible(h)' = Fin
  <2>1. Maquina!Acaba(h)
    BY <1>1, <1>2, <1>4, MismasInstrucciones DEF Maquina!Acaba, Vistas
  <2> QED
    BY <2>1 DEF PasoDeMaquina
<1> QED
  BY <1>3, <1>4

\* What a thread sees while its burst runs.
LEMMA VisibleCorre ==
  ASSUME IInv, rafagas # <<>>, Tope.paso \notin {"recibe", "llamada"},
         ~syscallEnviada, ~flagSegmentationFault
  PROVE  /\ Visible(Tope.hilo) = Tope.ctx /\ Tope.hilo \in Hilos /\ Tope.ctx # Fin
         /\ \A h \in Hilos : h # Tope.hilo =>
              Visible(h) = IF h \in terminados THEN Fin ELSE contextos[h]
<1>1. Tope.hilo \in Hilos /\ Tope.ctx \in Contextos /\ Tope.hilo \notin terminados
  BY EnMarcha
<1> QED
  BY <1>1, FinAssumption DEF Visible, EnRafaga

\* What every thread sees between bursts.
LEMMA VisibleMemoria ==
  ASSUME ~flagSegmentationFault,
         rafagas = <<>> \/ Tope.paso \in {"recibe", "llamada"} \/ syscallEnviada
  PROVE  \A h \in Hilos : Visible(h) = IF h \in terminados THEN Fin ELSE contextos[h]
BY DEF Visible, EnRafaga

\* The same, after a step.
LEMMA VisibleMemoria2 ==
  ASSUME ~flagSegmentationFault',
         rafagas' = <<>> \/ Tope'.paso \in {"recibe", "llamada"} \/ syscallEnviada'
  PROVE  \A h \in Hilos : Visible(h)' = IF h \in terminados' THEN Fin ELSE contextos'[h]
BY DEF Visible, EnRafaga

\* The steps of the calls that change no thread's view.
LEMMA CadenaQuieta ==
  ASSUME IInv,
         \/ ejecutarHilosColasMultinivel \/ RecibirPIDyTID \/ InterrupcionInicial
         \/ InstructionCycle \/ DevolverPidTid \/ Respuesta \/ EnviarSegmentationFault
         \/ FinPorSyscall \/ Interrupcion \/ OtraInstruccion
  PROVE  \A h \in Hilos : Visible(h)' = Visible(h)
<1>0. rafagas \in Seq(Rafagas) /\ Exteriores /\ contextos \in [Hilos -> Contextos]
  BY DEF IInv, TypeOK
<1>1. CASE ejecutarHilosColasMultinivel
  <2>1. /\ rafagas = <<>> /\ rafagas' = <<enviarTCBCpu(colaReadyHilo[obtenerHiloMayorPrioridad])>>
        /\ UNCHANGED <<terminados, contextos, banderas>>
    BY <1>1 DEF ejecutarHilosColasMultinivel, Despachable
  <2>2. ~flagSegmentationFault /\ Tope'.paso = "recibe"
    BY <2>1 DEF IInv, BanderasOK, Interna, Tope, enviarTCBCpu
  <2> QED
    BY <2>1, <2>2, VisibleMemoria, VisibleMemoria2 DEF banderas
<1>2. CASE RecibirPIDyTID
  <2>1. /\ rafagas # <<>> /\ Tope.paso = "recibe"
        /\ Cambiar([Tope EXCEPT !.paso = "inicio", !.ctx = contextos[Tope.hilo]])
        /\ UNCHANGED <<kernel, contextos, banderas>>
    BY <1>2 DEF RecibirPIDyTID, Interna
  <2>2. ~syscallEnviada /\ ~flagSegmentationFault
    BY <2>1 DEF IInv, BanderasOK, Interna
  <2>3. Tope \in Rafagas /\ Tope.hilo \in Hilos /\ Tope.hilo \notin terminados
    BY <2>1, <2>2, EnMarcha
  <2>4. [Tope EXCEPT !.paso = "inicio", !.ctx = contextos[Tope.hilo]]
          = [Tope EXCEPT !.ctx = contextos[Tope.hilo], !.paso = "inicio"]
    BY <2>3 DEF Rafagas
  <2>5. /\ rafagas' # <<>>
        /\ Tope'.hilo = Tope.hilo /\ Tope'.ctx = contextos[Tope.hilo] /\ Tope'.paso = "inicio"
    BY <1>0, <2>1, <2>3, <2>4, PasarCambia
  <2> QED
    BY <2>1, <2>2, <2>3, <2>5, VisibleMemoria DEF Visible, EnRafaga, kernel, banderas
<1>3. CASE InstructionCycle \/ OtraInstruccion
  <2>1. /\ rafagas # <<>> /\ Tope.paso \in {"inicio", "control"} /\ Pasar("ciclo")
        /\ ~syscallEnviada /\ ~flagSegmentationFault
        /\ UNCHANGED <<kernel, contextos, banderas>>
    BY <1>3 DEF InstructionCycle, OtraInstruccion, SinNovedad, Interna, IInv, BanderasOK
  <2>2. Tope.ctx \in Contextos
    BY <1>0, <2>1, TopeTipo
  <2>3. /\ rafagas' # <<>>
        /\ Tope'.hilo = Tope.hilo /\ Tope'.ctx = Tope.ctx /\ Tope'.paso = "ciclo"
    BY <1>0, <2>1, <2>2, PasarSolo, PasarCambia
  <2> QED
    BY <2>1, <2>3 DEF Visible, EnRafaga, kernel, banderas
<1>4. CASE InterrupcionInicial \/ Interrupcion
  <2>1. PICK paso \in Desalojos :
          /\ rafagas # <<>> /\ Tope.paso \in {"inicio", "control"} /\ Pasar(paso) /\ Guardar
          /\ ~syscallEnviada /\ ~flagSegmentationFault
          /\ UNCHANGED <<kernel, banderas>>
    BY <1>4 DEF InterrupcionInicial, Interrupcion, SinNovedad, Interna, Desalojos, IInv, BanderasOK,
                RealizarInterrupcion
  <2>2. Tope.ctx \in Contextos /\ Tope.hilo \in Hilos
    BY <1>0, <2>1, TopeTipo
  <2>3. paso \in {"recibe", "inicio", "ciclo", "llamada", "control", "desalojo inicial", "desalojo"}
        /\ paso \notin {"recibe", "llamada"}
    BY DEF Desalojos
  <2>4. /\ rafagas' # <<>>
        /\ Tope'.hilo = Tope.hilo /\ Tope'.ctx = Tope.ctx /\ Tope'.paso = paso
    BY <1>0, <2>1, <2>2, <2>3, PasarSolo, PasarCambia
  <2>5. \A h \in Hilos : h # Tope.hilo => contextos'[h] = contextos[h]
    BY <1>0, <2>1 DEF Guardar
  <2> QED
    BY <2>1, <2>3, <2>4, <2>5 DEF Visible, EnRafaga, kernel, banderas
<1>5. CASE DevolverPidTid
  <2>1. /\ rafagas # <<>> /\ Tope.paso \in Desalojos /\ FinRafaga
        /\ UNCHANGED <<terminados, contextos, banderas>>
    BY <1>5 DEF DevolverPidTid, Interna, Desalojos
  <2>2. /\ ~syscallEnviada /\ ~flagSegmentationFault /\ contextos[Tope.hilo] = Tope.ctx
        /\ Tope.paso \notin {"recibe", "llamada"}
    BY <2>1 DEF IInv, BanderasOK, GuardadoOK, Interna, Desalojos
  <2>3. rafagas' # <<>> => Tope'.paso = "llamada"
    BY <1>0, <2>1, TopeTermina
  <2>4. Tope.hilo \notin terminados
    BY <2>1, <2>2, EnMarcha
  <2> QED
    BY <2>1, <2>2, <2>3, <2>4, VisibleCorre, VisibleMemoria2 DEF banderas
<1>6. CASE Respuesta
  <2>1. /\ rafagas # <<>> /\ Tope.paso = "llamada" /\ syscallEnviada' = TRUE
        /\ UNCHANGED <<terminados, contextos, flagSegmentationFault>>
    BY <1>6 DEF Respuesta, Interna, kernel
  <2>2. ~flagSegmentationFault
    BY <2>1 DEF IInv, BanderasOK, Interna
  <2> QED
    BY <2>1, <2>2, VisibleMemoria, VisibleMemoria2
<1>7. CASE EnviarSegmentationFault
  <2>1. /\ rafagas # <<>> /\ Tope.paso = "control" /\ flagSegmentationFault /\ FinRafaga
        /\ flagSegmentationFault' = FALSE /\ terminados' = terminados \cup {Tope.hilo}
        /\ UNCHANGED contextos
    BY <1>7 DEF EnviarSegmentationFault, exitProcess, Interna
  <2>2. rafagas' # <<>> => Tope'.paso = "llamada"
    BY <1>0, <2>1, TopeTermina
  <2>3. \A h \in Hilos : Visible(h) = IF h \in terminados \cup {Tope.hilo} THEN Fin ELSE contextos[h]
    BY <2>1 DEF Visible, EnRafaga
  <2> QED
    BY <2>1, <2>2, <2>3, VisibleMemoria2
<1>8. CASE FinPorSyscall
  <2>1. /\ rafagas # <<>> /\ syscallEnviada /\ ~flagSegmentationFault /\ FinRafaga
        /\ UNCHANGED <<terminados, contextos, flagSegmentationFault>>
    BY <1>8 DEF FinPorSyscall, Interna, kernel
  <2>2. rafagas' # <<>> => Tope'.paso = "llamada"
    BY <1>0, <2>1, TopeTermina
  <2> QED
    BY <2>1, <2>2, VisibleMemoria, VisibleMemoria2
<1> QED
  BY <1>1, <1>2, <1>3, <1>4, <1>5, <1>6, <1>7, <1>8

\* The instructions, one by one.
LEMMA EjecutaAvanza == IInv /\ Execute => PasoDeMaquina
<1> SUFFICES ASSUME IInv, Execute PROVE PasoDeMaquina
  OBVIOUS
<1>1. /\ Interna("ciclo") /\ Actual(Tope.hilo, Tope.ctx).op \notin Syscalls
      /\ flagSegmentationFault' = Falla(Tope.hilo, Tope.ctx)
      /\ UNCHANGED <<kernel, contextos, syscallEnviada>>
  BY DEF Execute, Busca
<1>2. PICK c \in Ejecutar(Tope.hilo, Tope.ctx) :
        Cambiar([Tope EXCEPT !.ctx = c, !.paso = "control"])
  BY DEF Execute
<1>3. /\ rafagas # <<>> /\ Tope.paso = "ciclo" /\ ~syscallEnviada /\ ~flagSegmentationFault
      /\ Tope.hilo \in Hilos /\ Tope.ctx \in Contextos /\ EnGuion(Tope.hilo, Tope.ctx)
      /\ Tope.hilo \notin terminados
  BY <1>1, EnInstruccion
<1>4. c \in Contextos
  BY <1>2, <1>3, EjecutarTipo
<1>5. /\ rafagas' # <<>>
      /\ Tope'.hilo = Tope.hilo /\ Tope'.ctx = c /\ Tope'.paso = "control"
  BY <1>2, <1>3, <1>4, PasarCambia DEF IInv, TypeOK
<1>6. /\ Visible(Tope.hilo) = Tope.ctx /\ Tope.ctx # Fin
      /\ \A h \in Hilos : h # Tope.hilo =>
           Visible(h) = IF h \in terminados THEN Fin ELSE contextos[h]
  BY <1>3, VisibleCorre
<1>7. \A h \in Hilos : h # Tope.hilo => Visible(h)' = Visible(h)
  BY <1>1, <1>5, <1>6 DEF Visible, EnRafaga, kernel
<1>8. PICK h \in Hilos : h = Tope.hilo
  BY <1>3
<1>9. Visible(h)' = IF Falla(h, Tope.ctx) THEN Fin ELSE c
  BY <1>1, <1>3, <1>5, <1>8 DEF Visible, EnRafaga, kernel
<1>10. /\ \A g \in Hilos : g # h => Visible(g)' = Visible(g)
       /\ Visible(h) # Fin /\ Visible(h) = Tope.ctx
  BY <1>6, <1>7, <1>8
<1>11. Actual(h, Visible(h)).op \notin Termina /\ c \in Ejecutar(h, Visible(h))
  BY <1>1, <1>2, <1>8, <1>10 DEF Syscalls
<1> QED
  BY <1>9, <1>10, <1>11, PasoDeUno

\* What a syscall changes of what threads see.
LEMMA LlamadaAvanza ==
  ASSUME IInv, NEW ops \in SUBSET Syscalls, Busca(ops), GuardarSiguiente,
         ~flagSegmentationFault',
         Tope'.paso \in {"recibe", "llamada"} \/ syscallEnviada',
         \/ terminados' = terminados /\ ops \cap Termina = {}
         \/ terminados' = terminados \cup {Tope.hilo} /\ ops \subseteq Termina \cup Vuelca
  PROVE  PasoDeMaquina
<1>1. /\ Interna("ciclo") /\ Actual(Tope.hilo, Tope.ctx).op \in ops
      /\ Siguiente \in Ejecutar(Tope.hilo, Tope.ctx)
      /\ contextos'[Tope.hilo] = Siguiente
      /\ \A h \in Hilos : h # Tope.hilo => contextos'[h] = contextos[h]
  BY Guardado
<1>2. /\ rafagas # <<>> /\ Tope.paso = "ciclo" /\ ~syscallEnviada /\ ~flagSegmentationFault
      /\ Tope.hilo \in Hilos /\ Tope.hilo \notin terminados
  BY <1>1, EnInstruccion
<1>3. /\ Visible(Tope.hilo) = Tope.ctx /\ Tope.ctx # Fin
      /\ \A h \in Hilos : h # Tope.hilo =>
           Visible(h) = IF h \in terminados THEN Fin ELSE contextos[h]
  BY <1>2, VisibleCorre
<1>4. \A h \in Hilos : Visible(h)' = IF h \in terminados' THEN Fin ELSE contextos'[h]
  BY VisibleMemoria2
<1>5. PICK h \in Hilos : h = Tope.hilo
  BY <1>2
<1>6. /\ \A g \in Hilos : g # h => Visible(g)' = Visible(g)
      /\ Visible(h) # Fin /\ Visible(h) = Tope.ctx
  BY <1>1, <1>3, <1>4, <1>5
<1>7. /\ ~Falla(h, Visible(h)) /\ Actual(h, Visible(h)).op \in ops
      /\ Siguiente \in Ejecutar(h, Visible(h))
  BY <1>1, <1>5, <1>6 DEF Falla, Syscalls, Sigue, Bloquea, Vuelca, Termina
<1>8. CASE terminados' = terminados /\ ops \cap Termina = {}
  <2>1. Visible(h)' = Siguiente
    BY <1>1, <1>2, <1>4, <1>5, <1>8
  <2>2. Actual(h, Visible(h)).op \notin Termina
    BY <1>7, <1>8
  <2> QED
    BY <1>6, <1>7, <2>1, <2>2, PasoDeUno
<1>9. CASE terminados' = terminados \cup {Tope.hilo} /\ ops \subseteq Termina \cup Vuelca
  <2>1. Visible(h)' = Fin
    BY <1>4, <1>5, <1>9
  <2> QED
    BY <1>6, <1>7, <1>9, <2>1, PasoDeUno
<1> QED
  BY <1>8, <1>9

\* The four kinds of syscall.
LEMMA LlamadasAvanzan ==
  IInv /\ (LlamadaQueSigue \/ ManejarIo \/ FinalizarProceso \/ \E hecho \in BOOLEAN : DumpMemory(hecho))
    => PasoDeMaquina
<1> SUFFICES ASSUME IInv,
                    LlamadaQueSigue \/ ManejarIo \/ FinalizarProceso \/ \E hecho \in BOOLEAN : DumpMemory(hecho)
             PROVE  PasoDeMaquina
  OBVIOUS
<1>1. /\ {Sigue, Bloquea, Vuelca, Termina} \subseteq SUBSET Syscalls
      /\ Sigue \cap Termina = {} /\ Bloquea \cap Termina = {} /\ Vuelca \cap Termina = {}
  BY DEF Syscalls, Sigue, Bloquea, Vuelca, Termina
<1>2. Interna("ciclo")
  BY DEF LlamadaQueSigue, ManejarIo, FinalizarProceso, DumpMemory, Busca
<1>3. ~flagSegmentationFault /\ rafagas # <<>> /\ Tope.hilo \in Hilos
  BY <1>2, EnInstruccion
<1>4. CASE LlamadaQueSigue
  <2>1. Siguiente \in Contextos
    BY <1>1, <1>4, Guardado DEF LlamadaQueSigue
  <2>2. rafagas \in Seq(Rafagas) /\ Exteriores
    BY DEF IInv, TypeOK
  <2>3. Tope' = enviarTCBCpu(Tope.hilo)
    BY <1>3, <1>4, <2>1, <2>2, TopeAnida DEF LlamadaQueSigue
  <2>4. Tope'.paso = "recibe"
    BY <2>3 DEF enviarTCBCpu
  <2> QED
    BY <1>1, <1>3, <1>4, <2>4, LlamadaAvanza DEF LlamadaQueSigue, kernel, banderas
<1>5. CASE ManejarIo
  BY <1>1, <1>3, <1>5, LlamadaAvanza DEF ManejarIo, Contestada
<1>6. CASE FinalizarProceso
  BY <1>1, <1>3, <1>6, LlamadaAvanza DEF FinalizarProceso, exitProcess, Contestada
<1>7. CASE \E hecho \in BOOLEAN : DumpMemory(hecho)
  BY <1>1, <1>3, <1>7, LlamadaAvanza DEF DumpMemory, Contestada
<1> QED
  BY <1>4, <1>5, <1>6, <1>7

\* Every step is a step of one machine, or of none.
LEMMA CumpleMaquinasPaso == IInv /\ [Next]_vars => PasoDeMaquina \/ UNCHANGED Vistas
<1> SUFFICES ASSUME IInv, [Next]_vars PROVE PasoDeMaquina \/ UNCHANGED Vistas
  OBVIOUS
<1>1. (\A h \in Hilos : Visible(h)' = Visible(h)) => UNCHANGED Vistas
  BY DEF Vistas
<1>2. ASSUME UNCHANGED <<terminados, contextos, rafagas, banderas>> PROVE UNCHANGED Vistas
  <2>1. Tope' = Tope
    BY <1>2 DEF Tope
  <2> QED
    BY <1>1, <1>2, <2>1 DEF Visible, EnRafaga, banderas
<1>3. CASE Cadena
  BY <1>1, <1>3, CadenaQuieta, EjecutaAvanza, LlamadasAvanzan DEF Cadena
<1>4. CASE \E i \in Relojes : VenceQuantum(i) \/ PasoInterrupcion(i)
  BY <1>2, <1>4 DEF VenceQuantum, PasoInterrupcion, RecieveInterruption, VuelveDeWait, Registra, kernel
<1>5. CASE \E h \in Hilos : TerminaIo(h)
  BY <1>2, <1>5 DEF TerminaIo
<1>6. CASE Terminado \/ UNCHANGED vars
  BY <1>2, <1>6 DEF Terminado, vars, kernel
<1> QED
  BY <1>3, <1>4, <1>5, <1>6 DEF Next

\* Each thread runs its script as on a machine of its own, whatever the quantum,
\* the syscalls and the bursts around do.
THEOREM CumpleSiempreMaquinas == Spec => CumpleMaquinas
<1>1. IInv /\ [Next]_vars =>
        [\E h \in Hilos : Maquina!Avanza(h) \/ Maquina!Acaba(h)]_[h \in Hilos |-> Visible(h)]
  BY CumpleMaquinasPaso DEF PasoDeMaquina, Vistas
<1> QED
  BY <1>1, CumpleMaquinasInit, InvarianteCpu, PTL DEF Spec, CumpleMaquinas, Maquina!Spec

-----------------------------------------------------------------------------
(* The eviction to come, with both assumptions on delays *)

\* At most one interruption is on its way, and none that was woken up is late.
Puntuales ==
  /\ \A i, j \in DOMAIN temporizadores :
       temporizadores[i].etapa \in EnCamino /\ temporizadores[j].etapa \in EnCamino => i = j
  /\ \A i \in DOMAIN temporizadores : temporizadores[i].etapa = "despierta" => wg = 0

ConReloj(h) == \E i \in DOMAIN temporizadores : temporizadores[i].hilo = h

\* An interruption in the slot is not overwritten: nothing is on its way.
PorVenir ==
  rafagas # <<>> /\ Tope.paso \notin Desalojos =>
    \A j \in DOMAIN colaExecHilo :
      ConReloj(colaExecHilo[j]) \/ (ParaEl(colaExecHilo[j]) /\ NadaEnCamino)

DInv == Puntuales /\ PorVenir

\* Steps that leave the timers and the slot alone.
LEMMA DInvQuieto ==
  ASSUME DInv, UNCHANGED quantum, wg' = wg \/ NadieDespierta,
         \/ colaExecHilo' = <<>>
         \/ /\ colaExecHilo' = colaExecHilo
            /\ rafagas' # <<>> /\ Tope'.paso \notin Desalojos => rafagas # <<>> /\ Tope.paso \notin Desalojos
  PROVE  DInv'
<1>1. Puntuales'
  BY DEF DInv, Puntuales, quantum, NadieDespierta
<1>2. PorVenir'
  BY DEF DInv, PorVenir, ConReloj, ParaEl, NadaEnCamino, quantum
<1> QED
  BY <1>1, <1>2 DEF DInv

\* A dispatch starts a timer for its thread.
LEMMA DInvDespacha == IInv /\ DInv /\ ejecutarHilosColasMultinivel => DInv'
<1> SUFFICES ASSUME IInv, DInv, ejecutarHilosColasMultinivel PROVE DInv'
  OBVIOUS
<1>1. PICK h : h = colaReadyHilo[obtenerHiloMayorPrioridad]
  OBVIOUS
<1>2. PICK i : i = CHOOSE k \in Libres : \A j \in Libres : k <= j
  OBVIOUS
<1>3. /\ colaExecHilo = <<>> /\ colaExecHilo' = Append(colaExecHilo, h) /\ Libres # {} /\ wg' = wg
      /\ temporizadores' = [j \in DOMAIN temporizadores \cup {i} |->
           IF j = i THEN [hilo |-> h, etapa |-> "duerme"] ELSE temporizadores[j]]
  BY <1>1, <1>2 DEF ejecutarHilosColasMultinivel, Despachable, comenzarQuantum
<1>4. /\ DOMAIN temporizadores' = DOMAIN temporizadores \cup {i}
      /\ temporizadores'[i] = [hilo |-> h, etapa |-> "duerme"]
      /\ \A j \in DOMAIN temporizadores : j # i => temporizadores'[j] = temporizadores[j]
  BY <1>3
<1>5. colaExecHilo' = <<h>>
  BY <1>3
<1>6. Puntuales'
  BY <1>3, <1>4 DEF DInv, Puntuales, EnCamino
<1>7. PorVenir'
  <2>1. ConReloj(h)'
    BY <1>4 DEF ConReloj
  <2>2. \A j \in DOMAIN colaExecHilo' : colaExecHilo'[j] = h
    BY <1>5
  <2> QED
    BY <2>1, <2>2 DEF PorVenir, ConReloj
<1> QED
  BY <1>6, <1>7 DEF DInv

\* At most one thread is in exec.
LEMMA UnoEnExec ==
  ASSUME IInv
  PROVE  \A j \in DOMAIN colaExecHilo : colaExecHilo # <<>> /\ colaExecHilo[j] = colaExecHilo[1]
<1>1. CASE colaExecHilo = <<>>
  BY <1>1
<1>2. CASE colaExecHilo # <<>>
  <2>1. PICK g : colaExecHilo = <<g>>
    BY <1>2 DEF IInv, ExecOK
  <2> QED
    BY <2>1
<1> QED
  BY <1>1, <1>2

\* The end of a quantum.
LEMMA DInvVence ==
  ASSUME IInv, DInv, "quantum largo" \in Supuestos, NEW i \in Relojes, VenceQuantum(i)
  PROVE  DInv'
<1>1. /\ i \in DOMAIN temporizadores /\ NadaEnCamino
      /\ UNCHANGED <<colaExecHilo, rafagas, wg, nuevaInterrupcion>>
  BY DEF VenceQuantum, EnEtapa, Supuesto, kernel
<1>2. Tope' = Tope
  BY <1>1 DEF Tope
<1>3. temporizadores[i] \in Temporizador
  BY <1>1 DEF IInv, TypeOK
<1>4. CASE colaExecHilo # <<>> /\ colaExecHilo[1] = temporizadores[i].hilo
  <2>1. /\ DOMAIN temporizadores' = DOMAIN temporizadores
        /\ temporizadores'[i].etapa = "enviada" /\ temporizadores'[i].hilo = temporizadores[i].hilo
        /\ \A j \in DOMAIN temporizadores : j # i => temporizadores'[j] = temporizadores[j]
    BY <1>1, <1>3, <1>4 DEF VenceQuantum, Etapa, Temporizador
  <2>2. Puntuales'
    BY <1>1, <2>1 DEF DInv, Puntuales, NadaEnCamino
  <2>3. PorVenir'
    <3>1. \A j \in DOMAIN colaExecHilo : colaExecHilo[j] = temporizadores[i].hilo
      BY <1>4, UnoEnExec
    <3> QED
      BY <1>1, <2>1, <3>1 DEF PorVenir, ConReloj
  <2> QED
    BY <2>2, <2>3 DEF DInv
<1>5. CASE ~(colaExecHilo # <<>> /\ colaExecHilo[1] = temporizadores[i].hilo)
  <2>1. /\ DOMAIN temporizadores' = DOMAIN temporizadores \ {i}
        /\ \A j \in DOMAIN temporizadores' : temporizadores'[j] = temporizadores[j]
    BY <1>5 DEF VenceQuantum, SinTemporizador
  <2>2. Puntuales'
    BY <1>1, <2>1 DEF DInv, Puntuales
  <2>3. \A j \in DOMAIN colaExecHilo : colaExecHilo[j] # temporizadores[i].hilo
    BY <1>5, UnoEnExec
  <2>4. \A j \in DOMAIN colaExecHilo : ConReloj(colaExecHilo[j]) => ConReloj(colaExecHilo[j])'
    BY <1>1, <2>1, <2>3 DEF ConReloj
  <2>5. NadaEnCamino'
    BY <1>1, <2>1 DEF NadaEnCamino
  <2>6. PorVenir'
    BY <1>1, <1>2, <2>4, <2>5 DEF DInv, PorVenir, ParaEl, ConReloj
  <2> QED
    BY <2>2, <2>6 DEF DInv
<1> QED
  BY <1>4, <1>5

\* An interruption that moves on is not lost, for nobody has used wg again.
LEMMA DInvAvanza ==
  ASSUME IInv, DInv, NEW i \in Relojes, RecieveInterruption(i) \/ VuelveDeWait(i)
  PROVE  DInv'
<1>1. /\ i \in DOMAIN temporizadores /\ temporizadores[i].etapa \in EnCamino
      /\ UNCHANGED <<colaExecHilo, rafagas, wg, nuevaInterrupcion>>
  BY DEF RecieveInterruption, VuelveDeWait, EnEtapa, kernel, EnCamino
<1>2. PICK etapa \in EnCamino \ {"despierta"} : Etapa(i, etapa)
  BY DEF RecieveInterruption, VuelveDeWait, EnEtapa, EnCamino, DInv, Puntuales
<1>3. temporizadores[i] \in Temporizador /\ Tope' = Tope
  BY <1>1 DEF IInv, TypeOK, Tope
<1>4. /\ DOMAIN temporizadores' = DOMAIN temporizadores
      /\ temporizadores'[i].etapa = etapa /\ temporizadores'[i].hilo = temporizadores[i].hilo
      /\ \A j \in DOMAIN temporizadores : j # i => temporizadores'[j] = temporizadores[j]
  BY <1>1, <1>2, <1>3 DEF Etapa, Temporizador
<1>5. Puntuales'
  BY <1>1, <1>4 DEF DInv, Puntuales
<1>6. ~NadaEnCamino
  BY <1>1 DEF NadaEnCamino
<1>7. PorVenir'
  BY <1>1, <1>3, <1>4, <1>6 DEF DInv, PorVenir, ConReloj
<1> QED
  BY <1>5, <1>7 DEF DInv

\* The slot takes the only interruption that was on its way.
LEMMA DInvRegistra ==
  ASSUME IInv, DInv, NEW i \in Relojes, Registra(i)
  PROVE  DInv'
<1>1. /\ i \in DOMAIN temporizadores /\ temporizadores[i].etapa \in EnCamino
      /\ nuevaInterrupcion' = [flagInterrupcion |-> TRUE, hilo |-> temporizadores[i].hilo]
      /\ UNCHANGED <<colaExecHilo, rafagas, wg>>
  BY DEF Registra, EnEtapa, kernel, EnCamino
<1>2. /\ DOMAIN temporizadores' = DOMAIN temporizadores \ {i}
      /\ \A j \in DOMAIN temporizadores' : temporizadores'[j] = temporizadores[j]
  BY DEF Registra, SinTemporizador
<1>3. Tope' = Tope
  BY <1>1 DEF Tope
<1>4. Puntuales'
  BY <1>1, <1>2 DEF DInv, Puntuales
<1>5. NadaEnCamino' /\ ~NadaEnCamino
  BY <1>1, <1>2 DEF NadaEnCamino, DInv, Puntuales
<1>6. ASSUME NEW j \in DOMAIN colaExecHilo, ConReloj(colaExecHilo[j])
      PROVE  ConReloj(colaExecHilo[j])' \/ ParaEl(colaExecHilo[j])'
  <2>1. PICK k \in DOMAIN temporizadores : temporizadores[k].hilo = colaExecHilo[j]
    BY <1>6 DEF ConReloj
  <2>2. CASE k = i
    BY <1>1, <2>1, <2>2 DEF ParaEl
  <2>3. CASE k # i
    BY <1>1, <1>2, <2>1, <2>3 DEF ConReloj
  <2> QED
    BY <2>2, <2>3
<1>7. PorVenir'
  BY <1>1, <1>3, <1>5, <1>6 DEF DInv, PorVenir, ConReloj, ParaEl
<1> QED
  BY <1>4, <1>7 DEF DInv

\* wg.Done wakes up who waits, once the counter is 0.
LEMMA DInvDone ==
  ASSUME IInv, DInv, wg = 1, Done, nuevaInterrupcion' = nuevaInterrupcion,
         \/ colaExecHilo' = <<>>
         \/ /\ colaExecHilo' = colaExecHilo
            /\ rafagas # <<>> /\ Tope.paso \notin Desalojos
  PROVE  DInv'
<1>1. wg' = 0 /\ DOMAIN temporizadores' = DOMAIN temporizadores
  BY DEF Done
<1>2. ASSUME NEW i \in DOMAIN temporizadores
      PROVE  /\ temporizadores'[i].hilo = temporizadores[i].hilo
             /\ temporizadores'[i].etapa \in EnCamino <=> temporizadores[i].etapa \in EnCamino
  <2>1. temporizadores[i] \in Temporizador
    BY DEF IInv, TypeOK
  <2> QED
    BY <2>1 DEF Done, Temporizador, EnCamino
<1>3. Puntuales'
  BY <1>1, <1>2 DEF DInv, Puntuales
<1>4. PorVenir'
  BY <1>1, <1>2 DEF DInv, PorVenir, ConReloj, ParaEl, NadaEnCamino
<1> QED
  BY <1>3, <1>4 DEF DInv

\* An eviction takes what the slot held.
LEMMA DInvDesaloja ==
  ASSUME IInv, DInv, InterrupcionInicial \/ Interrupcion
  PROVE  DInv'
<1>1. PICK paso \in Desalojos :
        /\ rafagas # <<>> /\ Pasar(paso) /\ UNCHANGED <<temporizadores, wg>>
  BY DEF InterrupcionInicial, Interrupcion, SinNovedad, Interna, RealizarInterrupcion, Desalojos
<1>2. paso \in {"recibe", "inicio", "ciclo", "llamada", "control", "desalojo inicial", "desalojo"}
  BY DEF Desalojos
<1>3. rafagas \in Seq(Rafagas) /\ Exteriores /\ Tope.ctx \in Contextos
  BY <1>1, TopeTipo DEF IInv, TypeOK
<1>4. Tope'.paso = paso
  BY <1>1, <1>2, <1>3, PasarSolo, PasarCambia
<1> QED
  BY <1>1, <1>4 DEF DInv, Puntuales, PorVenir

\* At the start nothing runs, and no timer sleeps.
LEMMA DInvInicial == Init => DInv
<1> SUFFICES ASSUME Init PROVE DInv
  OBVIOUS
<1>1. rafagas = <<>>
  BY DEF Init
<1>2. DOMAIN temporizadores = {} /\ temporizadores \in [DOMAIN temporizadores -> Temporizador]
  BY DEF Init
<1> QED
  BY <1>1, <1>2 DEF DInv, Puntuales, PorVenir

\* Every step keeps the eviction to come.
LEMMA DInvPaso ==
  ASSUME {"quantum largo", "despierta a tiempo"} \subseteq Supuestos
  PROVE  IInv /\ IInv' /\ DInv /\ [Next]_vars => DInv'
<1> SUFFICES ASSUME IInv, IInv', DInv, [Next]_vars PROVE DInv'
  OBVIOUS
<1>1. CASE \E i \in Relojes : VenceQuantum(i) \/ PasoInterrupcion(i)
  BY <1>1, DInvVence, DInvAvanza, DInvRegistra DEF PasoInterrupcion
<1>2. CASE InstructionCycle
  BY <1>2, DInvDone DEF InstructionCycle, IInv, WgOK, Interna, Desalojos, kernel
<1>3. CASE DevolverPidTid
  <2>1. rafagas # <<>> /\ Tope.paso \in Desalojos
    BY <1>3 DEF DevolverPidTid, Interna, Desalojos
  <2>2. Quitar(colaExecHilo, Tope.hilo) = <<>>
    BY <2>1, EnMarcha DEF IInv, BanderasOK, Interna, Desalojos
  <2>3. CASE Tope.paso = "desalojo inicial"
    <3>1. wg = 1
      BY <2>1, <2>3 DEF IInv, WgOK
    <3> QED
      BY <1>3, <2>2, <2>3, <3>1, DInvDone DEF DevolverPidTid
  <2>4. CASE Tope.paso # "desalojo inicial"
    BY <1>3, <2>2, <2>4, DInvQuieto DEF DevolverPidTid, quantum
  <2> QED
    BY <2>3, <2>4
<1>4. CASE RecibirPIDyTID
  BY <1>4, DInvQuieto DEF RecibirPIDyTID, Supuesto, kernel, Interna, Desalojos
<1>5. CASE Execute \/ LlamadaQueSigue \/ OtraInstruccion
  BY <1>5, DInvQuieto DEF Execute, LlamadaQueSigue, OtraInstruccion, SinNovedad, Busca, Interna,
                          kernel, Desalojos
<1>6. CASE ManejarIo \/ FinalizarProceso \/ \E hecho \in BOOLEAN : DumpMemory(hecho)
  <2>1. Quitar(colaExecHilo, Tope.hilo) = <<>>
    BY <1>6, EnInstruccion DEF ManejarIo, FinalizarProceso, DumpMemory, Busca
  <2>2. colaExecHilo' = <<>> /\ UNCHANGED <<wg, quantum>>
    BY <1>6, <2>1 DEF ManejarIo, FinalizarProceso, DumpMemory, exitProcess
  <2> QED
    BY <2>2, DInvQuieto
<1>7. CASE EnviarSegmentationFault
  <2>1. Quitar(colaExecHilo, Tope.hilo) = <<>>
    BY <1>7, EnMarcha DEF EnviarSegmentationFault, Interna, IInv, BanderasOK
  <2> QED
    BY <1>7, <2>1, DInvQuieto DEF EnviarSegmentationFault, exitProcess
<1>8. CASE Respuesta \/ FinPorSyscall
  <2>1. colaExecHilo = <<>>
    BY <1>8 DEF Respuesta, FinPorSyscall, Interna, IInv, ExecOK
  <2> QED
    BY <1>8, <2>1, DInvQuieto DEF Respuesta, FinPorSyscall, kernel
<1>9. CASE (\E h \in Hilos : TerminaIo(h)) \/ Terminado \/ UNCHANGED vars
  <2>1. UNCHANGED <<colaExecHilo, rafagas, wg, quantum>>
    BY <1>9 DEF TerminaIo, Terminado, vars, kernel
  <2>2. Tope' = Tope
    BY <2>1 DEF Tope
  <2> QED
    BY <2>1, <2>2, DInvQuieto
<1> QED
  BY <1>1, <1>2, <1>3, <1>4, <1>5, <1>6, <1>7, <1>8, <1>9, DInvDespacha, DInvDesaloja
     DEF Next, Cadena

\* A thread that runs has its eviction to come, if an interruption arrives before
\* the next quantum ends and a goroutine runs before the next dispatch.
THEOREM SiempreHayDesalojo ==
  ASSUME {"quantum largo", "despierta a tiempo"} \subseteq Supuestos
  PROVE  Spec => []SiempreDesalojable
<1>1. Init => DInv
  BY DInvInicial
<1>2. IInv /\ IInv' /\ DInv /\ [Next]_vars => DInv'
  BY DInvPaso
<1>3. DInv => SiempreDesalojable
  BY DEF DInv, PorVenir, SiempreDesalojable, ConReloj, Desalojos
<1> QED
  BY <1>1, <1>2, <1>3, InvarianteCpu, PTL DEF Spec
=============================================================================
