----------------------------- MODULE HilosProofs -----------------------------
(***************************************************************************)
(* Proofs about the threads of the kernel when scripts keep the rules.     *)
(***************************************************************************)
EXTENDS KernelProofs

-----------------------------------------------------------------------------
(* Queues of threads *)

\* The threads of a queue.
Rango(q) == {q[i] : i \in DOMAIN q}

IdsDe(S) == {IdDe(t) : t \in S}

\* No thread is twice in the queue, and no two members of a set have one id.
Unico(q) == \A i, j \in DOMAIN q : IdDe(q[i]) = IdDe(q[j]) => i = j
Distintos(S) == \A t, u \in S : IdDe(t) = IdDe(u) => t = u

\* What eliminarHiloCola (utils.go:1055) makes of a queue with the thread once.
Sin(q, p) == [i \in 1..(Len(q) - 1) |-> IF i < p THEN q[i] ELSE q[i + 1]]

\* The indexes of a queue.
LEMMA Indices ==
  ASSUME NEW S, NEW q \in Seq(S)
  PROVE  /\ Len(q) \in Nat /\ DOMAIN q = 1..Len(q)
         /\ \A i \in 1..Len(q) : q[i] \in S
         /\ Rango(q) \subseteq S /\ (q = <<>> <=> Rango(q) = {})
<1>1. Len(q) \in Nat /\ DOMAIN q = 1..Len(q) /\ \A i \in 1..Len(q) : q[i] \in S
  BY LenProperties, ElementOfSeq
<1>2. q = <<>> <=> Len(q) = 0
  BY EmptySeq
<1>3. q = <<>> <=> DOMAIN q = {}
  BY <1>1, <1>2
<1>4. DOMAIN q = {} <=> Rango(q) = {}
  BY DEF Rango
<1> QED
  BY <1>1, <1>3, <1>4 DEF Rango

\* A thread that is in a queue once leaves it, and the others stay in order.
LEMMA EliminarUno ==
  ASSUME NEW q \in Seq(TCBs), Unico(q), NEW p \in 1..Len(q)
  PROVE  eliminarHiloCola(q, IdDe(q[p])) = Sin(q, p)
<1> DEFINE id == IdDe(q[p])
           n == Len(q)
           antes(R, i) == Cardinality(R \cap (1..i))
           Bien2(R) == \A i \in DOMAIN q :
                         i \in R <=> IdDe(Corrido(q, i, antes(R, i - 1))) = id
           quitas == CHOOSE R \in SUBSET DOMAIN q : Bien2(R)
<1>1. n \in Nat /\ DOMAIN q = 1..n /\ p \in 1..n
  BY Indices
<1>2. \A i \in 1..n : IdDe(q[i]) = id => i = p
  BY <1>1 DEF Unico
<1>3. ASSUME NEW i \in Int, NEW R, R \cap (1..i) = {}
      PROVE  antes(R, i) = 0
  BY <1>3, FS_EmptySet
<1>4. ASSUME NEW i \in Int, NEW R, R \cap (1..i) = {p}
      PROVE  antes(R, i) = 1
  BY <1>4, FS_Singleton
<1>5. Bien2({p})
  <2> SUFFICES ASSUME NEW i \in 1..n
               PROVE  i = p <=> IdDe(Corrido(q, i, antes({p}, i - 1))) = id
    BY <1>1
  <2>1. CASE i <= p
    <3>1. antes({p}, i - 1) = 0
      <4>1. {p} \cap (1..(i - 1)) = {} /\ i - 1 \in Int
        BY <1>1, <2>1
      <4> QED
        BY <1>3, <4>1
    <3>2. Corrido(q, i, antes({p}, i - 1)) = q[i]
      BY <1>1, <3>1 DEF Corrido
    <3> QED
      BY <1>2, <3>2
  <2>2. CASE ~(i <= p)
    <3>1. antes({p}, i - 1) = 1
      <4>1. {p} \cap (1..(i - 1)) = {p} /\ i - 1 \in Int
        BY <1>1, <2>2
      <4> QED
        BY <1>4, <4>1
    <3>2. \E j \in 1..n : j # p /\ Corrido(q, i, antes({p}, i - 1)) = q[j]
      BY <1>1, <2>2, <3>1 DEF Corrido
    <3> QED
      BY <1>2, <2>2, <3>2
  <2> QED
    BY <2>1, <2>2
<1>6. quitas \in SUBSET DOMAIN q /\ Bien2(quitas)
  BY <1>1, <1>5
<1> HIDE DEF quitas
<1>7. quitas \cap (1..(p - 1)) = {}
  <2> SUFFICES ASSUME quitas \cap (1..(p - 1)) # {} PROVE FALSE
    OBVIOUS
  <2> DEFINE T == quitas \cap (1..(p - 1))
  <2>0. T \in SUBSET Nat /\ T # {}
    BY <1>1
  <2>1. PICK i \in T : \A j \in T : i <= j
    <3> HIDE DEF T
    <3> QED
      BY <2>0, MenorNatural
  <2>2. quitas \cap (1..(i - 1)) = {}
    BY <1>1, <2>1
  <2>3. Corrido(q, i, antes(quitas, i - 1)) = q[i]
    <3>1. i - 1 \in Int /\ i \in 1..n
      BY <1>1, <2>1
    <3>2. antes(quitas, i - 1) = 0
      BY <1>3, <2>2, <3>1
    <3> QED
      BY <1>1, <3>1, <3>2 DEF Corrido
  <2>4. IdDe(Corrido(q, i, antes(quitas, i - 1))) = id
    BY <1>1, <1>6, <2>1
  <2> QED
    BY <1>1, <1>2, <2>1, <2>3, <2>4
<1>8. p \in quitas
  <2>1. Corrido(q, p, antes(quitas, p - 1)) = q[p]
    <3>1. antes(quitas, p - 1) = 0
      <4>1. p - 1 \in Int
        BY <1>1
      <4> QED
        BY <1>3, <1>7, <4>1
    <3> QED
      BY <1>1, <3>1 DEF Corrido
  <2> QED
    BY <1>1, <1>6, <2>1
<1>9. \A j \in quitas : j <= p
  <2> SUFFICES ASSUME {j \in quitas : j > p} # {} PROVE FALSE
    BY <1>1, <1>6
  <2> DEFINE T == {j \in quitas : j > p}
  <2>1. T \in SUBSET Nat
    BY <1>1, <1>6
  <2>2. PICK i \in T : \A j \in T : i <= j
    BY <2>1, MenorNatural
  <2>3. quitas \cap (1..(i - 1)) = {p}
    BY <1>1, <1>6, <1>7, <1>8, <2>2
  <2>4. antes(quitas, i - 1) = 1 /\ i \in 1..n /\ i > p
    <3>1. i \in 1..n /\ i > p /\ i - 1 \in Int
      BY <1>1, <1>6, <2>2
    <3> QED
      BY <1>4, <2>3, <3>1
  <2>5. \E j \in 1..n : j # p /\ Corrido(q, i, antes(quitas, i - 1)) = q[j]
    BY <1>1, <2>4 DEF Corrido
  <2>6. IdDe(Corrido(q, i, antes(quitas, i - 1))) = id
    BY <1>1, <1>6, <2>2
  <2> QED
    BY <1>2, <2>5, <2>6
<1>10. quitas = {p}
  BY <1>1, <1>6, <1>7, <1>8, <1>9
<1>11. EstaEn(q, id)
  BY <1>1 DEF EstaEn
<1>12. eliminarHiloCola(q, id) = [i \in 1..(n - 1) |-> Corrido(q, i, antes(quitas, i))]
  BY <1>11 DEF eliminarHiloCola, quitas
<1>13. ASSUME NEW i \in 1..(n - 1)
       PROVE  Corrido(q, i, antes(quitas, i)) = IF i < p THEN q[i] ELSE q[i + 1]
  <2>1. CASE i < p
    <3>1. antes(quitas, i) = 0
      <4>1. quitas \cap (1..i) = {} /\ i \in Int
        BY <1>1, <1>10, <2>1
      <4> QED
        BY <1>3, <4>1
    <3> QED
      BY <1>1, <2>1, <3>1 DEF Corrido
  <2>2. CASE ~(i < p)
    <3>1. antes(quitas, i) = 1
      <4>1. quitas \cap (1..i) = {p} /\ i \in Int
        BY <1>1, <1>10, <2>2
      <4> QED
        BY <1>4, <4>1
    <3> QED
      BY <1>1, <2>2, <3>1 DEF Corrido
  <2> QED
    BY <2>1, <2>2
<1> QED
  BY <1>12, <1>13 DEF Sin

\* A queue without one of its threads.
LEMMA SinUno ==
  ASSUME NEW q \in Seq(TCBs), Unico(q), NEW p \in 1..Len(q)
  PROVE  /\ Sin(q, p) \in Seq(TCBs) /\ Unico(Sin(q, p))
         /\ Len(Sin(q, p)) = Len(q) - 1
         /\ \A i \in 1..(Len(q) - 1) : Sin(q, p)[i] = IF i < p THEN q[i] ELSE q[i + 1]
         /\ Rango(Sin(q, p)) = Rango(q) \ {q[p]}
<1> DEFINE n == Len(q)
<1>1. n \in Nat /\ DOMAIN q = 1..n /\ p \in 1..n /\ \A i \in 1..n : q[i] \in TCBs
  BY Indices
<1>2. Sin(q, p) \in [1..(n - 1) -> TCBs] /\ n - 1 \in Nat
  BY <1>1 DEF Sin
<1>3. Sin(q, p) \in Seq(TCBs)
  BY <1>2, FuncionEsSeq
<1>4. DOMAIN Sin(q, p) = 1..(n - 1) /\ Len(Sin(q, p)) = n - 1
  BY <1>2, <1>3, LenProperties
<1>5. \A i \in 1..(n - 1) : Sin(q, p)[i] = IF i < p THEN q[i] ELSE q[i + 1]
  BY DEF Sin
<1>6. ASSUME NEW i \in 1..(n - 1), NEW j \in 1..(n - 1), IdDe(Sin(q, p)[i]) = IdDe(Sin(q, p)[j])
      PROVE  i = j
  BY <1>1, <1>5, <1>6 DEF Unico
<1>7. ASSUME NEW t \in Rango(Sin(q, p)) PROVE t \in Rango(q) \ {q[p]}
  <2>1. PICK i \in 1..(n - 1) : t = Sin(q, p)[i]
    BY <1>4 DEF Rango
  <2>2. \E j \in 1..n : j # p /\ t = q[j]
    BY <1>1, <1>5, <2>1
  <2> QED
    BY <1>1, <2>2 DEF Rango, Unico
<1>8. ASSUME NEW t \in Rango(q) \ {q[p]} PROVE t \in Rango(Sin(q, p))
  <2>1. PICK j \in 1..n : t = q[j] /\ j # p
    BY <1>1 DEF Rango
  <2>2. \E i \in 1..(n - 1) : t = Sin(q, p)[i]
    <3>1. CASE j < p
      BY <1>1, <1>5, <2>1, <3>1
    <3>2. CASE ~(j < p)
      <4>1. j - 1 \in 1..(n - 1) /\ ~(j - 1 < p) /\ (j - 1) + 1 = j
        BY <1>1, <2>1, <3>2
      <4> QED
        BY <1>5, <2>1, <4>1
    <3> QED
      BY <3>1, <3>2
  <2> QED
    BY <1>4, <2>2 DEF Rango
<1>9. Unico(Sin(q, p))
  BY <1>4, <1>6 DEF Unico
<1> QED
  BY <1>3, <1>4, <1>5, <1>7, <1>8, <1>9

\* The thread that leaves a queue, in terms of the threads of the queue.
LEMMA Quitar ==
  ASSUME NEW q \in Seq(TCBs), Unico(q), NEW t \in Rango(q)
  PROVE  /\ eliminarHiloCola(q, IdDe(t)) \in Seq(TCBs)
         /\ Unico(eliminarHiloCola(q, IdDe(t)))
         /\ Rango(eliminarHiloCola(q, IdDe(t))) = Rango(q) \ {t}
         /\ \E p \in 1..Len(q) : q[p] = t /\ eliminarHiloCola(q, IdDe(t)) = Sin(q, p)
<1>1. PICK p \in 1..Len(q) : q[p] = t
  BY Indices DEF Rango
<1> QED
  BY <1>1, EliminarUno, SinUno

\* The same for a thread that may not be there.
LEMMA QuitarSi ==
  ASSUME NEW q \in Seq(TCBs), Unico(q), NEW t, NEW r,
         r = IF t \in Rango(q) THEN eliminarHiloCola(q, IdDe(t)) ELSE q
  PROVE  Unico(r) /\ Rango(r) = Rango(q) \ {t}
<1>1. CASE t \in Rango(q)
  BY <1>1, Quitar
<1>2. CASE t \notin Rango(q)
  BY <1>2
<1> QED
  BY <1>1, <1>2

\* A thread that enters a queue.
LEMMA Agregar ==
  ASSUME NEW q \in Seq(TCBs), NEW t \in TCBs
  PROVE  /\ Append(q, t) \in Seq(TCBs) /\ Len(Append(q, t)) = Len(q) + 1
         /\ \A i \in 1..Len(q) : Append(q, t)[i] = q[i]
         /\ Append(q, t)[Len(q) + 1] = t
         /\ Rango(Append(q, t)) = Rango(q) \cup {t}
         /\ (Unico(q) /\ \A u \in Rango(q) : IdDe(u) # IdDe(t)) => Unico(Append(q, t))
<1> DEFINE n == Len(q)
           a == Append(q, t)
<1>1. n \in Nat /\ DOMAIN q = 1..n
  BY Indices
<1>2. /\ a \in Seq(TCBs) /\ Len(a) = n + 1 /\ a[n + 1] = t
      /\ \A i \in 1..n : a[i] = q[i]
  BY <1>1, AppendProperties
<1>3. DOMAIN a = 1..(n + 1)
  BY <1>2, LenProperties
<1> HIDE DEF a
<1>4. Rango(a) = Rango(q) \cup {t}
  <2>1. ASSUME NEW u \in Rango(a) PROVE u \in Rango(q) \cup {t}
    <3>1. PICK i \in 1..(n + 1) : u = a[i]
      BY <1>3 DEF Rango
    <3>2. i \in 1..n \/ i = n + 1
      BY <1>1
    <3> QED
      BY <1>1, <1>2, <3>1, <3>2 DEF Rango
  <2>2. ASSUME NEW u \in Rango(q) PROVE u \in Rango(a)
    <3>1. PICK i \in 1..n : u = q[i]
      BY <1>1 DEF Rango
    <3>2. i \in 1..(n + 1) /\ a[i] = u
      BY <1>1, <1>2, <3>1
    <3> QED
      BY <1>3, <3>2 DEF Rango
  <2>3. t \in Rango(a)
    <3>1. n + 1 \in 1..(n + 1)
      BY <1>1
    <3> QED
      BY <1>2, <1>3, <3>1 DEF Rango
  <2> QED
    BY <2>1, <2>2, <2>3
<1>5. ASSUME Unico(q), \A u \in Rango(q) : IdDe(u) # IdDe(t) PROVE Unico(a)
  <2>1. \A i \in 1..n : IdDe(q[i]) # IdDe(t)
    BY <1>1, <1>5 DEF Rango
  <2> SUFFICES ASSUME NEW i \in 1..(n + 1), NEW j \in 1..(n + 1), IdDe(a[i]) = IdDe(a[j])
               PROVE  i = j
    BY <1>3 DEF Unico
  <2>2. (i \in 1..n \/ i = n + 1) /\ (j \in 1..n \/ j = n + 1)
    BY <1>1
  <2> QED
    BY <1>1, <1>2, <1>5, <2>1, <2>2 DEF Unico
<1> QED
  BY <1>2, <1>4, <1>5 DEF a

\* A thread that is in a queue once is found there.
LEMMA BuscarUno ==
  ASSUME NEW q \in Seq(TCBs), Unico(q), NEW t \in Rango(q)
  PROVE  /\ EstaEn(q, IdDe(t)) /\ Buscar(q, IdDe(t)) = t
         /\ Posicion(q, IdDe(t)) \in 1..Len(q) /\ q[Posicion(q, IdDe(t))] = t
<1>1. PICK p \in DOMAIN q : q[p] = t
  BY DEF Rango
<1>2. Posicion(q, IdDe(t)) = p
  BY <1>1 DEF Posicion, Unico
<1> QED
  BY <1>1, <1>2, Indices DEF EstaEn, Buscar

\* To be in a queue is to have one's id there.
LEMMA EstaEnRango ==
  ASSUME NEW q, NEW id
  PROVE  EstaEn(q, id) <=> id \in IdsDe(Rango(q))
  BY DEF EstaEn, IdsDe, Rango

\* A queue of one thread.
LEMMA Uno ==
  ASSUME NEW t \in TCBs
  PROVE  /\ <<t>> \in Seq(TCBs) /\ Unico(<<t>>) /\ Rango(<<t>>) = {t}
         /\ eliminarHiloCola(<<t>>, IdDe(t)) = <<>>
<1>1. <<t>> \in Seq(TCBs) /\ Len(<<t>>) = 1 /\ <<t>>[1] = t /\ DOMAIN <<t>> = {1}
  OBVIOUS
<1>2. Unico(<<t>>) /\ Rango(<<t>>) = {t}
  BY <1>1 DEF Unico, Rango
<1>3. /\ eliminarHiloCola(<<t>>, IdDe(t)) \in Seq(TCBs)
      /\ Rango(eliminarHiloCola(<<t>>, IdDe(t))) = {}
  <2> DEFINE q == <<t>>
  <2>1. q \in Seq(TCBs) /\ Unico(q) /\ t \in Rango(q) /\ Rango(q) \ {t} = {}
    BY <1>1, <1>2
  <2> HIDE DEF q
  <2>2. /\ eliminarHiloCola(q, IdDe(t)) \in Seq(TCBs)
        /\ Rango(eliminarHiloCola(q, IdDe(t))) = {}
    BY <2>1, Quitar
  <2> QED
    BY <2>2 DEF q
<1> QED
  BY <1>1, <1>2, <1>3, Indices

\* The empty queue.
LEMMA Vacia ==
  <<>> \in Seq(TCBs) /\ Unico(<<>>) /\ Rango(<<>>) = {} /\ Len(<<>>) = 0
  BY EmptySeq DEF Unico, Rango

-----------------------------------------------------------------------------
(* The places of threads *)

Listos == Rango(colaReadyHilo)
EnCpu == Rango(colaExecHilo)
Bloqueados == Rango(colaBlockHilo)

\* The threads of which a goroutine or a dump holds a copy: they sleep, in
\* block, or they are on their way to ready.
Dormidos == {e.tcb : e \in {f \in esperas : f.paso # "encolar"}}
Despiertos == {e.tcb : e \in {f \in esperas : f.paso = "encolar"}}

Vivos == Listos \cup EnCpu \cup Bloqueados \cup Despiertos

Apartados ==
  /\ Listos \cap EnCpu = {} /\ Listos \cap Bloqueados = {} /\ Listos \cap Despiertos = {}
  /\ EnCpu \cap Bloqueados = {} /\ EnCpu \cap Despiertos = {}
  /\ Bloqueados \cap Despiertos = {}

\* Each thread that was created is in one place, once, or has ended.  A second
\* exitHilo of a thread that is gone puts NingunHilo among those that ended.
Lugares ==
  /\ Unico(colaReadyHilo) /\ Unico(colaExecHilo) /\ Unico(colaBlockHilo)
  /\ Apartados
  /\ Distintos(Vivos)
  /\ \A t \in Vivos : IdDe(t) \notin colaExitHilo
  /\ IdsDe(Vivos) \cup (colaExitHilo \ {NingunHilo}) = Creados
  /\ Dormidos \subseteq Bloqueados
  /\ \A e, f \in esperas : e.tcb = f.tcb => e = f

\* The places hold TCBs.
LEMMA TipoLugares ==
  ASSUME TypeOK
  PROVE  /\ colaReadyHilo \in Seq(TCBs) /\ colaExecHilo \in Seq(TCBs)
         /\ colaBlockHilo \in Seq(TCBs)
         /\ Listos \subseteq TCBs /\ EnCpu \subseteq TCBs /\ Bloqueados \subseteq TCBs
         /\ Despiertos \subseteq TCBs /\ Dormidos \subseteq TCBs /\ Vivos \subseteq TCBs
<1>1. /\ colaReadyHilo \in Seq(TCBs) /\ colaExecHilo \in Seq(TCBs)
      /\ colaBlockHilo \in Seq(TCBs) /\ esperas \subseteq Esperas
  BY DEF TypeOK, TipoColas
<1>2. \A e \in esperas : e.tcb \in TCBs
  BY <1>1 DEF Esperas
<1>3. Listos \subseteq TCBs /\ EnCpu \subseteq TCBs /\ Bloqueados \subseteq TCBs
  BY <1>1, Indices DEF Listos, EnCpu, Bloqueados
<1> QED
  BY <1>1, <1>2, <1>3 DEF Despiertos, Dormidos, Vivos

\* An id that was created is that of a process that has started.
LEMMA CreadosTipo ==
  ASSUME TypeOK, NEW id \in Creados
  PROVE  id \in Ids /\ id # NingunHilo /\ id[1] \in 1..Len(nextTid)
<1>1. nextTid \in Seq(Nat)
  BY DEF TypeOK, TipoProcesos
<1>2. PICK p \in 1..Len(nextTid) : id \in {p} \X (0..(nextTid[p] - 1))
  BY DEF Creados, Pids
<1>3. Len(nextTid) \in Nat /\ nextTid[p] \in Nat
  BY <1>1, LenProperties, ElementOfSeq
<1> QED
  BY <1>2, <1>3 DEF Ids, NingunHilo

\* getTCB (utils.go:554) finds a thread that is in a queue, whichever it is in.
LEMMA getTCBVivo ==
  ASSUME TypeOK, Lugares, NEW t \in Listos \cup EnCpu \cup Bloqueados
  PROVE  getTCB(IdDe(t)) = t
<1> DEFINE id == IdDe(t)
<1>1. \A u \in Listos \cup EnCpu \cup Bloqueados : IdDe(u) = id => u = t
  BY DEF Lugares, Distintos, Vivos
<1>2. /\ EstaEn(colaReadyHilo, id) <=> t \in Listos
      /\ EstaEn(colaExecHilo, id) <=> t \in EnCpu
      /\ EstaEn(colaBlockHilo, id) <=> t \in Bloqueados
  BY <1>1, EstaEnRango DEF IdsDe, Listos, EnCpu, Bloqueados
<1>3. t \in Listos => Buscar(colaReadyHilo, id) = t
  BY TipoLugares, BuscarUno DEF Lugares, Listos
<1>4. t \in EnCpu => Buscar(colaExecHilo, id) = t
  BY TipoLugares, BuscarUno DEF Lugares, EnCpu
<1>5. t \in Bloqueados => Buscar(colaBlockHilo, id) = t
  BY TipoLugares, BuscarUno DEF Lugares, Bloqueados
<1> QED
  BY <1>2, <1>3, <1>4, <1>5 DEF getTCB

\* ... and returns TCB{} for any other.
LEMMA getTCBNada ==
  ASSUME NEW id, id \notin IdsDe(Listos \cup EnCpu \cup Bloqueados)
  PROVE  getTCB(id) = TCBNulo
<1>1. /\ ~EstaEn(colaReadyHilo, id) /\ ~EstaEn(colaExecHilo, id)
      /\ ~EstaEn(colaBlockHilo, id)
  BY EstaEnRango DEF IdsDe, Listos, EnCpu, Bloqueados
<1> QED
  BY <1>1 DEF getTCB

\* The CPU runs the only thread of exec.
Corre == Len(colaExecHilo) = 1 /\ IdDe(colaExecHilo[1]) = hilo

\* What is known of that thread.
LEMMA ElActual ==
  ASSUME TypeOK, Lugares, Corre
  PROVE  \E a \in TCBs :
           /\ colaExecHilo = <<a>> /\ EnCpu = {a} /\ IdDe(a) = hilo
           /\ getTCB(hilo) = a /\ a.Pid = hilo[1] /\ a.Tid = hilo[2]
           /\ eliminarHiloCola(colaExecHilo, hilo) = <<>>
           /\ hilo \in Creados
<1>1. colaExecHilo \in Seq(TCBs)
  BY TipoLugares
<1>2. PICK a \in TCBs : colaExecHilo = <<a>>
  <2>1. colaExecHilo[1] \in TCBs
    BY <1>1, ElementOfSeq DEF Corre
  <2>2. colaExecHilo = <<colaExecHilo[1]>>
    BY <1>1 DEF Corre
  <2> QED
    BY <2>1, <2>2
<1>3. EnCpu = {a} /\ eliminarHiloCola(colaExecHilo, IdDe(a)) = <<>>
  BY <1>2, Uno DEF EnCpu
<1>4. IdDe(a) = hilo
  BY <1>2 DEF Corre
<1>5. getTCB(IdDe(a)) = a
  BY <1>3, getTCBVivo
<1>6. hilo \in Creados
  BY <1>3, <1>4 DEF Lugares, Vivos, IdsDe
<1>7. a.Pid = hilo[1] /\ a.Tid = hilo[2]
  BY <1>4 DEF IdDe
<1> QED
  BY <1>2, <1>3, <1>4, <1>5, <1>6, <1>7

-----------------------------------------------------------------------------
(* How threads move *)

SinMover == UNCHANGED <<colas, esperas, colaExitHilo, nextTid>>

\* Nobody moves.
LEMMA LugaresIgual ==
  ASSUME Lugares, SinMover
  PROVE  /\ Lugares'
         /\ UNCHANGED <<Listos, EnCpu, Bloqueados, Dormidos, Despiertos, Vivos>>
<1>1. UNCHANGED <<Listos, EnCpu, Bloqueados, Dormidos, Despiertos, Vivos>>
  BY DEF SinMover, colas, Listos, EnCpu, Bloqueados, Dormidos, Despiertos, Vivos
<1> QED
  BY <1>1 DEF Lugares, SinMover, colas, Unico, Apartados, Distintos, IdsDe, Creados, Pids

\* From ready to exec.
LEMMA EfectoDespachar ==
  ASSUME TypeOK, Lugares, NEW t \in Listos, colaExecHilo = <<>>,
         colaExecHilo' = <<t>>, colaReadyHilo' = eliminarHiloCola(colaReadyHilo, IdDe(t)),
         UNCHANGED <<colaBlockHilo, esperas, colaExitHilo, nextTid>>
  PROVE  /\ Lugares' /\ UNCHANGED <<Bloqueados, Dormidos, Despiertos, Vivos>>
         /\ Listos' = Listos \ {t} /\ EnCpu' = {t}
<1>1. t \in TCBs /\ colaReadyHilo \in Seq(TCBs) /\ Unico(colaReadyHilo) /\ EnCpu = {}
  BY TipoLugares, Vacia DEF Lugares, EnCpu
<1>2. EnCpu' = {t} /\ Unico(colaExecHilo')
  BY <1>1, Uno DEF EnCpu
<1>3. Listos' = Listos \ {t} /\ Unico(colaReadyHilo')
  BY <1>1, Quitar DEF Listos
<1>4. UNCHANGED <<Bloqueados, Dormidos, Despiertos>>
  BY DEF Bloqueados, Dormidos, Despiertos
<1>5. Vivos' = Vivos
  BY <1>1, <1>2, <1>3, <1>4 DEF Vivos
<1>6. Apartados'
  BY <1>1, <1>2, <1>3, <1>4 DEF Apartados, Lugares
<1>7. Creados' = Creados
  BY DEF Creados, Pids
<1> QED
  BY <1>2, <1>3, <1>4, <1>5, <1>6, <1>7 DEF Lugares, Distintos, IdsDe, Unico

\* From exec to ready.
LEMMA EfectoDesalojar ==
  ASSUME TypeOK, Lugares, NEW a \in TCBs, colaExecHilo = <<a>>,
         colaExecHilo' = <<>>, colaReadyHilo' = Append(colaReadyHilo, a),
         UNCHANGED <<colaBlockHilo, esperas, colaExitHilo, nextTid>>
  PROVE  /\ Lugares' /\ UNCHANGED <<Bloqueados, Dormidos, Despiertos, Vivos>>
         /\ Listos' = Listos \cup {a} /\ EnCpu' = {}
<1>1. colaReadyHilo \in Seq(TCBs) /\ Unico(colaReadyHilo) /\ EnCpu = {a}
  BY TipoLugares, Uno DEF Lugares, EnCpu
<1>2. EnCpu' = {} /\ Unico(colaExecHilo')
  BY Vacia DEF EnCpu
<1>3. \A u \in Listos : IdDe(u) # IdDe(a)
  BY <1>1 DEF Lugares, Apartados, Distintos, Vivos
<1>4. Listos' = Listos \cup {a} /\ Unico(colaReadyHilo')
  BY <1>1, <1>3, Agregar DEF Listos
<1>5. UNCHANGED <<Bloqueados, Dormidos, Despiertos>>
  BY DEF Bloqueados, Dormidos, Despiertos
<1>6. Vivos' = Vivos
  BY <1>1, <1>2, <1>4, <1>5 DEF Vivos
<1>7. Apartados'
  BY <1>1, <1>2, <1>4, <1>5 DEF Apartados, Lugares
<1>8. Creados' = Creados
  BY DEF Creados, Pids
<1> QED
  BY <1>2, <1>4, <1>5, <1>6, <1>7, <1>8 DEF Lugares, Distintos, IdsDe, Unico

\* From exec to block, with a goroutine or a dump that holds the thread or not.
LEMMA EfectoBloquear ==
  ASSUME TypeOK, Lugares, NEW a \in TCBs, colaExecHilo = <<a>>,
         colaExecHilo' = <<>>, colaBlockHilo' = Append(colaBlockHilo, a),
         NEW duerme \in BOOLEAN, NEW paso, paso # "encolar",
         esperas' = IF duerme THEN esperas \cup {[tcb |-> a, paso |-> paso]} ELSE esperas,
         UNCHANGED <<colaReadyHilo, colaExitHilo, nextTid>>
  PROVE  /\ Lugares' /\ UNCHANGED <<Listos, Despiertos, Vivos>>
         /\ Bloqueados' = Bloqueados \cup {a} /\ EnCpu' = {}
         /\ Dormidos' = Dormidos \cup (IF duerme THEN {a} ELSE {})
         /\ a \notin Bloqueados
<1> DEFINE f == [tcb |-> a, paso |-> paso]
<1>0. f.tcb = a /\ f.paso # "encolar" /\ esperas' = IF duerme THEN esperas \cup {f} ELSE esperas
  OBVIOUS
<1> HIDE DEF f
<1>1. colaBlockHilo \in Seq(TCBs) /\ Unico(colaBlockHilo) /\ EnCpu = {a}
  BY TipoLugares, Uno DEF Lugares, EnCpu
<1>2. EnCpu' = {} /\ Unico(colaExecHilo')
  BY Vacia DEF EnCpu
<1>3. \A u \in Bloqueados : IdDe(u) # IdDe(a)
  BY <1>1 DEF Lugares, Apartados, Distintos, Vivos
<1>4. Bloqueados' = Bloqueados \cup {a} /\ Unico(colaBlockHilo')
  BY <1>1, <1>3, Agregar DEF Bloqueados
<1>5. Listos' = Listos
  BY DEF Listos
<1>6. Despiertos' = Despiertos /\ Dormidos' = Dormidos \cup (IF duerme THEN {a} ELSE {})
  BY <1>0 DEF Dormidos, Despiertos
<1>7. Vivos' = Vivos
  BY <1>1, <1>2, <1>4, <1>5, <1>6 DEF Vivos
<1>8. Apartados'
  BY <1>1, <1>2, <1>4, <1>5, <1>6 DEF Apartados, Lugares
<1>9. Creados' = Creados
  BY DEF Creados, Pids
<1>10. Dormidos' \subseteq Bloqueados'
  BY <1>4, <1>6 DEF Lugares
<1>11. ASSUME NEW e \in esperas', NEW g \in esperas', e.tcb = g.tcb PROVE e = g
  <2>1. \A h \in esperas : h.tcb # a
    BY <1>1, <1>3 DEF Lugares, Apartados, Dormidos, Despiertos
  <2> QED
    BY <1>0, <1>11, <2>1 DEF Lugares
<1> QED
  BY <1>2, <1>4, <1>5, <1>6, <1>7, <1>8, <1>9, <1>10, <1>11, <1>3
     DEF Lugares, Distintos, IdsDe, Unico

\* From block to ready: a thread that does not sleep, or whose dump is done.
LEMMA EfectoDespertar ==
  ASSUME TypeOK, Lugares, NEW t \in Bloqueados,
         colaBlockHilo' = eliminarHiloCola(colaBlockHilo, IdDe(t)),
         colaReadyHilo' = Append(colaReadyHilo, t),
         NEW idas \in SUBSET esperas, esperas' = esperas \ idas,
         \A e \in idas : e.tcb = t, t \in Dormidos => idas # {},
         UNCHANGED <<colaExecHilo, colaExitHilo, nextTid>>
  PROVE  /\ Lugares' /\ UNCHANGED <<EnCpu, Despiertos, Vivos>>
         /\ Bloqueados' = Bloqueados \ {t} /\ Listos' = Listos \cup {t}
         /\ Dormidos' = Dormidos \ {t}
<1>1. /\ t \in TCBs /\ colaReadyHilo \in Seq(TCBs) /\ Unico(colaReadyHilo)
      /\ colaBlockHilo \in Seq(TCBs) /\ Unico(colaBlockHilo)
  BY TipoLugares DEF Lugares
<1>2. Bloqueados' = Bloqueados \ {t} /\ Unico(colaBlockHilo')
  BY <1>1, Quitar DEF Bloqueados
<1>3. \A u \in Listos : IdDe(u) # IdDe(t)
  BY DEF Lugares, Apartados, Distintos, Vivos
<1>4. Listos' = Listos \cup {t} /\ Unico(colaReadyHilo')
  BY <1>1, <1>3, Agregar DEF Listos
<1>5. EnCpu' = EnCpu
  BY DEF EnCpu
<1>6. Despiertos' = Despiertos
  BY DEF Despiertos, Lugares, Apartados
<1>7. Dormidos' = Dormidos \ {t}
  BY DEF Dormidos, Lugares
<1>8. Vivos' = Vivos
  BY <1>2, <1>4, <1>5, <1>6 DEF Vivos
<1>9. Apartados'
  BY <1>2, <1>4, <1>5, <1>6 DEF Apartados, Lugares
<1>10. Creados' = Creados
  BY DEF Creados, Pids
<1> QED
  BY <1>2, <1>4, <1>5, <1>6, <1>7, <1>8, <1>9, <1>10 DEF Lugares, Distintos, IdsDe, Unico

\* Out of block: the goroutine of an IO took the thread, and is to put it in ready.
LEMMA EfectoTerminaIo ==
  ASSUME TypeOK, Lugares, NEW e \in esperas, e.paso = "durmiendo",
         colaBlockHilo' = eliminarHiloCola(colaBlockHilo, IdDe(e.tcb)),
         esperas' = (esperas \ {e}) \cup {[e EXCEPT !.paso = "encolar"]},
         UNCHANGED <<colaReadyHilo, colaExecHilo, colaExitHilo, nextTid>>
  PROVE  /\ Lugares' /\ UNCHANGED <<Listos, EnCpu, Vivos>>
         /\ e.tcb \in Bloqueados
         /\ Bloqueados' = Bloqueados \ {e.tcb} /\ Dormidos' = Dormidos \ {e.tcb}
         /\ Despiertos' = Despiertos \cup {e.tcb}
<1> DEFINE t == e.tcb
           f == [e EXCEPT !.paso = "encolar"]
<1>1. f.tcb = t /\ f.paso = "encolar" /\ t \in Dormidos /\ t \in Bloqueados
  BY DEF Lugares, Dormidos, TypeOK, Esperas
<1> HIDE DEF f
<1>2. t \in TCBs /\ colaBlockHilo \in Seq(TCBs) /\ Unico(colaBlockHilo)
  BY <1>1, TipoLugares DEF Lugares
<1>3. Bloqueados' = Bloqueados \ {t} /\ Unico(colaBlockHilo')
  BY <1>1, <1>2, Quitar DEF Bloqueados
<1>4. Listos' = Listos /\ EnCpu' = EnCpu
  BY DEF Listos, EnCpu
<1>5. \A g \in esperas : g.tcb = t => g = e
  BY DEF Lugares
<1>6. esperas' = (esperas \ {e}) \cup {f}
  BY DEF f
<1>7. Dormidos' = Dormidos \ {t}
  BY <1>1, <1>5, <1>6 DEF Dormidos
<1>8. Despiertos' = Despiertos \cup {t}
  BY <1>1, <1>5, <1>6 DEF Despiertos
<1>9. Vivos' = Vivos
  BY <1>1, <1>3, <1>4, <1>8 DEF Vivos
<1>10. Apartados'
  BY <1>1, <1>3, <1>4, <1>8 DEF Apartados, Lugares
<1>11. Creados' = Creados
  BY DEF Creados, Pids
<1>12. \A g, h \in esperas' : g.tcb = h.tcb => g = h
  BY <1>1, <1>5, <1>6 DEF Lugares
<1>13. Dormidos' \subseteq Bloqueados'
  BY <1>3, <1>7 DEF Lugares
<1> QED
  BY <1>1, <1>3, <1>4, <1>7, <1>8, <1>9, <1>10, <1>11, <1>12, <1>13
     DEF Lugares, Distintos, IdsDe, Unico

\* ... and puts it there.
LEMMA EfectoEncolaIo ==
  ASSUME TypeOK, Lugares, NEW e \in esperas, e.paso = "encolar",
         colaReadyHilo' = Append(colaReadyHilo, e.tcb), esperas' = esperas \ {e},
         UNCHANGED <<colaExecHilo, colaBlockHilo, colaExitHilo, nextTid>>
  PROVE  /\ Lugares' /\ UNCHANGED <<EnCpu, Bloqueados, Dormidos, Vivos>>
         /\ e.tcb \in Despiertos
         /\ Listos' = Listos \cup {e.tcb} /\ Despiertos' = Despiertos \ {e.tcb}
<1> DEFINE t == e.tcb
<1>1. t \in Despiertos
  BY DEF Despiertos
<1>2. t \in TCBs /\ colaReadyHilo \in Seq(TCBs) /\ Unico(colaReadyHilo)
  BY <1>1, TipoLugares DEF Lugares
<1>3. \A u \in Listos : IdDe(u) # IdDe(t)
  BY <1>1 DEF Lugares, Apartados, Distintos, Vivos
<1>4. Listos' = Listos \cup {t} /\ Unico(colaReadyHilo')
  BY <1>2, <1>3, Agregar DEF Listos
<1>5. UNCHANGED <<EnCpu, Bloqueados>>
  BY DEF EnCpu, Bloqueados
<1>6. \A g \in esperas : g.tcb = t => g = e
  BY DEF Lugares
<1>7. Dormidos' = Dormidos
  BY <1>6 DEF Dormidos
<1>8. Despiertos' = Despiertos \ {t}
  BY <1>6 DEF Despiertos
<1>9. Vivos' = Vivos
  BY <1>1, <1>4, <1>5, <1>8 DEF Vivos
<1>10. Apartados'
  BY <1>1, <1>4, <1>5, <1>8 DEF Apartados, Lugares
<1>11. Creados' = Creados
  BY DEF Creados, Pids
<1> QED
  BY <1>1, <1>4, <1>5, <1>7, <1>8, <1>9, <1>10, <1>11 DEF Lugares, Distintos, IdsDe, Unico

\* What the first part of exitHilo (utils.go:710) makes of a thread that is in
\* a queue and of which no goroutine holds a copy: it leaves that queue.
LEMMA EfectoSalir ==
  ASSUME TypeOK, Lugares, NEW t \in Listos \cup EnCpu \cup Bloqueados, t \notin Dormidos,
         NEW pid, NEW tid, IdDe(t) = <<pid, tid>>, NEW luego, exitHilo(pid, tid, luego),
         UNCHANGED <<esperas, nextTid>>
  PROVE  /\ Lugares' /\ UNCHANGED <<Dormidos, Despiertos>>
         /\ Listos' = Listos \ {t} /\ EnCpu' = EnCpu \ {t} /\ Bloqueados' = Bloqueados \ {t}
         /\ Vivos' = Vivos \ {t} /\ colaExitHilo' = colaExitHilo \cup {IdDe(t)}
         /\ saliendo' = [pid |-> pid, hilo |-> t, faltan |-> t.HilosBloqueados, luego |-> luego]
         /\ colaReadyHilo' = IF t \in Listos THEN eliminarHiloCola(colaReadyHilo, IdDe(t))
                             ELSE colaReadyHilo
         /\ colaExecHilo' = IF t \in EnCpu THEN eliminarHiloCola(colaExecHilo, IdDe(t))
                            ELSE colaExecHilo
         /\ colaBlockHilo' = IF t \in Bloqueados THEN eliminarHiloCola(colaBlockHilo, IdDe(t))
                             ELSE colaBlockHilo
<1> DEFINE id == IdDe(t)
<1>1. getTCB(<<pid, tid>>) = t
  BY getTCBVivo
<1>2. /\ t \in TCBs /\ colaReadyHilo \in Seq(TCBs) /\ colaExecHilo \in Seq(TCBs)
      /\ colaBlockHilo \in Seq(TCBs)
      /\ Unico(colaReadyHilo) /\ Unico(colaExecHilo) /\ Unico(colaBlockHilo)
  BY TipoLugares DEF Lugares
<1>3. \A u \in Vivos : IdDe(u) = id => u = t
  BY DEF Lugares, Distintos, Vivos
<1>4. /\ EstaEn(colaReadyHilo, id) <=> t \in Listos
      /\ EstaEn(colaExecHilo, id) <=> t \in EnCpu
      /\ EstaEn(colaBlockHilo, id) <=> t \in Bloqueados
  BY <1>3, EstaEnRango DEF IdsDe, Listos, EnCpu, Bloqueados, Vivos
<1>5. Apartados
  BY DEF Lugares
<1>6. /\ colaReadyHilo' = IF t \in Listos THEN eliminarHiloCola(colaReadyHilo, id)
                          ELSE colaReadyHilo
      /\ colaExecHilo' = IF t \in EnCpu THEN eliminarHiloCola(colaExecHilo, id)
                         ELSE colaExecHilo
      /\ colaBlockHilo' = IF t \in Bloqueados THEN eliminarHiloCola(colaBlockHilo, id)
                          ELSE colaBlockHilo
      /\ colaExitHilo' = colaExitHilo \cup {id}
      /\ saliendo' = [pid |-> pid, hilo |-> t, faltan |-> t.HilosBloqueados, luego |-> luego]
  BY <1>1, <1>4, <1>5 DEF exitHilo, exitHiloDe, Apartados
<1>7. Listos' = Listos \ {t} /\ Unico(colaReadyHilo')
  BY <1>2, <1>6, QuitarSi DEF Listos
<1>8. EnCpu' = EnCpu \ {t} /\ Unico(colaExecHilo')
  BY <1>2, <1>6, QuitarSi DEF EnCpu
<1>9. Bloqueados' = Bloqueados \ {t} /\ Unico(colaBlockHilo')
  BY <1>2, <1>6, QuitarSi DEF Bloqueados
<1>10. UNCHANGED <<Dormidos, Despiertos>>
  BY DEF Dormidos, Despiertos
<1>11. t \notin Despiertos
  BY <1>5 DEF Apartados
<1>12. Vivos' = Vivos \ {t}
  BY <1>7, <1>8, <1>9, <1>10, <1>11 DEF Vivos
<1>13. Apartados'
  BY <1>5, <1>7, <1>8, <1>9, <1>10 DEF Apartados
<1>14. Creados' = Creados
  BY DEF Creados, Pids
<1>15. t \in Vivos /\ id \in Creados
  BY DEF Vivos, Lugares, IdsDe
<1>16. id # NingunHilo
  BY <1>15, CreadosTipo
<1>17. IdsDe(Vivos') = IdsDe(Vivos) \ {id}
  BY <1>3, <1>12, <1>15 DEF IdsDe
<1>18. IdsDe(Vivos') \cup (colaExitHilo' \ {NingunHilo}) = Creados'
  BY <1>6, <1>14, <1>15, <1>16, <1>17 DEF Lugares
<1>19. Dormidos' \subseteq Bloqueados'
  BY <1>9, <1>10 DEF Lugares
<1>20. Distintos(Vivos)' /\ \A u \in Vivos' : IdDe(u) \notin colaExitHilo'
  BY <1>3, <1>6, <1>12 DEF Lugares, Distintos
<1> QED
  BY <1>6, <1>7, <1>8, <1>9, <1>10, <1>12, <1>13, <1>18, <1>19, <1>20 DEF Lugares

\* The ids given when the next tids are those of the sequence.
CreadosDe(tids) == {id \in Ids : id[1] \in 1..Len(tids) /\ id[2] < tids[id[1]]}

\* Creados, in terms of nextTid.
LEMMA CreadosForma ==
  ASSUME nextTid \in Seq(Nat)
  PROVE  Creados = CreadosDe(nextTid)
<1>1. Len(nextTid) \in Nat /\ \A p \in 1..Len(nextTid) : nextTid[p] \in Nat
  BY LenProperties, ElementOfSeq
<1>2. ASSUME NEW id \in Creados PROVE id \in CreadosDe(nextTid)
  <2>1. PICK p \in 1..Len(nextTid) : id \in {p} \X (0..(nextTid[p] - 1))
    BY DEF Creados, Pids
  <2> QED
    BY <1>1, <2>1 DEF CreadosDe, Ids
<1>3. ASSUME NEW id \in CreadosDe(nextTid) PROVE id \in Creados
  <2>1. /\ id = <<id[1], id[2]>> /\ id[1] \in 1..Len(nextTid) /\ id[2] \in Nat
        /\ id[2] < nextTid[id[1]]
    BY DEF CreadosDe, Ids
  <2>2. id[2] \in 0..(nextTid[id[1]] - 1)
    BY <1>1, <2>1
  <2> QED
    BY <2>1, <2>2 DEF Creados, Pids
<1> QED
  BY <1>2, <1>3

\* createTCB (utils.go:540) gives an id that no thread had.
LEMMA CreadosCrece ==
  ASSUME nextTid \in Seq(Nat), NEW tids \in Seq(Nat),
         tids = nextTid \/ tids = Append(nextTid, 0),
         NEW pid \in 1..Len(tids), nextTid' = [tids EXCEPT ![pid] = tids[pid] + 1]
  PROVE  /\ Creados' = Creados \cup {<<pid, tids[pid]>>}
         /\ <<pid, tids[pid]>> \notin Creados
<1>1. Len(nextTid) \in Nat /\ Len(tids) \in Nat /\ \A p \in 1..Len(tids) : tids[p] \in Nat
  BY LenProperties, ElementOfSeq
<1>2. CreadosDe(tids) = CreadosDe(nextTid)
  <2>1. CASE tids = nextTid
    BY <2>1
  <2>2. CASE tids = Append(nextTid, 0)
    <3>1. /\ Len(tids) = Len(nextTid) + 1 /\ tids[Len(nextTid) + 1] = 0
          /\ \A p \in 1..Len(nextTid) : tids[p] = nextTid[p]
      BY <2>2, AppendProperties
    <3>2. ASSUME NEW id \in Ids
          PROVE  (id[1] \in 1..Len(tids) /\ id[2] < tids[id[1]])
                   <=> (id[1] \in 1..Len(nextTid) /\ id[2] < nextTid[id[1]])
      <4>1. id[1] \in Nat /\ id[2] \in Nat
        BY DEF Ids
      <4>2. id[1] \in 1..Len(tids) <=> id[1] \in 1..Len(nextTid) \/ id[1] = Len(nextTid) + 1
        BY <1>1, <3>1, <4>1
      <4>3. CASE id[1] = Len(nextTid) + 1
        <5>1. ~(id[2] < tids[id[1]]) /\ id[1] \notin 1..Len(nextTid)
          BY <1>1, <3>1, <4>1, <4>3
        <5> QED
          BY <5>1
      <4>4. CASE id[1] # Len(nextTid) + 1
        BY <3>1, <4>2, <4>4
      <4> QED
        BY <4>3, <4>4
    <3> QED
      BY <3>2 DEF CreadosDe
  <2> QED
    BY <2>1, <2>2
<1>3. nextTid' \in Seq(Nat) /\ Len(nextTid') = Len(tids)
  <2>1. tids[pid] + 1 \in Nat
    BY <1>1
  <2> QED
    BY <2>1, ExceptSeq
<1>4. Creados' = CreadosDe(nextTid')
  <2>1. Len(nextTid') \in Nat /\ \A p \in 1..Len(nextTid') : nextTid'[p] \in Nat
    BY <1>3, LenProperties, ElementOfSeq, Zenon
  <2>2. ASSUME NEW id \in Creados' PROVE id \in CreadosDe(nextTid')
    <3>1. PICK p \in 1..Len(nextTid') : id \in {p} \X (0..(nextTid'[p] - 1))
      BY DEF Creados, Pids
    <3>2. nextTid'[p] \in Nat /\ p \in Nat
      BY <2>1
    <3>3. id = <<id[1], id[2]>> /\ id[1] = p /\ id[2] \in 0..(nextTid'[p] - 1)
      BY <3>1
    <3>4. id[2] \in Nat /\ id[2] < nextTid'[p]
      BY <3>2, <3>3
    <3>5. id \in Ids
      BY <3>2, <3>3, <3>4 DEF Ids
    <3> QED
      BY <3>3, <3>4, <3>5 DEF CreadosDe
  <2>3. ASSUME NEW id \in CreadosDe(nextTid') PROVE id \in Creados'
    <3>1. /\ id = <<id[1], id[2]>> /\ id[1] \in 1..Len(nextTid') /\ id[2] \in Nat
          /\ id[2] < nextTid'[id[1]]
      BY DEF CreadosDe, Ids
    <3>2. id[2] \in 0..(nextTid'[id[1]] - 1)
      BY <2>1, <3>1
    <3> QED
      BY <3>1, <3>2 DEF Creados, Pids
  <2> QED
    BY <2>2, <2>3, Zenon
<1>5. \A p \in 1..Len(tids) : nextTid'[p] = IF p = pid THEN tids[pid] + 1 ELSE tids[p]
  BY <1>1
<1>6. <<pid, tids[pid]>> \in Ids /\ <<pid, tids[pid]>> \notin CreadosDe(tids)
  BY <1>1 DEF CreadosDe, Ids
<1>7. ASSUME NEW id \in Ids
      PROVE  id \in CreadosDe(nextTid') <=> id \in CreadosDe(tids) \cup {<<pid, tids[pid]>>}
  <2>1. id[1] \in Nat /\ id[2] \in Nat /\ id = <<id[1], id[2]>>
    BY DEF Ids
  <2>2. /\ id \in CreadosDe(nextTid') <=> id[1] \in 1..Len(tids) /\ id[2] < nextTid'[id[1]]
        /\ id \in CreadosDe(tids) <=> id[1] \in 1..Len(tids) /\ id[2] < tids[id[1]]
    BY <1>3, Zenon DEF CreadosDe
  <2>3. CASE id[1] = pid
    <3>1. id[2] < tids[pid] + 1 <=> id[2] < tids[pid] \/ id[2] = tids[pid]
      BY <1>1, <2>1
    <3>2. nextTid'[id[1]] = tids[pid] + 1
      BY <1>5, <2>3
    <3>3. id = <<pid, tids[pid]>> <=> id[2] = tids[pid]
      BY <2>1, <2>3
    <3> QED
      BY <2>2, <2>3, <3>1, <3>2, <3>3
  <2>4. CASE id[1] # pid
    <3>1. id # <<pid, tids[pid]>>
      BY <2>1, <2>4
    <3> QED
      BY <1>5, <2>2, <2>4, <3>1
  <2> QED
    BY <2>3, <2>4
<1>8. CreadosDe(nextTid') \subseteq Ids /\ CreadosDe(tids) \subseteq Ids
  BY DEF CreadosDe
<1>9. CreadosDe(nextTid') = CreadosDe(tids) \cup {<<pid, tids[pid]>>}
  BY <1>6, <1>7, <1>8
<1> QED
  BY <1>2, <1>4, <1>6, <1>9, CreadosForma

\* A new thread enters ready.
LEMMA EfectoCrear ==
  ASSUME TypeOK, Lugares, NEW t \in TCBs, IdDe(t) # NingunHilo, IdDe(t) \notin Creados,
         Creados' = Creados \cup {IdDe(t)}, colaReadyHilo' = Append(colaReadyHilo, t),
         UNCHANGED <<colaExecHilo, colaBlockHilo, esperas, colaExitHilo>>
  PROVE  /\ Lugares' /\ UNCHANGED <<EnCpu, Bloqueados, Dormidos, Despiertos>>
         /\ Listos' = Listos \cup {t} /\ Vivos' = Vivos \cup {t}
         /\ IdDe(t) \notin IdsDe(Vivos) /\ IdDe(t) \notin colaExitHilo
<1>1. IdDe(t) \notin IdsDe(Vivos) /\ IdDe(t) \notin colaExitHilo
  BY DEF Lugares
<1>2. \A u \in Vivos : IdDe(u) # IdDe(t)
  BY <1>1 DEF IdsDe
<1>3. colaReadyHilo \in Seq(TCBs) /\ Unico(colaReadyHilo)
  BY TipoLugares DEF Lugares
<1>4. Listos' = Listos \cup {t} /\ Unico(colaReadyHilo')
  <2>1. \A u \in Listos : IdDe(u) # IdDe(t)
    BY <1>2 DEF Vivos
  <2> QED
    BY <1>3, <2>1, Agregar DEF Listos
<1>5. UNCHANGED <<EnCpu, Bloqueados, Dormidos, Despiertos>>
  BY DEF EnCpu, Bloqueados, Dormidos, Despiertos
<1>6. Vivos' = Vivos \cup {t}
  BY <1>4, <1>5 DEF Vivos
<1>7. t \notin Vivos
  BY <1>2
<1>8. Apartados'
  BY <1>4, <1>5, <1>7 DEF Apartados, Lugares, Vivos
<1>9. IdsDe(Vivos') = IdsDe(Vivos) \cup {IdDe(t)}
  BY <1>6 DEF IdsDe
<1>10. IdsDe(Vivos') \cup (colaExitHilo' \ {NingunHilo}) = Creados'
  BY <1>9 DEF Lugares
<1>11. Distintos(Vivos)' /\ \A u \in Vivos' : IdDe(u) \notin colaExitHilo'
  BY <1>1, <1>2, <1>6 DEF Lugares, Distintos
<1>12. Unico(colaExecHilo') /\ Unico(colaBlockHilo') /\ Dormidos' \subseteq Bloqueados'
  BY <1>5 DEF Lugares
<1>13. \A e, f \in esperas' : e.tcb = f.tcb => e = f
  BY DEF Lugares
<1> QED
  BY <1>1, <1>4, <1>5, <1>6, <1>8, <1>10, <1>11, <1>12, <1>13 DEF Lugares

\* THREAD_JOIN (utils.go:694): the target u, in ready, is replaced there by a
\* TCB that differs in who waits for it, and the caller blocks.
LEMMA EfectoJoin ==
  ASSUME TypeOK, Lugares, NEW a \in TCBs, colaExecHilo = <<a>>, colaExecHilo' = <<>>,
         colaBlockHilo' = Append(colaBlockHilo, a), NEW k \in 1..Len(colaReadyHilo),
         NEW v \in TCBs, IdDe(v) = IdDe(colaReadyHilo[k]),
         colaReadyHilo' = [colaReadyHilo EXCEPT ![k] = v],
         UNCHANGED <<esperas, colaExitHilo, nextTid>>
  PROVE  /\ Lugares' /\ UNCHANGED <<Dormidos, Despiertos>>
         /\ colaReadyHilo[k] \in Listos
         /\ Listos' = (Listos \ {colaReadyHilo[k]}) \cup {v}
         /\ Vivos' = (Vivos \ {colaReadyHilo[k]}) \cup {v}
         /\ EnCpu = {a} /\ EnCpu' = {} /\ Bloqueados' = Bloqueados \cup {a} /\ a \notin Bloqueados
<1> DEFINE u == colaReadyHilo[k]
           n == Len(colaReadyHilo)
<1>1. /\ colaReadyHilo \in Seq(TCBs) /\ Unico(colaReadyHilo) /\ EnCpu = {a}
      /\ n \in Nat /\ DOMAIN colaReadyHilo = 1..n
  BY TipoLugares, Uno, Indices DEF Lugares, EnCpu
<1>2. /\ colaReadyHilo' \in Seq(TCBs) /\ DOMAIN colaReadyHilo' = 1..n
      /\ colaReadyHilo'[k] = v /\ \A i \in 1..n : i # k => colaReadyHilo'[i] = colaReadyHilo[i]
  BY <1>1, ExceptSeq
<1>3. u \in Listos
  BY <1>1 DEF Listos, Rango
<1>4. Listos' = (Listos \ {u}) \cup {v}
  <2>1. ASSUME NEW t \in Listos' PROVE t \in (Listos \ {u}) \cup {v}
    <3>1. PICK i \in 1..n : t = colaReadyHilo'[i]
      BY <1>2 DEF Listos, Rango
    <3>2. CASE i = k
      BY <1>2, <3>1, <3>2
    <3>3. CASE i # k
      <4>1. t = colaReadyHilo[i] /\ t # u
        BY <1>1, <1>2, <3>1, <3>3 DEF Unico
      <4> QED
        BY <1>1, <4>1 DEF Listos, Rango
    <3> QED
      BY <3>2, <3>3
  <2>2. ASSUME NEW t \in Listos, t # u PROVE t \in Listos'
    <3>1. PICK i \in 1..n : t = colaReadyHilo[i]
      BY <1>1 DEF Listos, Rango
    <3>2. i # k /\ t = colaReadyHilo'[i]
      BY <1>2, <2>2, <3>1
    <3> QED
      BY <1>2, <3>2 DEF Listos, Rango
  <2>3. v \in Listos'
    BY <1>2 DEF Listos, Rango
  <2> QED
    BY <2>1, <2>2, <2>3
<1>5. Unico(colaReadyHilo')
  <2>1. \A i \in 1..n : IdDe(colaReadyHilo'[i]) = IdDe(colaReadyHilo[i])
    BY <1>2
  <2> QED
    BY <1>1, <1>2, <2>1 DEF Unico
<1>6. EnCpu' = {} /\ Unico(colaExecHilo')
  BY Vacia DEF EnCpu
<1>7. \A t \in Bloqueados : IdDe(t) # IdDe(a)
  BY <1>1 DEF Lugares, Apartados, Distintos, Vivos
<1>8. Bloqueados' = Bloqueados \cup {a} /\ Unico(colaBlockHilo') /\ a \notin Bloqueados
  <2>1. colaBlockHilo \in Seq(TCBs) /\ Unico(colaBlockHilo)
    BY TipoLugares DEF Lugares
  <2> QED
    BY <1>7, <2>1, Agregar DEF Bloqueados
<1>9. UNCHANGED <<Dormidos, Despiertos>>
  BY DEF Dormidos, Despiertos
<1>10. u \in Vivos /\ \A t \in Vivos : IdDe(t) = IdDe(v) => t = u
  BY <1>3 DEF Lugares, Distintos, Vivos
<1>11. Vivos' = (Vivos \ {u}) \cup {v}
  BY <1>1, <1>3, <1>4, <1>6, <1>8, <1>9 DEF Vivos, Lugares, Apartados
<1>12. v \notin EnCpu \cup Bloqueados \cup Despiertos
  BY <1>3, <1>10 DEF Vivos, Lugares, Apartados
<1>13. Apartados'
  BY <1>1, <1>4, <1>6, <1>8, <1>9, <1>12 DEF Apartados, Lugares
<1>14. IdsDe(Vivos') = IdsDe(Vivos) /\ Distintos(Vivos)'
  BY <1>10, <1>11 DEF IdsDe, Distintos, Lugares
<1>15. \A t \in Vivos' : IdDe(t) \notin colaExitHilo'
  BY <1>10, <1>11 DEF Lugares
<1>16. Creados' = Creados
  BY DEF Creados, Pids
<1>17. Dormidos' \subseteq Bloqueados' /\ \A e, f \in esperas' : e.tcb = f.tcb => e = f
  BY <1>8, <1>9 DEF Lugares
<1>18. IdsDe(Vivos)' \cup (colaExitHilo' \ {NingunHilo}) = Creados'
  BY <1>14, <1>16 DEF Lugares
<1> QED
  BY <1>1, <1>3, <1>4, <1>5, <1>6, <1>8, <1>9, <1>11, <1>13, <1>14, <1>15, <1>17, <1>18
     DEF Lugares

-----------------------------------------------------------------------------
(* The invariant *)

\* The threads that wait for a mutex.
EnMutex ==
  {t \in TCBs : \E p \in DOMAIN colaProcesosInicializados :
                  \E j \in DOMAIN colaProcesosInicializados[p] :
                    t \in Rango(colaProcesosInicializados[p][j].colaBloqueados)}

\* exitProcess is running, and the thread is the one that caused it: it leaves
\* its queue only when the loops get there.
Condenado(t) == salida.fase # "nada" /\ IdDe(t) = hilo

\* The blocked threads that only the end of a thread that they joined wakes up.
EnJoin == {t \in Bloqueados : t \notin Dormidos /\ t \notin EnMutex /\ ~Condenado(t)}

\* The ids that a thread remembers, to wake them up when it ends, and those
\* that the exitHilo in progress has still to wake up.
Recuerdos(t) == {<<t.Pid, t.HilosBloqueados[i]>> : i \in DOMAIN t.HilosBloqueados}
Faltan == {<<saliendo.pid, saliendo.faltan[i]>> : i \in DOMAIN saliendo.faltan}
Recordados == (UNION {Recuerdos(t) : t \in Vivos}) \cup Faltan

SinRepetir(s) == \A i, j \in DOMAIN s : s[i] = s[j] => i = j

\* A blocked thread is remembered by one thread at most, once.
Parejas ==
  /\ \A t \in Vivos : SinRepetir(t.HilosBloqueados) /\ Recuerdos(t) \cap Faltan = {}
  /\ \A t, u \in Vivos : t # u => Recuerdos(t) \cap Recuerdos(u) = {}
  /\ SinRepetir(saliendo.faltan)

\* Those that wait in a join are remembered, and only those or the dead are.
Joins == /\ IdsDe(EnJoin) \subseteq Recordados
         /\ Recordados \subseteq colaExitHilo \cup IdsDe(EnJoin)

\* Nobody waits for two things at once.
Razones ==
  /\ Dormidos \cap EnMutex = {}
  /\ \A t \in Bloqueados : Condenado(t) => t \notin Dormidos \cup EnMutex

\* Every thread is of a process that is initialised.
Vidas == \A t \in Vivos : t.Pid \in DOMAIN colaProcesosInicializados

\* A mutex of process p has a holder that lives, or that exitHilo is finishing,
\* and those that wait for it are threads of p, blocked.
MutexSano(p, m) ==
  /\ Unico(m.colaBloqueados)
  /\ \A t \in Rango(m.colaBloqueados) : t \in Bloqueados /\ t.Pid = p
  /\ m.HiloUsando # -1 => <<p, m.HiloUsando>> \in IdsDe(Vivos) \cup {IdDe(saliendo.hilo)}

MutexSanos ==
  \A p \in DOMAIN colaProcesosInicializados :
    /\ Len(colaProcesosInicializados[p]) <= 1
    /\ \A j \in DOMAIN colaProcesosInicializados[p] : MutexSano(p, colaProcesosInicializados[p][j])

\* The exitHilo in progress is that of a thread that has left the queues, or a
\* second one of the thread that caused exitProcess, which finds nobody.
SaliendoSano ==
  /\ saliendo.luego # "nada"
  /\ saliendo.luego = "fin" => colaExecHilo = <<>> /\ salida.fase = "nada"
  /\ saliendo.luego = "cancelado" => Corre /\ salida.fase = "nada"
  /\ saliendo.luego = "exitProcess" => salida.fase # "nada" /\ saliendo.pid = salida.pid
  /\ \/ saliendo.hilo.Pid = saliendo.pid /\ IdDe(saliendo.hilo) \in colaExitHilo \cap Creados
     \/ /\ saliendo.hilo = TCBNulo /\ saliendo.luego = "exitProcess" /\ salida.fase = "block"
        /\ saliendo.faltan = <<>> /\ hilo \notin IdsDe(Bloqueados)

\* Where the chain stands says what the exec queue holds.
Cadena ==
  /\ pendientes = <<>> /\ sinContexto = {}
  /\ pc \notin {"lockMutex", "caido"}
  /\ pc \in {"despacho", "cpu", "cancelado"} => Corre
  /\ pc \in {"libre", "detenido", "dump"} => colaExecHilo = <<>>
  /\ IF pc = "exitHilo" THEN SaliendoSano ELSE saliendo = SinSalir
  /\ pc = "exitProcess" => salida.fase # "nada"
  /\ pc \notin {"exitHilo", "exitProcess"} => salida.fase = "nada"
  /\ salida.fase = "nada" => salida = SinSalida

\* The thread of the chain, when it is blocked, was the last to block.
AlFinal == \A k \in DOMAIN colaBlockHilo : IdDe(colaBlockHilo[k]) = hilo => k = Len(colaBlockHilo)

\* A dump in progress is that of the thread of the chain.
Dumps == \A e \in esperas : e.paso = "dump" => pc = "dump" /\ IdDe(e.tcb) = hilo

\* What the loop over ready has still to find.  While its array is that of the queue,
\* the threads of the process are at their own places of it, and a removal skips none:
\* they do not follow each other, and the last of the queue is not one of several.
Alineado(s, q) ==
  /\ \A k \in DOMAIN q : k <= Len(s.arr) => s.arr[k] = q[k]
  /\ \A k \in DOMAIN q : q[k].Pid = s.pid => k \in s.i..Len(s.arr)
  /\ \A k \in s.i..Len(s.arr) : s.arr[k].Pid = s.pid => k \in DOMAIN q
  /\ \A j, k \in DOMAIN q :
       (j < k /\ q[j].Pid = s.pid /\ q[k].Pid = s.pid) => k # j + 1 /\ k # Len(q)

\* Once an append has outgrown the array, what is left of it has each of them once.
Copiado(s, q) ==
  /\ \A k \in DOMAIN q : q[k].Pid = s.pid => \E l \in s.i..Len(s.arr) : s.arr[l] = q[k]
  /\ \A k, l \in s.i..Len(s.arr) : s.arr[k].Pid = s.pid =>
       s.arr[k] \in Rango(q) /\ (s.arr[l] = s.arr[k] => l = k)

Recorre(s, q) == IF s.alias THEN Alineado(s, q) ELSE Copiado(s, q)

RecorreReady == Recorre(salida, colaReadyHilo)

RecorreExec ==
  /\ Len(salida.arr) <= 1
  /\ IF colaExecHilo = <<>> THEN salida.i > Len(salida.arr)
     ELSE salida.i = 1 /\ salida.arr = colaExecHilo

\* The loop over block reads the last thread to block last, even in an array
\* in which removals left copies of it.
RecorreBlock ==
  /\ \A k \in DOMAIN salida.arr : salida.arr[k].Pid = salida.pid => IdDe(salida.arr[k]) = hilo
  /\ hilo \in IdsDe(Bloqueados) =>
       /\ salida.i <= Len(salida.arr) /\ Len(salida.arr) >= Len(colaBlockHilo)
       /\ salida.arr[Len(salida.arr)] = colaBlockHilo[Len(colaBlockHilo)]

\* While exitProcess runs the only threads of the process are the one that caused it
\* and those in ready, and each loop takes out those it is for.
Recorrido ==
  salida.fase # "nada" =>
    /\ salida.pid = hilo[1] /\ hilo \in Creados
    /\ colaExecHilo = <<>> \/ Corre
    /\ salida.fase \notin {"ready", "exec"} => colaExecHilo = <<>>
    /\ salida.fase # "iniciar" => salida.pid \in DOMAIN colaProcesosInicializados
    /\ salida.fase \in {"memoria", "iniciar"} => hilo \notin IdsDe(Bloqueados)
    /\ \A t \in Bloqueados : t.Pid = salida.pid => IdDe(t) = hilo
    /\ \A t \in Dormidos \cup Despiertos : t.Pid # salida.pid
    /\ salida.fase # "ready" => \A t \in Listos : t.Pid # salida.pid
    /\ salida.fase = "ready" => RecorreReady
    /\ salida.fase = "exec" => RecorreExec
    /\ salida.fase = "block" => RecorreBlock

HInv == /\ Lugares /\ Cadena /\ AlFinal /\ Dumps
        /\ Parejas /\ Joins /\ Razones /\ Vidas /\ MutexSanos /\ Recorrido

Sano == IInv /\ MutexCoherente /\ HInv

-----------------------------------------------------------------------------
(* What a step that moves threads leaves of the invariant *)

\* The threads that wait for a mutex are blocked threads of its process.
LEMMA EnMutexHechos ==
  ASSUME TypeOK, MutexSanos
  PROVE  /\ EnMutex \subseteq Bloqueados
         /\ \A p \in DOMAIN colaProcesosInicializados :
              \A j \in DOMAIN colaProcesosInicializados[p] :
                /\ colaProcesosInicializados[p][j] \in Mutexes
                /\ colaProcesosInicializados[p][j].colaBloqueados \in Seq(TCBs)
                /\ Rango(colaProcesosInicializados[p][j].colaBloqueados) \subseteq EnMutex
<1> DEFINE ini == colaProcesosInicializados
<1>1. ASSUME NEW p \in DOMAIN ini, NEW j \in DOMAIN ini[p]
      PROVE  ini[p][j] \in Mutexes
  <2>1. ini[p] \in Seq(Mutexes)
    BY <1>1 DEF TypeOK, TipoProcesos
  <2> QED
    BY <1>1, <2>1, Indices
<1>2. ASSUME NEW p \in DOMAIN ini, NEW j \in DOMAIN ini[p]
      PROVE  ini[p][j].colaBloqueados \in Seq(TCBs)
  BY <1>1, <1>2 DEF Mutexes
<1>3. ASSUME NEW p \in DOMAIN ini, NEW j \in DOMAIN ini[p]
      PROVE  Rango(ini[p][j].colaBloqueados) \subseteq EnMutex
  <2>1. Rango(ini[p][j].colaBloqueados) \subseteq TCBs
    BY <1>2, <1>3, Indices
  <2> QED
    BY <1>3, <2>1 DEF EnMutex
<1>4. EnMutex \subseteq Bloqueados
  BY DEF EnMutex, MutexSanos, MutexSano
<1> QED
  BY <1>1, <1>2, <1>3, <1>4

\* No thread has the id of no thread.
LEMMA NingunHiloNoVive ==
  ASSUME TypeOK, Lugares
  PROVE  NingunHilo \notin IdsDe(Vivos) /\ \A t \in Vivos : IdDe(t) # NingunHilo
<1>1. NingunHilo \notin Creados
  BY CreadosTipo
<1>2. NingunHilo \notin IdsDe(Vivos)
  BY <1>1 DEF Lugares
<1> QED
  BY <1>2 DEF IdsDe

\* Out of exitHilo and of exitProcess neither is in progress.
LEMMA FueraDeSalida ==
  ASSUME Cadena, pc \notin {"exitHilo", "exitProcess"}
  PROVE  salida = SinSalida /\ saliendo = SinSalir /\ salida.fase = "nada"
  BY DEF Cadena

\* Nobody is created or ends, nobody asks for a mutex or gets one, and nobody
\* enters block or leaves it but for IO and dumps.
LEMMA PasoQuieto ==
  ASSUME TypeOK, HInv,
         UNCHANGED <<Vivos, saliendo, colaExitHilo, colaProcesosInicializados>>,
         salida'.fase = "nada" <=> salida.fase = "nada",
         salida.fase = "nada" \/ (hilo' = hilo /\ Dormidos' \subseteq Dormidos),
         (Bloqueados' \ Dormidos') \ EnMutex = (Bloqueados \ Dormidos) \ EnMutex,
         EnMutex \subseteq Bloqueados', Dormidos' \cap EnMutex = {}
  PROVE  Parejas' /\ Joins' /\ Razones' /\ Vidas' /\ MutexSanos'
<1> USE DEF HInv
<1>1. EnMutex' = EnMutex /\ Faltan' = Faltan /\ Recordados' = Recordados
  BY DEF EnMutex, Faltan, Recordados
<1>2. EnJoin' = EnJoin
  BY <1>1 DEF EnJoin, Condenado
<1>3. Parejas'
  BY <1>1 DEF Parejas
<1>4. Joins'
  BY <1>1, <1>2 DEF Joins, IdsDe
<1>5. EnMutex \subseteq Bloqueados
  BY EnMutexHechos
<1>6. Razones'
  BY <1>1, <1>5 DEF Razones, Condenado, Lugares
<1>7. Vidas'
  BY DEF Vidas
<1>8. MutexSanos'
  <2> SUFFICES ASSUME NEW p \in DOMAIN colaProcesosInicializados,
                      NEW j \in DOMAIN colaProcesosInicializados[p]
               PROVE  MutexSano(p, colaProcesosInicializados[p][j])'
    BY DEF MutexSanos
  <2>1. MutexSano(p, colaProcesosInicializados[p][j])
    BY DEF MutexSanos
  <2>2. Rango(colaProcesosInicializados[p][j].colaBloqueados) \subseteq Bloqueados'
    BY EnMutexHechos
  <2> QED
    BY <2>1, <2>2 DEF MutexSano, IdsDe
<1> QED
  BY <1>3, <1>4, <1>6, <1>7, <1>8

\* Out of exitProcess there is no loop to speak of.
LEMMA RecorridoNada ==
  ASSUME salida'.fase = "nada"
  PROVE  Recorrido'
  BY DEF Recorrido

\* The chain goes to the CPU with the thread of exec.
LEMMA CadenaCpu ==
  ASSUME Cadena, pc \notin {"exitHilo", "exitProcess"}, pc' \in {"despacho", "cpu"}, Corre',
         UNCHANGED <<pendientes, sinContexto, saliendo, salida>>
  PROVE  Cadena'
  BY DEF Cadena

\* The chain goes back to the scheduler with nothing in exec.
LEMMA CadenaRetorna ==
  ASSUME Cadena, NEW ini, Retornar(ini), colaExecHilo' = <<>>,
         UNCHANGED <<pendientes, sinContexto>>, salida' = SinSalida, saliendo' = SinSalir
  PROVE  Cadena' /\ pc' \in {"libre", "detenido"} /\ hilo' = NingunHilo
<1>1. pc' \in {"libre", "detenido"} /\ hilo' = NingunHilo
  BY DEF Cadena, Retornar
<1> QED
  BY <1>1 DEF Cadena, SinSalida

\* The thread of the chain is not blocked, or no thread has its id.
LEMMA AlFinalNadie ==
  ASSUME hilo' \notin IdsDe(Bloqueados')
  PROVE  AlFinal'
  BY DEF AlFinal, IdsDe, Bloqueados, Rango

\* The chain works for no thread.
LEMMA AlFinalNingun ==
  ASSUME TypeOK, Lugares, Bloqueados' \subseteq Vivos, hilo' = NingunHilo
  PROVE  AlFinal'
<1>1. hilo' \notin IdsDe(Bloqueados')
  BY NingunHiloNoVive DEF IdsDe
<1> QED
  BY <1>1, AlFinalNadie

\* A thread leaves block, or none does.
LEMMA AlFinalQuita ==
  ASSUME TypeOK, Lugares, AlFinal, hilo' = hilo,
         \/ colaBlockHilo' = colaBlockHilo
         \/ \E t \in Bloqueados : colaBlockHilo' = eliminarHiloCola(colaBlockHilo, IdDe(t))
  PROVE  AlFinal'
<1>1. CASE colaBlockHilo' = colaBlockHilo
  BY <1>1 DEF AlFinal
<1>2. ASSUME NEW t \in Bloqueados, colaBlockHilo' = eliminarHiloCola(colaBlockHilo, IdDe(t))
      PROVE  AlFinal'
  <2>1. colaBlockHilo \in Seq(TCBs) /\ Unico(colaBlockHilo)
    BY TipoLugares DEF Lugares
  <2>2. PICK p \in 1..Len(colaBlockHilo) : colaBlockHilo' = Sin(colaBlockHilo, p)
    BY <1>2, <2>1, Quitar DEF Bloqueados
  <2> DEFINE n == Len(colaBlockHilo)
  <2>3. n \in Nat /\ n = Len(colaBlockHilo) /\ DOMAIN colaBlockHilo = 1..n
    BY <2>1, Indices
  <2>4. /\ colaBlockHilo' \in Seq(TCBs) /\ Len(colaBlockHilo') = n - 1
        /\ \A i \in 1..(n - 1) : colaBlockHilo'[i] = IF i < p THEN colaBlockHilo[i]
                                                     ELSE colaBlockHilo[i + 1]
    BY <2>1, <2>2, SinUno
  <2>5. DOMAIN colaBlockHilo' = 1..(n - 1)
    BY <2>4, Indices
  <2> SUFFICES ASSUME NEW k \in 1..(n - 1), IdDe(colaBlockHilo'[k]) = hilo
               PROVE  k = n - 1
    BY <2>4, <2>5 DEF AlFinal
  <2> HIDE DEF n
  <2>6. CASE k < p
    <3>1. k \in 1..n /\ IdDe(colaBlockHilo[k]) = hilo
      BY <2>3, <2>4, <2>6
    <3>2. k = n
      BY <2>3, <3>1 DEF AlFinal
    <3> QED
      BY <2>3, <3>2
  <2>7. CASE ~(k < p)
    <3>1. k + 1 \in 1..n /\ IdDe(colaBlockHilo[k + 1]) = hilo
      BY <2>3, <2>4, <2>7
    <3>2. k + 1 = n
      BY <2>3, <3>1 DEF AlFinal
    <3> QED
      BY <2>3, <3>2
  <2> QED
    BY <2>6, <2>7
<1> QED
  BY <1>1, <1>2

\* No dump is in progress, nor starts.
LEMMA DumpsNinguno ==
  ASSUME Dumps, pc # "dump", \A e \in esperas' : e \in esperas \/ e.paso # "dump"
  PROVE  Dumps'
  BY DEF Dumps

-----------------------------------------------------------------------------
(* Every step keeps the invariant, when scripts keep these rules *)

\* The rule "no espera con mutex" of the runs is not among them.
ReglasDeHilos ==
  {"archivos", "crea el principal", "un mutex", "lock correcto",
   "salida ordenada", "sale el principal", "cancela existente", "cancela sin espera",
   "cancela sin mutex", "busqueda sin IO"}

ReglasCumplidas == ReglasDeHilos \subseteq Reglas

\* No goroutine of IO crosses a search of block.
LEMMA SinCruce ==
  ASSUME ReglasCumplidas
  PROVE  ~Cruce
<1>1. \A e, id : ~SeCruza(e, id)
  BY DEF SeCruza, Regla, ReglasCumplidas, ReglasDeHilos
<1> QED
  BY <1>1 DEF Cruce, DesbloquearCruzado, RecorrerCruzado, CancelarCruzado, exitHiloCruzado,
              LoSaltea, LoRepite

\* Dispatch: the thread goes from ready to exec.
LEMMA HilosEjecutar ==
  ASSUME Sano, ejecutarInstruccion
  PROVE  HInv'
<1> USE DEF Sano, HInv, IInv
<1> DEFINE t == colaReadyHilo[Siguiente]
<1>1. salida.fase = "nada" /\ UNCHANGED <<saliendo, salida, colaExitHilo>> /\ pc = "libre"
  BY FueraDeSalida DEF ejecutarInstruccion, finales
<1>2. t \in Listos
  <2>1. colaReadyHilo \in Seq(TCBs) /\ Siguiente \in 1..Len(colaReadyHilo)
    BY SiguienteTipo, TipoLugares DEF ejecutarInstruccion
  <2> QED
    BY <2>1, Indices DEF Listos, Rango
<1>3. /\ colaExecHilo = <<>> /\ colaExecHilo' = <<t>> /\ hilo' = IdDe(t) /\ pc' = "despacho"
      /\ colaReadyHilo' = eliminarHiloCola(colaReadyHilo, IdDe(t))
      /\ UNCHANGED <<colaBlockHilo, procesos, esperas, pendientes>>
  BY DEF ejecutarInstruccion, enviarTCBCpu
<1> HIDE DEF t
<1>4. /\ Lugares' /\ UNCHANGED <<Bloqueados, Dormidos, Despiertos, Vivos>>
      /\ Listos' = Listos \ {t} /\ EnCpu' = {t}
  <2>1. UNCHANGED <<colaBlockHilo, esperas, colaExitHilo, nextTid>>
    BY <1>1, <1>3 DEF procesos
  <2> QED
    BY <1>2, <1>3, <2>1, EfectoDespachar
<1>5. Parejas' /\ Joins' /\ Razones' /\ Vidas' /\ MutexSanos'
  <2>1. EnMutex \subseteq Bloqueados' /\ Dormidos' \cap EnMutex = {}
    BY <1>4, EnMutexHechos DEF Razones
  <2>2. UNCHANGED colaProcesosInicializados
    BY <1>3 DEF procesos
  <2> QED
    BY <1>1, <1>4, <2>1, <2>2, PasoQuieto
<1>6. Cadena'
  <2>1. Corre'
    BY <1>3 DEF Corre
  <2> QED
    BY <1>1, <1>3, <2>1, CadenaCpu DEF procesos
<1>7. AlFinal'
  <2>1. hilo' \notin IdsDe(Bloqueados')
    BY <1>2, <1>3, <1>4 DEF IdsDe, Lugares, Distintos, Apartados, Vivos
  <2> QED
    BY <2>1, AlFinalNadie
<1>8. Dumps'
  BY <1>1, <1>3, DumpsNinguno
<1>9. Recorrido'
  BY <1>1, RecorridoNada
<1> QED
  BY <1>4, <1>5, <1>6, <1>7, <1>8, <1>9

\* What the syscalls of the running thread start from.
LEMMA ConActual ==
  ASSUME Sano, pc \in {"despacho", "cpu", "cancelado"}
  PROVE  /\ salida = SinSalida /\ saliendo = SinSalir /\ salida.fase = "nada"
         /\ \E a \in TCBs :
              /\ colaExecHilo = <<a>> /\ EnCpu = {a} /\ IdDe(a) = hilo
              /\ getTCB(hilo) = a /\ a.Pid = hilo[1] /\ a.Tid = hilo[2]
              /\ eliminarHiloCola(colaExecHilo, hilo) = <<>>
              /\ hilo \in Creados /\ hilo[1] \in DOMAIN colaProcesosInicializados
              /\ hilo \notin IdsDe(Bloqueados) /\ hilo \notin IdsDe(Listos)
              /\ a \in Vivos /\ a \notin Bloqueados
<1> USE DEF Sano, HInv, IInv
<1>1. salida = SinSalida /\ saliendo = SinSalir /\ salida.fase = "nada"
  BY FueraDeSalida
<1>2. PICK a \in TCBs :
         /\ colaExecHilo = <<a>> /\ EnCpu = {a} /\ IdDe(a) = hilo
         /\ getTCB(hilo) = a /\ a.Pid = hilo[1] /\ a.Tid = hilo[2]
         /\ eliminarHiloCola(colaExecHilo, hilo) = <<>>
         /\ hilo \in Creados
  BY ElActual DEF Cadena
<1>3. a \in Vivos
  BY <1>2 DEF Vivos
<1>4. a.Pid \in DOMAIN colaProcesosInicializados
  BY <1>3 DEF Vidas
<1>5. hilo \notin IdsDe(Bloqueados) /\ hilo \notin IdsDe(Listos) /\ a \notin Bloqueados
  BY <1>2, <1>3 DEF IdsDe, Lugares, Distintos, Apartados, Vivos
<1> QED
  BY <1>1, <1>2, <1>3, <1>4, <1>5

\* A step after which nothing has moved and the same thread is in the CPU.
LEMMA HilosSigue ==
  ASSUME Sano, pc \in {"despacho", "cpu", "cancelado"}, pc' \in {"despacho", "cpu"}, hilo' = hilo,
         SinMover,
         UNCHANGED <<colaProcesosInicializados, sinContexto, pendientes, saliendo, salida>>
  PROVE  HInv'
<1> USE DEF Sano, HInv, IInv
<1>1. salida.fase = "nada"
  BY ConActual
<1>2. Lugares' /\ UNCHANGED <<Listos, EnCpu, Bloqueados, Dormidos, Despiertos, Vivos>>
  BY LugaresIgual
<1>3. Parejas' /\ Joins' /\ Razones' /\ Vidas' /\ MutexSanos'
  <2>1. EnMutex \subseteq Bloqueados' /\ Dormidos' \cap EnMutex = {} /\ colaExitHilo' = colaExitHilo
    BY <1>2, EnMutexHechos DEF Razones, SinMover
  <2> QED
    BY <1>1, <1>2, <2>1, PasoQuieto
<1>4. Cadena'
  <2>1. Corre'
    BY DEF Corre, Cadena, SinMover, colas
  <2> QED
    BY <2>1, CadenaCpu
<1>5. AlFinal' /\ Dumps'
  BY AlFinalQuita, DumpsNinguno DEF SinMover, colas
<1>6. Recorrido'
  BY <1>1, RecorridoNada
<1> QED
  BY <1>2, <1>3, <1>4, <1>5, <1>6

\* The CPU gets the thread.
LEMMA HilosRecibir ==
  ASSUME Sano, RecibirPIDyTID
  PROVE  HInv'
<1>1. /\ pc = "despacho" /\ pc' = "cpu" /\ hilo' = hilo /\ SinMover
      /\ UNCHANGED <<colaProcesosInicializados, sinContexto, pendientes, saliendo, salida>>
  BY DEF RecibirPIDyTID, SinMover, procesos, finales
<1> QED
  BY <1>1, HilosSigue

\* The end of CancelarHilo.
LEMMA HilosVolver ==
  ASSUME Sano, VolverDeCancelar
  PROVE  HInv'
<1>1. pc = "cancelado" /\ IdDe(getTCB(hilo)) = hilo
  BY ConActual DEF VolverDeCancelar
<1>2. /\ pc' = "despacho" /\ hilo' = hilo /\ SinMover
      /\ UNCHANGED <<colaProcesosInicializados, sinContexto, pendientes, saliendo, salida>>
  BY <1>1 DEF VolverDeCancelar, enviarTCBCpu, SinMover, procesos, finales
<1> QED
  BY <1>1, <1>2, HilosSigue

\* No burst ends without a call to the kernel.
LEMMA HilosRafaga ==
  ASSUME Sano, RafagaSinSyscall
  PROVE  FALSE
<1>1. hilo[1] \in DOMAIN colaProcesosInicializados /\ sinContexto = {}
  BY ConActual DEF RafagaSinSyscall, Sano, HInv, Cadena
<1> QED
  BY <1>1 DEF RafagaSinSyscall

\* No loop of lockMutex is left to go on.
LEMMA HilosSeguirLock ==
  ASSUME Sano, SeguirLockMutex
  PROVE  FALSE
  BY DEF SeguirLockMutex, Sano, HInv, Cadena

\* Eviction: the thread goes from exec to the end of ready.
LEMMA HilosDesalojar ==
  ASSUME Sano, DevolverPidTid
  PROVE  HInv'
<1> USE DEF Sano, HInv, IInv
<1>1. pc = "cpu" /\ salida.fase = "nada" /\ salida = SinSalida /\ saliendo = SinSalir
  BY ConActual DEF DevolverPidTid, Llama
<1>2. PICK a \in TCBs :
        /\ colaExecHilo = <<a>> /\ EnCpu = {a} /\ IdDe(a) = hilo /\ getTCB(hilo) = a
        /\ eliminarHiloCola(colaExecHilo, hilo) = <<>>
  BY <1>1, ConActual
<1>3. /\ colaExecHilo' = <<>> /\ colaReadyHilo' = Append(colaReadyHilo, a)
      /\ UNCHANGED <<colaBlockHilo, esperas, colaExitHilo, nextTid, saliendo, salida,
                     colaProcesosInicializados, sinContexto, pendientes>>
      /\ Retornar(colaProcesosInicializados)
  BY <1>2 DEF DevolverPidTid, procesos, finales
<1>4. /\ Lugares' /\ UNCHANGED <<Bloqueados, Dormidos, Despiertos, Vivos>>
  BY <1>2, <1>3, EfectoDesalojar
<1>5. Parejas' /\ Joins' /\ Razones' /\ Vidas' /\ MutexSanos'
  <2>1. EnMutex \subseteq Bloqueados' /\ Dormidos' \cap EnMutex = {}
    BY <1>4, EnMutexHechos DEF Razones
  <2> QED
    BY <1>1, <1>3, <1>4, <2>1, PasoQuieto
<1>6. Cadena' /\ hilo' = NingunHilo
  BY <1>1, <1>3, CadenaRetorna
<1>7. AlFinal'
  <2>1. Bloqueados' \subseteq Vivos
    BY <1>4 DEF Vivos
  <2> QED
    BY <1>6, <2>1, AlFinalNingun
<1>8. Dumps'
  BY <1>1, <1>3, DumpsNinguno
<1>9. Recorrido'
  BY <1>1, <1>3, RecorridoNada
<1> QED
  BY <1>4, <1>5, <1>6, <1>7, <1>8, <1>9

\* The running thread goes from exec to block, to sleep or to dump.
LEMMA HilosDormir ==
  ASSUME Sano, pc = "cpu", NEW paso \in {"durmiendo", "dump"}, Bloquear(getTCB(hilo), paso),
         UNCHANGED <<colaReadyHilo, procesos, pendientes, finales>>
  PROVE  /\ Lugares' /\ Parejas' /\ Joins' /\ Razones' /\ Vidas' /\ MutexSanos' /\ Recorrido'
         /\ colaExecHilo' = <<>> /\ Bloqueados' \subseteq Vivos
         /\ hilo' = hilo => AlFinal'
         /\ \E a \in TCBs : IdDe(a) = hilo /\ esperas' = esperas \cup {[tcb |-> a, paso |-> paso]}
<1> USE DEF Sano, HInv, IInv
<1>1. salida.fase = "nada" /\ salida = SinSalida /\ saliendo = SinSalir
  BY ConActual
<1>2. PICK a \in TCBs :
        /\ colaExecHilo = <<a>> /\ EnCpu = {a} /\ IdDe(a) = hilo /\ getTCB(hilo) = a
        /\ eliminarHiloCola(colaExecHilo, hilo) = <<>> /\ a \in Vivos
        /\ a \notin Bloqueados
  BY ConActual
<1>3. /\ colaExecHilo' = <<>> /\ colaBlockHilo' = Append(colaBlockHilo, a)
      /\ esperas' = esperas \cup {[tcb |-> a, paso |-> paso]}
      /\ UNCHANGED <<colaReadyHilo, colaExitHilo, nextTid, saliendo, salida,
                     colaProcesosInicializados>>
  BY <1>2 DEF Bloquear, procesos, finales
<1>5. /\ Lugares' /\ UNCHANGED <<Listos, Despiertos, Vivos>>
      /\ Bloqueados' = Bloqueados \cup {a} /\ EnCpu' = {}
      /\ Dormidos' = Dormidos \cup {a}
  <2>1. /\ paso # "encolar" /\ TRUE \in BOOLEAN
        /\ esperas' = IF TRUE THEN esperas \cup {[tcb |-> a, paso |-> paso]} ELSE esperas
    BY <1>3
  <2> QED
    BY <1>2, <1>3, <2>1, EfectoBloquear
<1>6. EnMutex \subseteq Bloqueados /\ a \notin EnMutex
  BY <1>2, EnMutexHechos
<1>7. Parejas' /\ Joins' /\ Razones' /\ Vidas' /\ MutexSanos'
  <2>1. /\ EnMutex \subseteq Bloqueados' /\ Dormidos' \cap EnMutex = {}
        /\ (Bloqueados' \ Dormidos') \ EnMutex = (Bloqueados \ Dormidos) \ EnMutex
    BY <1>2, <1>5, <1>6 DEF Razones
  <2> QED
    BY <1>1, <1>3, <1>5, <2>1, PasoQuieto
<1>8. Recorrido'
  BY <1>1, <1>3, RecorridoNada
<1>9. Bloqueados' \subseteq Vivos
  BY <1>2, <1>5 DEF Vivos
<1>10. ASSUME hilo' = hilo PROVE AlFinal'
  <2>1. /\ colaBlockHilo \in Seq(TCBs) /\ Len(colaBlockHilo) \in Nat
        /\ colaBlockHilo' \in Seq(TCBs) /\ Len(colaBlockHilo') = Len(colaBlockHilo) + 1
        /\ colaBlockHilo'[Len(colaBlockHilo')] = a
    BY <1>2, <1>3, TipoLugares, Agregar, Indices
  <2>2. Len(colaBlockHilo') \in DOMAIN colaBlockHilo'
    <3>1. DOMAIN colaBlockHilo' = 1..Len(colaBlockHilo')
      BY <2>1, Indices
    <3> QED
      BY <2>1, <3>1
  <2>3. Unico(colaBlockHilo')
    BY <1>5 DEF Lugares
  <2> QED
    BY <1>2, <1>10, <2>1, <2>2, <2>3 DEF AlFinal, Unico
<1> QED
  BY <1>2, <1>3, <1>5, <1>7, <1>8, <1>9, <1>10

\* IO: the calls return, and a goroutine will wake the thread up.
LEMMA HilosIo ==
  ASSUME Sano, ManejarIo
  PROVE  HInv'
<1> USE DEF Sano, HInv, IInv
<1>1. /\ pc = "cpu" /\ Bloquear(getTCB(hilo), "durmiendo")
      /\ UNCHANGED <<colaReadyHilo, procesos, pendientes, finales>>
      /\ Retornar(colaProcesosInicializados)
  BY DEF ManejarIo, Llama
<1>2. /\ Lugares' /\ Parejas' /\ Joins' /\ Razones' /\ Vidas' /\ MutexSanos' /\ Recorrido'
      /\ colaExecHilo' = <<>> /\ Bloqueados' \subseteq Vivos
      /\ \E a \in TCBs : esperas' = esperas \cup {[tcb |-> a, paso |-> "durmiendo"]}
  BY <1>1, HilosDormir
<1>3. Cadena' /\ hilo' = NingunHilo
  <2>1. salida' = SinSalida /\ saliendo' = SinSalir
    BY <1>1, FueraDeSalida DEF finales
  <2> QED
    BY <1>1, <1>2, <2>1, CadenaRetorna DEF procesos
<1>4. AlFinal'
  BY <1>2, <1>3, AlFinalNingun
<1>5. Dumps'
  BY <1>1, <1>2, DumpsNinguno
<1> QED
  BY <1>2, <1>3, <1>4, <1>5

\* DUMP_MEMORY: the kernel waits for memory, and the thread is in block.
LEMMA HilosDump ==
  ASSUME Sano, DumpMemory
  PROVE  HInv'
<1> USE DEF Sano, HInv, IInv
<1>1. /\ pc = "cpu" /\ Bloquear(getTCB(hilo), "dump") /\ pc' = "dump" /\ hilo' = hilo
      /\ UNCHANGED <<colaReadyHilo, procesos, pendientes, finales>>
  BY DEF DumpMemory, Llama
<1>2. /\ Lugares' /\ Parejas' /\ Joins' /\ Razones' /\ Vidas' /\ MutexSanos' /\ Recorrido'
      /\ colaExecHilo' = <<>> /\ AlFinal'
      /\ \E a \in TCBs : IdDe(a) = hilo /\ esperas' = esperas \cup {[tcb |-> a, paso |-> "dump"]}
  BY <1>1, HilosDormir
<1>3. Cadena'
  <2>1. saliendo = SinSalir /\ salida.fase = "nada" /\ salida = SinSalida
    BY <1>1, FueraDeSalida
  <2> QED
    BY <1>1, <1>2, <2>1 DEF Cadena, procesos, finales
<1>4. Dumps'
  BY <1>1, <1>2 DEF Dumps
<1> QED
  BY <1>2, <1>3, <1>4

\* Memory did the dump: the thread goes from block to ready.
LEMMA HilosDumpHecho ==
  ASSUME Sano, NEW e \in esperas, RespuestaDump(e, TRUE)
  PROVE  HInv'
<1> USE DEF Sano, HInv, IInv
<1> DEFINE t == e.tcb
<1>1. /\ pc = "dump" /\ e.paso = "dump" /\ esperas' = esperas \ {e}
      /\ colaBlockHilo' = eliminarHiloCola(colaBlockHilo, IdDe(t))
      /\ colaReadyHilo' = Append(colaReadyHilo, t)
      /\ Retornar(colaProcesosInicializados)
      /\ UNCHANGED <<colaExecHilo, procesos, pendientes, finales>>
  BY DEF RespuestaDump, finales
<1>2. salida.fase = "nada" /\ salida = SinSalida /\ saliendo = SinSalir /\ colaExecHilo = <<>>
  BY <1>1, FueraDeSalida DEF Cadena
<1>3. t \in Dormidos /\ t \in Bloqueados
  BY <1>1 DEF Dormidos, Lugares
<1>4. /\ Lugares' /\ UNCHANGED <<EnCpu, Despiertos, Vivos>>
      /\ Bloqueados' = Bloqueados \ {t} /\ Listos' = Listos \cup {t}
      /\ Dormidos' = Dormidos \ {t}
  <2>1. {e} \in SUBSET esperas /\ \A f \in {e} : f.tcb = t
    OBVIOUS
  <2>2. UNCHANGED <<colaExecHilo, colaExitHilo, nextTid>>
    BY <1>1 DEF procesos, finales
  <2> HIDE DEF t
  <2>3. {e} # {} /\ esperas' = esperas \ {e}
    BY <1>1
  <2> QED
    BY <1>1, <1>3, <2>1, <2>2, <2>3, EfectoDespertar
<1> HIDE DEF t
<1>5. EnMutex \subseteq Bloqueados /\ t \notin EnMutex
  BY <1>3, EnMutexHechos DEF Razones
<1>6. Parejas' /\ Joins' /\ Razones' /\ Vidas' /\ MutexSanos'
  <2>1. /\ EnMutex \subseteq Bloqueados' /\ Dormidos' \cap EnMutex = {}
        /\ (Bloqueados' \ Dormidos') \ EnMutex = (Bloqueados \ Dormidos) \ EnMutex
    BY <1>3, <1>4, <1>5 DEF Razones
  <2>2. UNCHANGED <<saliendo, salida, colaExitHilo, colaProcesosInicializados>>
    BY <1>1 DEF procesos, finales
  <2> QED
    BY <1>2, <1>4, <2>1, <2>2, PasoQuieto
<1>7. Cadena' /\ hilo' = NingunHilo
  BY <1>1, <1>2, CadenaRetorna DEF procesos, finales
<1>8. AlFinal'
  <2>1. Bloqueados' \subseteq Vivos
    BY <1>4 DEF Vivos
  <2> QED
    BY <1>7, <2>1, AlFinalNingun
<1>9. Dumps'
  <2>1. \A f \in esperas : f.paso = "dump" => f = e
    <3>1. \A f \in esperas : f.paso = "dump" => IdDe(f.tcb) = IdDe(t) /\ f.tcb \in Dormidos
      BY <1>1 DEF Dumps, Dormidos, t
    <3>2. \A f \in esperas : f.paso = "dump" => f.tcb = t
      BY <1>3, <3>1 DEF Lugares, Distintos, Vivos
    <3> QED
      BY <3>2 DEF Lugares, t
  <2> QED
    BY <1>1, <2>1 DEF Dumps
<1>10. Recorrido'
  BY <1>1, <1>2, RecorridoNada DEF finales
<1> QED
  BY <1>4, <1>6, <1>7, <1>8, <1>9, <1>10

\* What the loop of exitProcess will read after a change of the queue it walks:
\* each place of the array keeps its TCB or gets that of the new queue.
LEMMA ReflejosHechos ==
  ASSUME NEW s \in Salida, NEW vieja, NEW nueva \in Seq(TCBs), NEW r \in Reflejos(s, vieja, nueva)
  PROVE  /\ r.pid = s.pid /\ r.fase = s.fase /\ r.i = s.i
         /\ r.arr \in Seq(TCBs) /\ Len(r.arr) = Len(s.arr)
         /\ \A k \in 1..Len(s.arr) : \/ r.arr[k] = s.arr[k]
                                     \/ k \in DOMAIN nueva /\ r.arr[k] = nueva[k]
<1> DEFINE arr == [i \in 1..Len(s.arr) |-> IF i <= Len(nueva) THEN nueva[i] ELSE s.arr[i]]
<1>1. /\ s.arr \in Seq(TCBs) /\ Len(s.arr) \in Nat /\ Len(nueva) \in Nat
      /\ DOMAIN nueva = 1..Len(nueva)
  BY LenProperties DEF Salida
<1>2. arr \in [1..Len(s.arr) -> TCBs]
  BY <1>1, ElementOfSeq
<1>3. arr \in Seq(TCBs) /\ Len(arr) = Len(s.arr)
  BY <1>1, <1>2, FuncionEsSeq, LenProperties
<1>4. \A k \in 1..Len(s.arr) : arr[k] = s.arr[k] \/ (k \in DOMAIN nueva /\ arr[k] = nueva[k])
  BY <1>1
<1>5. \E a \in BOOLEAN : r = [s EXCEPT !.arr = IF s.alias THEN arr ELSE @, !.alias = a]
  BY DEF Reflejos, Salida
<1> HIDE DEF arr
<1>6. /\ r.pid = s.pid /\ r.fase = s.fase /\ r.i = s.i
      /\ r.arr = arr \/ r.arr = s.arr
  BY <1>5 DEF Salida
<1> QED
  BY <1>1, <1>3, <1>4, <1>6

\* The same for the loop that exitProcess is in.
LEMMA ReflejosDeHechos ==
  ASSUME NEW s \in Salida, colaReadyHilo' \in Seq(TCBs), colaBlockHilo' \in Seq(TCBs),
         NEW r \in ReflejosDe(s)
  PROVE  /\ r.pid = s.pid /\ r.fase = s.fase /\ r.i = s.i
         /\ s.fase \notin {"ready", "block"} => r = s
         /\ r.arr \in Seq(TCBs) /\ Len(r.arr) = Len(s.arr)
         /\ s.fase = "ready" => \A k \in 1..Len(s.arr) :
              \/ r.arr[k] = s.arr[k]
              \/ k \in DOMAIN colaReadyHilo' /\ r.arr[k] = colaReadyHilo'[k]
         /\ s.fase = "block" => \A k \in 1..Len(s.arr) :
              \/ r.arr[k] = s.arr[k]
              \/ k \in DOMAIN colaBlockHilo' /\ r.arr[k] = colaBlockHilo'[k]
<1>1. CASE s.fase = "ready"
  BY <1>1, ReflejosHechos DEF ReflejosDe
<1>2. CASE s.fase = "block"
  BY <1>2, ReflejosHechos DEF ReflejosDe
<1>3. CASE s.fase \notin {"ready", "block"}
  BY <1>3 DEF ReflejosDe, Salida
<1> QED
  BY <1>1, <1>2, <1>3

\* What Reflejos makes of the array and of its tie to the queue.
LEMMA ReflejosExactos ==
  ASSUME NEW s \in Salida, NEW vieja, NEW nueva \in Seq(TCBs), NEW r \in Reflejos(s, vieja, nueva)
  PROVE  /\ r.pid = s.pid /\ r.i = s.i /\ Len(r.arr) = Len(s.arr) /\ r.alias \in BOOLEAN
         /\ ~s.alias => r.arr = s.arr /\ ~r.alias
         /\ s.alias => \A k \in 1..Len(s.arr) :
              r.arr[k] = IF k <= Len(nueva) THEN nueva[k] ELSE s.arr[k]
         /\ s.alias /\ ~r.alias => Len(nueva) > Len(vieja) /\ Len(nueva) > Len(s.arr)
<1> DEFINE arr == [i \in 1..Len(s.arr) |-> IF i <= Len(nueva) THEN nueva[i] ELSE s.arr[i]]
           crece == Len(nueva) > Len(vieja) /\ Len(nueva) > Len(s.arr)
<1>1. PICK a \in IF crece THEN {s.alias, FALSE} ELSE {s.alias} :
        r = [s EXCEPT !.arr = IF s.alias THEN arr ELSE @, !.alias = a]
  BY DEF Reflejos
<1>2. s.alias \in BOOLEAN /\ a \in BOOLEAN /\ (~s.alias => ~a) /\ (s.alias /\ ~a => crece)
  BY <1>1 DEF Salida
<1>3. /\ r.pid = s.pid /\ r.i = s.i /\ Len(r.arr) = Len(s.arr)
  BY ReflejosHechos
<1>4. \A k \in 1..Len(s.arr) : arr[k] = IF k <= Len(nueva) THEN nueva[k] ELSE s.arr[k]
  OBVIOUS
<1> HIDE DEF arr, crece
<1>5. r.alias = a /\ r.arr = IF s.alias THEN arr ELSE s.arr
  BY <1>1 DEF Salida
<1> QED
  BY <1>2, <1>3, <1>4, <1>5 DEF crece

\* The walk of a queue that stays the same.
LEMMA RecorreMismo ==
  ASSUME NEW s \in Salida, NEW q \in Seq(TCBs), Recorre(s, q), NEW r \in Reflejos(s, q, q)
  PROVE  Recorre(r, q)
<1>1. /\ Len(q) \in Nat /\ DOMAIN q = 1..Len(q) /\ Len(s.arr) \in Nat
      /\ s.i \in Nat /\ s.i >= 1
  BY Indices, LenProperties DEF Salida
<1>2. /\ r.pid = s.pid /\ r.i = s.i /\ Len(r.arr) = Len(s.arr) /\ (r.alias <=> s.alias)
      /\ \A k \in 1..Len(s.arr) : r.arr[k] = s.arr[k]
  <2>1. CASE s.alias
    <3>1. Alineado(s, q) /\ ~(Len(q) > Len(q))
      BY <1>1, <2>1 DEF Recorre
    <3> QED
      BY <1>1, <2>1, <3>1, ReflejosExactos DEF Alineado
  <2>2. CASE ~s.alias
    BY <2>2, ReflejosExactos
  <2> QED
    BY <2>1, <2>2
<1>3. \A k \in s.i..Len(s.arr) : k \in 1..Len(s.arr)
  BY <1>1
<1>4. CASE s.alias
  BY <1>1, <1>2, <1>3, <1>4 DEF Recorre, Alineado
<1>5. CASE ~s.alias
  BY <1>2, <1>3, <1>5 DEF Recorre, Copiado
<1> QED
  BY <1>4, <1>5

\* The walk of a queue that gets a thread of another process.
LEMMA RecorreAgrega ==
  ASSUME NEW s \in Salida, NEW q \in Seq(TCBs), Unico(q), Recorre(s, q),
         NEW t \in TCBs, t.Pid # s.pid, NEW r \in Reflejos(s, q, Append(q, t))
  PROVE  Recorre(r, Append(q, t))
<1> DEFINE n == Len(q)
           m == Len(s.arr)
           q2 == Append(q, t)
<1>1. /\ n \in Nat /\ DOMAIN q = 1..n /\ m \in Nat /\ s.i \in Nat /\ s.i >= 1
      /\ s.alias \in BOOLEAN
  BY Indices, LenProperties DEF Salida
<1>2. /\ q2 \in Seq(TCBs) /\ Len(q2) = n + 1 /\ q2[n + 1] = t /\ Rango(q) \subseteq Rango(q2)
      /\ \A k \in 1..n : q2[k] = q[k]
  BY Agregar
<1>3. DOMAIN q2 = 1..(n + 1)
  BY <1>2, Indices
<1> HIDE DEF q2
<1>4. /\ r.pid = s.pid /\ r.i = s.i /\ Len(r.arr) = m
      /\ ~s.alias => r.arr = s.arr /\ ~r.alias
      /\ s.alias => \A k \in 1..m : r.arr[k] = IF k <= n + 1 THEN q2[k] ELSE s.arr[k]
      /\ s.alias /\ ~r.alias => n + 1 > m
  <2>1. r \in Reflejos(s, q, q2)
    BY DEF q2
  <2> QED
    BY <1>2, <2>1, ReflejosExactos
<1>5. \A k \in 1..(n + 1) : q2[k].Pid = s.pid => k \in 1..n /\ q[k].Pid = s.pid
  BY <1>1, <1>2
<1>6. CASE s.alias /\ r.alias
  <2>1. Alineado(s, q)
    BY <1>6 DEF Recorre
  <2>2. \A k \in 1..(n + 1) : k <= m => r.arr[k] = q2[k]
    BY <1>1, <1>4, <1>6
  <2>3. \A k \in 1..(n + 1) : q2[k].Pid = s.pid => k \in s.i..m
    BY <1>1, <1>5, <2>1 DEF Alineado
  <2>4. ASSUME NEW k \in s.i..m, r.arr[k].Pid = s.pid PROVE k \in 1..(n + 1)
    <3> SUFFICES ASSUME k > n + 1 PROVE FALSE
      BY <1>1
    <3>1. k \in 1..m /\ r.arr[k] = s.arr[k]
      BY <1>1, <1>4, <1>6
    <3> QED
      BY <1>1, <2>1, <2>4, <3>1 DEF Alineado
  <2>5. \A j, k \in 1..(n + 1) :
          (j < k /\ q2[j].Pid = s.pid /\ q2[k].Pid = s.pid) => k # j + 1 /\ k # n + 1
    BY <1>1, <1>5, <2>1 DEF Alineado
  <2> QED
    BY <1>2, <1>3, <1>4, <1>6, <2>2, <2>3, <2>4, <2>5 DEF Recorre, Alineado, q2
<1>7. CASE ~r.alias
  <2>1. Copiado(s, q)
    <3>1. CASE ~s.alias
      BY <3>1 DEF Recorre
    <3>2. CASE s.alias
      <4>1. Alineado(s, q) /\ \A k \in s.i..m : k \in 1..n /\ s.arr[k] = q[k]
        BY <1>1, <1>4, <1>7, <3>2 DEF Recorre, Alineado
      <4>2. \A k, l \in 1..n : q[k] = q[l] => k = l
        BY <1>1 DEF Unico
      <4> QED
        BY <1>1, <4>1, <4>2 DEF Alineado, Copiado, Rango
    <3> QED
      BY <3>1, <3>2
  <2>2. \A k \in s.i..m : r.arr[k] = s.arr[k]
    <3>1. CASE ~s.alias
      BY <1>4, <3>1
    <3>2. CASE s.alias
      <4>1. Alineado(s, q) /\ n + 1 > m
        BY <1>4, <1>7, <3>2 DEF Recorre
      <4>2. \A k \in s.i..m : k \in 1..n /\ k \in 1..m /\ k <= n + 1
        BY <1>1, <4>1
      <4> QED
        BY <1>1, <1>2, <1>4, <3>2, <4>1, <4>2 DEF Alineado
    <3> QED
      BY <1>1, <3>1, <3>2
  <2>3. ASSUME NEW k \in 1..(n + 1), q2[k].Pid = s.pid
        PROVE  \E l \in s.i..m : r.arr[l] = q2[k]
    <3>1. k \in 1..n /\ q[k].Pid = s.pid /\ q2[k] = q[k]
      BY <1>2, <1>5, <2>3
    <3>2. PICK l \in s.i..m : s.arr[l] = q[k]
      BY <1>1, <2>1, <3>1 DEF Copiado
    <3> QED
      BY <2>2, <3>1, <3>2
  <2>4. \A k, l \in s.i..m : r.arr[k].Pid = s.pid =>
          r.arr[k] \in Rango(q2) /\ (r.arr[l] = r.arr[k] => l = k)
    BY <1>2, <2>1, <2>2 DEF Copiado
  <2>5. Copiado(r, q2)
    BY <1>3, <1>4, <2>3, <2>4 DEF Copiado
  <2> QED
    BY <1>7, <2>5 DEF Recorre, q2
<1> QED
  BY <1>1, <1>4, <1>6, <1>7, ReflejosExactos

\* The loop goes past an element of another process.
LEMMA RecorreAvanza ==
  ASSUME NEW s \in Salida, NEW q \in Seq(TCBs), Recorre(s, q), s.i <= Len(s.arr),
         s.arr[s.i].Pid # s.pid, NEW r, r.pid = s.pid, r.i = s.i + 1, r.arr = s.arr,
         r.alias = s.alias
  PROVE  Recorre(r, q)
<1>1. /\ Len(q) \in Nat /\ DOMAIN q = 1..Len(q) /\ Len(s.arr) \in Nat
      /\ s.i \in Nat /\ s.i >= 1
  BY Indices, LenProperties DEF Salida
<1>2. /\ \A k \in s.i..Len(s.arr) : k = s.i \/ k \in (s.i + 1)..Len(s.arr)
      /\ \A k \in (s.i + 1)..Len(s.arr) : k \in s.i..Len(s.arr)
  BY <1>1
<1>3. CASE s.alias
  <2>1. Alineado(s, q)
    BY <1>3 DEF Recorre
  <2>2. \A k \in DOMAIN q : q[k].Pid = s.pid => k \in (s.i + 1)..Len(s.arr)
    BY <1>1, <1>2, <2>1 DEF Alineado
  <2> QED
    BY <1>2, <1>3, <2>1, <2>2 DEF Recorre, Alineado
<1>4. CASE ~s.alias
  <2>1. Copiado(s, q)
    BY <1>4 DEF Recorre
  <2>2. \A k \in DOMAIN q : q[k].Pid = s.pid =>
          \E l \in (s.i + 1)..Len(s.arr) : s.arr[l] = q[k]
    BY <1>2, <2>1 DEF Copiado
  <2> QED
    BY <1>2, <1>4, <2>1, <2>2 DEF Recorre, Copiado
<1> QED
  BY <1>3, <1>4

\* The loop goes past a thread of the process, which leaves the queue: the places of
\* those behind it move back by one, and none is one that the loop has passed.
LEMMA RecorreQuita ==
  ASSUME NEW s \in Salida, NEW q \in Seq(TCBs), Unico(q), Recorre(s, q), s.i <= Len(s.arr),
         s.arr[s.i].Pid = s.pid, NEW p \in 1..Len(q), q[p] = s.arr[s.i],
         NEW s2 \in Salida, s2.pid = s.pid, s2.i = s.i + 1, s2.arr = s.arr, s2.alias = s.alias,
         NEW r \in Reflejos(s2, q, Sin(q, p))
  PROVE  Recorre(r, Sin(q, p))
<1> DEFINE n == Len(q)
           m == Len(s.arr)
           i == s.i
           P == s.pid
           q2 == Sin(q, p)
<1>1. /\ n \in Nat /\ DOMAIN q = 1..n /\ m \in Nat /\ i \in Nat /\ i >= 1 /\ i \in i..m
      /\ s.alias \in BOOLEAN /\ p \in 1..n
  BY Indices, LenProperties DEF Salida
<1>2. /\ q2 \in Seq(TCBs) /\ Len(q2) = n - 1 /\ Rango(q2) = Rango(q) \ {q[p]}
      /\ \A k \in 1..(n - 1) : q2[k] = IF k < p THEN q[k] ELSE q[k + 1]
  BY SinUno
<1>3. DOMAIN q2 = 1..(n - 1)
  BY <1>2, Indices
<1> HIDE DEF q2
<1>4. /\ r.pid = P /\ r.i = i + 1 /\ Len(r.arr) = m /\ (r.alias <=> s.alias)
      /\ ~s.alias => r.arr = s.arr
      /\ s.alias => \A k \in 1..m : r.arr[k] = IF k <= n - 1 THEN q2[k] ELSE s.arr[k]
  <2>1. ~(n - 1 > n)
    BY <1>1
  <2> QED
    BY <1>2, <2>1, ReflejosExactos DEF q2
<1>5. CASE s.alias
  <2>1. Alineado(s, q)
    BY <1>5 DEF Recorre
  <2>2. p = i /\ i \in 1..n /\ q[i].Pid = P
    BY <1>1, <2>1 DEF Alineado, Unico
  <2>3. \A k \in 1..n : q[k].Pid = P => k \in i..m /\ k # i + 1 /\ (k = n => i = n)
    <3>1. ASSUME NEW k \in 1..n, q[k].Pid = P
          PROVE  k \in i..m /\ k # i + 1 /\ (k = n => i = n)
      <4>1. k \in i..m
        BY <1>1, <2>1, <3>1 DEF Alineado
      <4>2. i < k => k # i + 1 /\ k # n
        BY <1>1, <2>1, <2>2, <3>1 DEF Alineado
      <4>3. k = i \/ i < k
        BY <1>1, <4>1
      <4>4. i # i + 1
        BY <1>1
      <4> QED
        BY <4>1, <4>2, <4>3, <4>4
    <3> QED
      BY <3>1
  <2>4. \A k \in 1..(n - 1) : q2[k].Pid = P =>
          k + 1 \in 1..n /\ q2[k] = q[k + 1] /\ q[k + 1].Pid = P /\ k \in (i + 1)..m
    <3>1. ASSUME NEW k \in 1..(n - 1), q2[k].Pid = P
          PROVE  k + 1 \in 1..n /\ q2[k] = q[k + 1] /\ q[k + 1].Pid = P /\ k \in (i + 1)..m
      <4>1. k \in 1..n /\ k + 1 \in 1..n
        BY <1>1
      <4>2. ~(k < i)
        BY <1>2, <2>2, <2>3, <3>1, <4>1
      <4>3. q2[k] = q[k + 1]
        BY <1>2, <2>2, <4>2
      <4>4. k + 1 \in i..m /\ k + 1 # i + 1
        BY <2>3, <3>1, <4>1, <4>3
      <4> QED
        BY <1>1, <3>1, <4>1, <4>2, <4>3, <4>4
    <3> QED
      BY <3>1
  <2>5. \A k \in 1..(n - 1) : k <= m => r.arr[k] = q2[k]
    BY <1>1, <1>4, <1>5
  <2>6. ASSUME NEW k \in (i + 1)..m, r.arr[k].Pid = P PROVE k \in 1..(n - 1)
    <3> SUFFICES ASSUME k > n - 1 PROVE FALSE
      BY <1>1
    <3>1. k \in 1..m /\ k \in i..m /\ r.arr[k] = s.arr[k]
      BY <1>1, <1>4, <1>5
    <3>2. k \in 1..n /\ q[k].Pid = P
      BY <1>1, <2>1, <2>6, <3>1 DEF Alineado
    <3>3. k \in Nat /\ k >= i + 1 /\ k <= n
      BY <1>1, <3>2
    <3>4. k = n /\ k # i
      <4>1. n \in Nat /\ i \in Nat /\ k > n - 1
        BY <1>1
      <4> HIDE DEF n, i
      <4> QED
        BY <3>3, <4>1
    <3> QED
      BY <2>3, <3>2, <3>4
  <2>7. \A j, k \in 1..(n - 1) :
          (j < k /\ q2[j].Pid = P /\ q2[k].Pid = P) => k # j + 1 /\ k # n - 1
    <3>1. ASSUME NEW j \in 1..(n - 1), NEW k \in 1..(n - 1), j < k,
                 q2[j].Pid = P, q2[k].Pid = P
          PROVE  k # j + 1 /\ k # n - 1
      <4>1. /\ j + 1 \in 1..n /\ k + 1 \in 1..n /\ j + 1 < k + 1
            /\ q[j + 1].Pid = P /\ q[k + 1].Pid = P
        BY <2>4, <3>1
      <4>2. k + 1 # (j + 1) + 1 /\ k + 1 # n
        BY <1>1, <2>1, <4>1 DEF Alineado
      <4>3. n \in Int /\ j \in Int /\ k \in Int
        BY <1>1
      <4> HIDE DEF n
      <4> QED
        BY <4>2, <4>3
    <3> QED
      BY <3>1
  <2>8. Alineado(r, q2)
    <3>1. /\ DOMAIN q2 = 1..(n - 1) /\ Len(q2) = n - 1
          /\ r.pid = P /\ r.i = i + 1 /\ Len(r.arr) = m
      BY <1>2, <1>3, <1>4
    <3> HIDE DEF n, m, i, P
    <3> QED
      BY <2>4, <2>5, <2>6, <2>7, <3>1 DEF Alineado
  <2> QED
    BY <1>4, <1>5, <2>8 DEF Recorre, q2
<1>6. CASE ~s.alias
  <2>1. Copiado(s, q) /\ r.arr = s.arr
    BY <1>4, <1>6 DEF Recorre
  <2>2. /\ \A k \in i..m : k = i \/ k \in (i + 1)..m
        /\ \A k \in (i + 1)..m : k \in i..m /\ k # i
    BY <1>1
  <2>3. ASSUME NEW k \in 1..(n - 1), q2[k].Pid = P
        PROVE  \E l \in (i + 1)..m : s.arr[l] = q2[k]
    <3>1. q2[k] \in Rango(q) /\ q2[k] # s.arr[i]
      BY <1>2, <1>3 DEF Rango
    <3>2. PICK k2 \in DOMAIN q : q[k2] = q2[k]
      BY <3>1 DEF Rango
    <3>3. PICK l \in i..m : s.arr[l] = q2[k]
      BY <2>1, <2>3, <3>2 DEF Copiado
    <3> QED
      BY <2>2, <3>1, <3>3
  <2>4. ASSUME NEW k \in (i + 1)..m, s.arr[k].Pid = P PROVE s.arr[k] \in Rango(q2)
    <3>1. s.arr[k] \in Rango(q) /\ s.arr[k] # s.arr[i]
      BY <1>1, <2>1, <2>2, <2>4 DEF Copiado
    <3> QED
      BY <1>2, <3>1
  <2>5. \A k, l \in (i + 1)..m : s.arr[k].Pid = P => (s.arr[l] = s.arr[k] => l = k)
    BY <2>1, <2>2 DEF Copiado
  <2>6. Copiado(r, q2)
    <3>1. /\ DOMAIN q2 = 1..(n - 1) /\ r.arr = s.arr
          /\ r.pid = P /\ r.i = i + 1 /\ Len(r.arr) = m
      BY <1>3, <1>4, <2>1
    <3> HIDE DEF n, m, i, P
    <3> QED
      BY <2>3, <2>4, <2>5, <3>1 DEF Copiado
  <2> QED
    BY <1>4, <1>6, <2>6 DEF Recorre, q2
<1> QED
  BY <1>1, <1>5, <1>6

\* The next element is a thread in ready, if it is one of the process; past the
\* last one nobody of the process is in ready.
LEMMA RecorreElemento ==
  ASSUME NEW s \in Salida, NEW q \in Seq(TCBs), Recorre(s, q)
  PROVE  /\ (s.i <= Len(s.arr) /\ s.arr[s.i].Pid = s.pid) => s.arr[s.i] \in Rango(q)
         /\ s.i > Len(s.arr) => \A t \in Rango(q) : t.Pid # s.pid
<1>1. /\ Len(s.arr) \in Nat /\ s.i \in Nat /\ s.i >= 1 /\ s.alias \in BOOLEAN
      /\ s.i <= Len(s.arr) => s.i \in s.i..Len(s.arr)
      /\ s.i > Len(s.arr) => s.i..Len(s.arr) = {}
  BY LenProperties DEF Salida
<1>2. CASE s.alias
  BY <1>1, <1>2 DEF Recorre, Alineado, Rango
<1>3. CASE ~s.alias
  BY <1>1, <1>3 DEF Recorre, Copiado, Rango
<1> QED
  BY <1>1, <1>2, <1>3

\* A ready queue that is the same, or gets a thread of another process, keeps
\* its place in the walk.
LEMMA RecorreReadySigue ==
  ASSUME TypeOK, Unico(colaReadyHilo), Reflejar, salida.fase = "ready", RecorreReady,
         \/ colaReadyHilo' = colaReadyHilo
         \/ \E t \in TCBs : t.Pid # salida.pid /\ colaReadyHilo' = Append(colaReadyHilo, t)
  PROVE  RecorreReady'
<1>1. colaReadyHilo \in Seq(TCBs) /\ salida \in Salida
  BY DEF TypeOK, TipoColas, TipoFinales
<1>2. salida' \in Reflejos(salida, colaReadyHilo, colaReadyHilo')
  BY DEF Reflejar, ReflejosDe
<1>3. Recorre(salida, colaReadyHilo)
  BY DEF RecorreReady
<1>4. Recorre(salida', colaReadyHilo')
  BY <1>1, <1>2, <1>3, RecorreMismo, RecorreAgrega
<1> QED
  BY <1>4 DEF RecorreReady, Recorre, Alineado, Copiado

\* A block queue that is the same, or loses a thread of another process.
LEMMA RecorreBlockSigue ==
  ASSUME TypeOK, TypeOK', Lugares, AlFinal, Reflejar, salida.fase = "block", RecorreBlock,
         hilo' = hilo, Bloqueados' \subseteq Bloqueados,
         salida.pid = hilo[1], \A t \in Bloqueados : t.Pid = salida.pid => IdDe(t) = hilo,
         \/ colaBlockHilo' = colaBlockHilo
         \/ \E t \in Bloqueados : /\ t.Pid # salida.pid
                                  /\ colaBlockHilo' = eliminarHiloCola(colaBlockHilo, IdDe(t))
  PROVE  RecorreBlock'
<1> DEFINE n == Len(colaBlockHilo)
           arr == salida.arr
           m == Len(arr)
<1>1. /\ colaBlockHilo \in Seq(TCBs) /\ colaReadyHilo' \in Seq(TCBs)
      /\ colaBlockHilo' \in Seq(TCBs) /\ salida \in Salida /\ arr \in Seq(TCBs)
  BY DEF TypeOK, TipoColas, TipoFinales, Salida
<1>2. n \in Nat /\ DOMAIN colaBlockHilo = 1..n /\ m \in Nat /\ DOMAIN arr = 1..m
  BY <1>1, Indices
<1>3. /\ salida'.pid = salida.pid /\ salida'.i = salida.i /\ Len(salida'.arr) = m
      /\ DOMAIN salida'.arr = 1..m
      /\ \A k \in 1..m : \/ salida'.arr[k] = arr[k]
                         \/ k \in DOMAIN colaBlockHilo' /\ salida'.arr[k] = colaBlockHilo'[k]
  <2>1. /\ salida'.pid = salida.pid /\ salida'.i = salida.i /\ Len(salida'.arr) = m
        /\ salida'.arr \in Seq(TCBs)
        /\ \A k \in 1..m : \/ salida'.arr[k] = arr[k]
                           \/ k \in DOMAIN colaBlockHilo' /\ salida'.arr[k] = colaBlockHilo'[k]
    BY <1>1, ReflejosDeHechos DEF Reflejar
  <2> QED
    BY <2>1, Indices
<1>4. ASSUME NEW k \in 1..m, salida'.arr[k].Pid = salida.pid
      PROVE  IdDe(salida'.arr[k]) = hilo
  <2>1. CASE salida'.arr[k] = arr[k]
    BY <1>2, <1>4, <2>1 DEF RecorreBlock
  <2>2. CASE k \in DOMAIN colaBlockHilo' /\ salida'.arr[k] = colaBlockHilo'[k]
    <3>1. salida'.arr[k] \in Bloqueados
      BY <2>2 DEF Bloqueados, Rango
    <3> QED
      BY <1>4, <3>1
  <2> QED
    BY <1>3, <2>1, <2>2
<1>5. ASSUME hilo \in IdsDe(Bloqueados')
      PROVE  /\ salida.i <= m /\ m >= Len(colaBlockHilo')
             /\ salida'.arr[m] = colaBlockHilo'[Len(colaBlockHilo')]
  <2>1. PICK u \in Bloqueados : u \in Bloqueados' /\ IdDe(u) = hilo
    BY <1>5 DEF IdsDe
  <2>2. /\ n \in 1..n /\ colaBlockHilo[n] = u
    <3>0. u \in Rango(colaBlockHilo)
      BY <2>1 DEF Bloqueados
    <3>1. PICK k \in 1..n : colaBlockHilo[k] = u
      BY <1>2, <3>0, Zenon DEF Rango
    <3>2. k = n
      BY <1>2, <2>1, <3>1 DEF AlFinal
    <3> QED
      BY <3>1, <3>2
  <2>3. salida.i <= m /\ m >= n /\ arr[m] = u
    BY <2>1, <2>2 DEF RecorreBlock, IdsDe
  <2>4. m \in 1..m
    BY <1>2, <2>2, <2>3
  <2>5. CASE colaBlockHilo' = colaBlockHilo
    <3>1. salida'.arr[m] = u
      <4>1. salida'.arr[m] = arr[m] \/ (m \in 1..n /\ salida'.arr[m] = colaBlockHilo[m])
        BY <1>2, <1>3, <2>4, <2>5
      <4>2. m \in 1..n => m = n
        BY <1>2, <2>3
      <4> QED
        BY <2>2, <2>3, <4>1, <4>2
    <3> QED
      BY <2>2, <2>3, <2>5, <3>1
  <2>6. ASSUME NEW t \in Bloqueados, t.Pid # salida.pid,
               colaBlockHilo' = eliminarHiloCola(colaBlockHilo, IdDe(t))
        PROVE  m >= Len(colaBlockHilo') /\ salida'.arr[m] = colaBlockHilo'[Len(colaBlockHilo')]
    <3>1. Unico(colaBlockHilo)
      BY DEF Lugares
    <3>2. PICK p \in 1..n : colaBlockHilo[p] = t /\ colaBlockHilo' = Sin(colaBlockHilo, p)
      BY <1>1, <2>6, <3>1, Quitar DEF Bloqueados
    <3>3. /\ Len(colaBlockHilo') = n - 1
          /\ \A i \in 1..(n - 1) : colaBlockHilo'[i] = IF i < p THEN colaBlockHilo[i]
                                                       ELSE colaBlockHilo[i + 1]
      BY <1>1, <3>1, <3>2, SinUno
    <3>4. p # n
      <4>1. u.Pid = salida.pid
        BY <2>1 DEF IdDe
      <4> QED
        BY <2>2, <2>6, <3>2, <4>1
    <3>5. n - 1 \in 1..(n - 1) /\ ~(n - 1 < p) /\ (n - 1) + 1 = n
      <4>1. n \in Nat /\ p \in Nat /\ 1 <= p /\ p <= n
        BY <1>2, <3>2
      <4> QED
        BY <3>4, <4>1
    <3>6. colaBlockHilo'[n - 1] = u
      BY <2>2, <3>3, <3>5
    <3>7. DOMAIN colaBlockHilo' = 1..(n - 1)
      BY <1>1, <3>3, Indices
    <3>8. m \notin DOMAIN colaBlockHilo'
      BY <1>2, <2>3, <3>7
    <3>9. salida'.arr[m] = u
      BY <1>3, <2>3, <2>4, <3>8
    <3> QED
      BY <1>2, <2>3, <3>3, <3>6, <3>9
  <2> QED
    BY <2>3, <2>5, <2>6
<1> QED
  BY <1>3, <1>4, <1>5 DEF RecorreBlock

\* A step that is not one of exitProcess keeps what the loops are to find.
LEMMA RecorridoSigue ==
  ASSUME TypeOK, TypeOK', Lugares, AlFinal, Recorrido, Reflejar,
         hilo' = hilo, colaExecHilo' = colaExecHilo, nextTid' = nextTid,
         DOMAIN colaProcesosInicializados' = DOMAIN colaProcesosInicializados,
         \/ colaReadyHilo' = colaReadyHilo
         \/ \E t \in TCBs : t.Pid # salida.pid /\ colaReadyHilo' = Append(colaReadyHilo, t),
         \/ colaBlockHilo' = colaBlockHilo
         \/ \E t \in Bloqueados : /\ t.Pid # salida.pid
                                  /\ colaBlockHilo' = eliminarHiloCola(colaBlockHilo, IdDe(t)),
         Bloqueados' \subseteq Bloqueados,
         Dormidos' \cup Despiertos' \subseteq Dormidos \cup Despiertos
  PROVE  Recorrido'
<1>1. /\ colaReadyHilo \in Seq(TCBs) /\ colaReadyHilo' \in Seq(TCBs)
      /\ colaBlockHilo' \in Seq(TCBs) /\ salida \in Salida
  BY DEF TypeOK, TipoColas, TipoFinales
<1>2. /\ salida'.pid = salida.pid /\ salida'.fase = salida.fase
      /\ salida.fase \notin {"ready", "block"} => salida' = salida
  BY <1>1, ReflejosDeHechos DEF Reflejar
<1> SUFFICES ASSUME salida.fase # "nada" PROVE Recorrido'
  BY <1>2, RecorridoNada
<1>3. \A t \in Listos' : t \in Listos \/ t.Pid # salida.pid
  <2>1. CASE colaReadyHilo' = colaReadyHilo
    BY <2>1 DEF Listos
  <2>2. ASSUME NEW t \in TCBs, t.Pid # salida.pid, colaReadyHilo' = Append(colaReadyHilo, t)
        PROVE  \A u \in Listos' : u \in Listos \/ u.Pid # salida.pid
    BY <1>1, <2>2, Agregar DEF Listos
  <2> QED
    BY <2>1, <2>2
<1>4. Creados' = Creados /\ (Corre' <=> Corre)
  BY DEF Creados, Pids, Corre
<1>5. /\ salida.pid = hilo[1] /\ hilo \in Creados
      /\ colaExecHilo = <<>> \/ Corre
      /\ salida.fase \notin {"ready", "exec"} => colaExecHilo = <<>>
      /\ salida.fase # "iniciar" => salida.pid \in DOMAIN colaProcesosInicializados
      /\ salida.fase \in {"memoria", "iniciar"} => hilo \notin IdsDe(Bloqueados)
      /\ \A t \in Bloqueados : t.Pid = salida.pid => IdDe(t) = hilo
      /\ \A t \in Dormidos \cup Despiertos : t.Pid # salida.pid
      /\ salida.fase # "ready" => \A t \in Listos : t.Pid # salida.pid
  BY DEF Recorrido
<1>6. salida.fase = "ready" => RecorreReady'
  BY RecorreReadySigue DEF Recorrido, Lugares
<1>7. salida.fase = "exec" => RecorreExec'
  BY <1>2 DEF Recorrido, RecorreExec
<1>8. salida.fase = "block" => RecorreBlock'
  BY <1>5, RecorreBlockSigue DEF Recorrido
<1>9. IdsDe(Bloqueados') \subseteq IdsDe(Bloqueados)
  BY DEF IdsDe
<1> HIDE DEF Reflejar
<1>10. /\ salida'.pid = hilo'[1] /\ hilo' \in Creados'
       /\ colaExecHilo' = <<>> \/ Corre'
       /\ salida'.fase \notin {"ready", "exec"} => colaExecHilo' = <<>>
       /\ salida'.fase # "iniciar" => salida'.pid \in DOMAIN colaProcesosInicializados'
       /\ salida'.fase \in {"memoria", "iniciar"} => hilo' \notin IdsDe(Bloqueados')
       /\ \A t \in Bloqueados' : t.Pid = salida'.pid => IdDe(t) = hilo'
       /\ \A t \in Dormidos' \cup Despiertos' : t.Pid # salida'.pid
       /\ salida'.fase # "ready" => \A t \in Listos' : t.Pid # salida'.pid
  BY <1>2, <1>3, <1>4, <1>5, <1>9
<1> QED
  BY <1>2, <1>6, <1>7, <1>8, <1>10 DEF Recorrido

\* A step of a goroutine leaves the chain where it is.
LEMMA CadenaSigue ==
  ASSUME TypeOK, TypeOK', Cadena, Reflejar, Bloqueados' \subseteq Bloqueados,
         UNCHANGED <<pc, hilo, pendientes, sinContexto, colaExecHilo, saliendo, colaExitHilo, nextTid>>
  PROVE  Cadena'
<1>1. /\ colaReadyHilo' \in Seq(TCBs) /\ colaBlockHilo' \in Seq(TCBs) /\ salida \in Salida
  BY DEF TypeOK, TipoColas, TipoFinales
<1>2. /\ salida'.pid = salida.pid /\ salida'.fase = salida.fase
      /\ salida.fase = "nada" => salida' = salida
  BY <1>1, ReflejosDeHechos DEF Reflejar
<1>3. Creados' = Creados /\ (Corre' <=> Corre) /\ IdsDe(Bloqueados') \subseteq IdsDe(Bloqueados)
  BY DEF Creados, Pids, Corre, IdsDe
<1> HIDE DEF Reflejar
<1>4. SaliendoSano => SaliendoSano'
  BY <1>2, <1>3 DEF SaliendoSano
<1> QED
  BY <1>2, <1>3, <1>4 DEF Cadena

\* The first step of the goroutine of an IO.
LEMMA HilosTerminaIo ==
  ASSUME Sano, TypeOK', NEW e \in esperas, TerminaIo(e)
  PROVE  HInv'
<1> USE DEF Sano, HInv, IInv
<1> DEFINE t == e.tcb
           f == [e EXCEPT !.paso = "encolar"]
<1>1. /\ e.paso = "durmiendo" /\ colaBlockHilo' = eliminarHiloCola(colaBlockHilo, IdDe(t))
      /\ esperas' = (esperas \ {e}) \cup {f} /\ Reflejar
      /\ UNCHANGED <<colaReadyHilo, colaExecHilo, colaExitHilo, nextTid, pc, hilo, pendientes,
                     sinContexto, saliendo, colaProcesosInicializados>>
  BY DEF TerminaIo, SinSuHilo, QuedaEncolar, procesos, cadena
<1>2. /\ Lugares' /\ UNCHANGED <<Listos, EnCpu, Vivos>>
      /\ t \in Bloqueados
      /\ Bloqueados' = Bloqueados \ {t} /\ Dormidos' = Dormidos \ {t}
      /\ Despiertos' = Despiertos \cup {t}
  BY <1>1, EfectoTerminaIo
<1>3. t \in Dormidos /\ f.paso = "encolar"
  BY <1>1 DEF Dormidos, TypeOK, Esperas
<1>4. EnMutex \subseteq Bloqueados /\ t \notin EnMutex
  BY <1>3, EnMutexHechos DEF Razones
<1>5. salida'.fase = salida.fase
  BY <1>1, ReflejosDeHechos DEF Reflejar, TypeOK, TipoColas, TipoFinales
<1> HIDE DEF t, f
<1>6. Parejas' /\ Joins' /\ Razones' /\ Vidas' /\ MutexSanos'
  <2>1. /\ EnMutex \subseteq Bloqueados' /\ Dormidos' \cap EnMutex = {}
        /\ (Bloqueados' \ Dormidos') \ EnMutex = (Bloqueados \ Dormidos) \ EnMutex
        /\ Dormidos' \subseteq Dormidos
    BY <1>2, <1>3, <1>4 DEF Razones
  <2> QED
    BY <1>1, <1>2, <1>5, <2>1, PasoQuieto
<1>7. Cadena'
  BY <1>1, <1>2, CadenaSigue
<1>8. AlFinal'
  BY <1>1, <1>2, AlFinalQuita
<1>9. Dumps'
  BY <1>1, <1>3 DEF Dumps
<1>10. Recorrido'
  <2>1. CASE salida.fase = "nada"
    BY <1>5, <2>1, RecorridoNada
  <2>2. CASE salida.fase # "nada"
    <3>1. t.Pid # salida.pid
      BY <1>3, <2>2 DEF Recorrido
    <3>2. /\ Bloqueados' \subseteq Bloqueados
          /\ Dormidos' \cup Despiertos' \subseteq Dormidos \cup Despiertos
      BY <1>2, <1>3
    <3> QED
      BY <1>1, <1>2, <3>1, <3>2, RecorridoSigue
  <2> QED
    BY <2>1, <2>2
<1> QED
  BY <1>2, <1>6, <1>7, <1>8, <1>9, <1>10

\* The second one.
LEMMA HilosEncolaIo ==
  ASSUME Sano, TypeOK', NEW e \in esperas, EncolaIo(e)
  PROVE  HInv'
<1> USE DEF Sano, HInv, IInv
<1> DEFINE t == e.tcb
<1>1. /\ e.paso = "encolar" /\ colaReadyHilo' = Append(colaReadyHilo, t)
      /\ esperas' = esperas \ {e} /\ Reflejar
      /\ UNCHANGED <<colaExecHilo, colaBlockHilo, colaExitHilo, nextTid, pc, hilo, pendientes,
                     sinContexto, saliendo, colaProcesosInicializados>>
  BY DEF EncolaIo, procesos, cadena
<1>2. /\ Lugares' /\ UNCHANGED <<EnCpu, Bloqueados, Dormidos, Vivos>>
      /\ t \in Despiertos
      /\ Listos' = Listos \cup {t} /\ Despiertos' = Despiertos \ {t}
  BY <1>1, EfectoEncolaIo
<1>3. salida'.fase = salida.fase
  BY <1>1, ReflejosDeHechos DEF Reflejar, TypeOK, TipoColas, TipoFinales
<1> HIDE DEF t
<1>4. Parejas' /\ Joins' /\ Razones' /\ Vidas' /\ MutexSanos'
  <2>1. EnMutex \subseteq Bloqueados' /\ Dormidos' \cap EnMutex = {}
    BY <1>2, EnMutexHechos DEF Razones
  <2> QED
    BY <1>1, <1>2, <1>3, <2>1, PasoQuieto
<1>5. Cadena'
  BY <1>1, <1>2, CadenaSigue
<1>6. AlFinal'
  BY <1>1, AlFinalQuita
<1>7. Dumps'
  BY <1>1 DEF Dumps
<1>8. Recorrido'
  <2>1. CASE salida.fase = "nada"
    BY <1>3, <2>1, RecorridoNada
  <2>2. CASE salida.fase # "nada"
    <3>1. t.Pid # salida.pid /\ t \in TCBs
      BY <1>2, <2>2, TipoLugares DEF Recorrido
    <3>2. /\ Bloqueados' \subseteq Bloqueados
          /\ Dormidos' \cup Despiertos' \subseteq Dormidos \cup Despiertos
      BY <1>2
    <3> QED
      BY <1>1, <1>2, <3>1, <3>2, RecorridoSigue
  <2> QED
    BY <2>1, <2>2
<1> QED
  BY <1>2, <1>4, <1>5, <1>6, <1>7, <1>8

\* A thread is created, and nothing else happens to the others.
LEMMA PasoNace ==
  ASSUME TypeOK, HInv, NEW t \in TCBs, t.HilosBloqueados = <<>>, Vivos' = Vivos \cup {t},
         UNCHANGED <<Bloqueados, Dormidos, saliendo, salida, hilo, colaExitHilo>>,
         DOMAIN colaProcesosInicializados' = DOMAIN colaProcesosInicializados \cup {t.Pid},
         \A p \in DOMAIN colaProcesosInicializados :
           colaProcesosInicializados'[p] = colaProcesosInicializados[p],
         t.Pid \notin DOMAIN colaProcesosInicializados => colaProcesosInicializados'[t.Pid] = <<>>
  PROVE  Parejas' /\ Joins' /\ Razones' /\ Vidas' /\ MutexSanos'
<1> USE DEF HInv
<1> DEFINE ini == colaProcesosInicializados
<1>1. DOMAIN t.HilosBloqueados = {} /\ Recuerdos(t) = {}
  BY EmptySeq DEF Recuerdos
<1>2. EnMutex' = EnMutex
  <2>1. ASSUME NEW p \in DOMAIN ini', NEW j \in DOMAIN ini'[p]
        PROVE  p \in DOMAIN ini /\ ini'[p] = ini[p]
    BY EmptySeq
  <2>2. \A p \in DOMAIN ini : p \in DOMAIN ini' /\ ini'[p] = ini[p]
    OBVIOUS
  <2> HIDE DEF ini
  <2>3. ASSUME NEW u \in EnMutex' PROVE u \in EnMutex
    BY <2>1 DEF EnMutex, ini
  <2>4. ASSUME NEW u \in EnMutex PROVE u \in EnMutex'
    BY <2>2 DEF EnMutex, ini
  <2> QED
    BY <2>3, <2>4
<1>3. Faltan' = Faltan /\ Recordados' = Recordados
  <2>1. Faltan' = Faltan
    BY DEF Faltan
  <2>2. UNION {Recuerdos(u) : u \in Vivos \cup {t}} = UNION {Recuerdos(u) : u \in Vivos}
    BY <1>1
  <2> QED
    BY <2>1, <2>2 DEF Recordados
<1>4. EnJoin' = EnJoin
  BY <1>2 DEF EnJoin, Condenado
<1>5. Parejas'
  <2>1. SinRepetir(t.HilosBloqueados)
    BY <1>1 DEF SinRepetir
  <2> QED
    BY <1>1, <1>3, <2>1 DEF Parejas
<1>6. Joins'
  BY <1>3, <1>4 DEF Joins, IdsDe
<1>7. Razones'
  BY <1>2 DEF Razones, Condenado
<1>8. Vidas'
  BY DEF Vidas
<1>9. MutexSanos'
  <2>1. IdsDe(Vivos) \subseteq IdsDe(Vivos')
    BY DEF IdsDe
  <2>2. ASSUME NEW p \in DOMAIN ini PROVE Len(ini'[p]) <= 1 /\ \A j \in DOMAIN ini'[p] : MutexSano(p, ini[p][j])'
    <3>1. Len(ini[p]) <= 1 /\ \A j \in DOMAIN ini[p] : MutexSano(p, ini[p][j])
      BY DEF MutexSanos
    <3> SUFFICES ASSUME NEW j \in DOMAIN ini[p] PROVE MutexSano(p, ini[p][j])'
      BY <3>1
    <3>2. MutexSano(p, ini[p][j]) /\ ini'[p][j] = ini[p][j]
      BY <3>1
    <3> QED
      BY <2>1, <3>2 DEF MutexSano
  <2>3. ASSUME NEW p \in DOMAIN ini', p \notin DOMAIN ini
        PROVE  Len(ini'[p]) <= 1 /\ DOMAIN ini'[p] = {}
    <3>1. ini'[p] = <<>>
      BY <2>3
    <3> QED
      BY <3>1, EmptySeq
  <2> QED
    BY <2>2, <2>3 DEF MutexSanos
<1> QED
  BY <1>5, <1>6, <1>7, <1>8, <1>9

\* The first thread of a process enters ready.
LEMMA EfectoArrancar ==
  ASSUME TypeOK, PidsEnOrden, Lugares, NEW pid, pid = Len(nextTid) + 1, NEW prioridad \in Nat,
         NEW abre, ArrancarProceso(pid, prioridad, abre),
         UNCHANGED <<colaExecHilo, colaBlockHilo, esperas, colaExitHilo>>
  PROVE  \E t \in TCBs :
           /\ t.Pid = pid /\ t.Tid = 0 /\ t.HilosBloqueados = <<>>
           /\ pid \notin DOMAIN colaProcesosInicializados
           /\ DOMAIN colaProcesosInicializados' = DOMAIN colaProcesosInicializados \cup {pid}
           /\ \A p \in DOMAIN colaProcesosInicializados :
                colaProcesosInicializados'[p] = colaProcesosInicializados[p]
           /\ colaProcesosInicializados'[pid] = <<>>
           /\ colaReadyHilo' = Append(colaReadyHilo, t)
           /\ Lugares' /\ UNCHANGED <<EnCpu, Bloqueados, Dormidos, Despiertos>>
           /\ Listos' = Listos \cup {t} /\ Vivos' = Vivos \cup {t}
           /\ Creados \subseteq Creados'
           /\ abre => sinContexto' = sinContexto
<1> DEFINE siguientes == Append(nextTid, 0)
           t == [Pid |-> pid, Tid |-> siguientes[pid], Prioridad |-> prioridad,
                 HilosBloqueados |-> <<>>]
<1>1. nextTid \in Seq(Nat) /\ Len(nextTid) \in Nat
  BY LenProperties DEF TypeOK, TipoProcesos
<1>2. /\ siguientes \in Seq(Nat) /\ Len(siguientes) = Len(nextTid) + 1 /\ siguientes[pid] = 0
      /\ pid \in 1..Len(siguientes) /\ pid \in Nat /\ pid # 0
  BY <1>1, AppendProperties
<1>3. /\ t \in TCBs /\ t.Pid = pid /\ t.Tid = 0 /\ t.HilosBloqueados = <<>>
      /\ IdDe(t) = <<pid, siguientes[pid]>>
  BY <1>2, EmptySeq DEF TCBs, IdDe
<1>4. nextTid' = [siguientes EXCEPT ![pid] = siguientes[pid] + 1]
  BY DEF ArrancarProceso
<1>5. /\ colaReadyHilo' = Append(colaReadyHilo, t)
      /\ colaProcesosInicializados' =
           [p \in DOMAIN colaProcesosInicializados \cup {pid} |->
              IF p = pid THEN <<>> ELSE colaProcesosInicializados[p]]
      /\ abre => sinContexto' = sinContexto
  BY DEF ArrancarProceso
<1>6. pid \notin DOMAIN colaProcesosInicializados
  BY <1>1 DEF PidsEnOrden, Pids
<1>7. siguientes = nextTid \/ siguientes = Append(nextTid, 0)
  OBVIOUS
<1> HIDE DEF siguientes, t
<1>8. Creados' = Creados \cup {IdDe(t)} /\ IdDe(t) \notin Creados
  BY <1>1, <1>2, <1>3, <1>4, <1>7, CreadosCrece
<1>9. IdDe(t) # NingunHilo
  BY <1>2, <1>3 DEF NingunHilo
<1>10. /\ Lugares' /\ UNCHANGED <<EnCpu, Bloqueados, Dormidos, Despiertos>>
       /\ Listos' = Listos \cup {t} /\ Vivos' = Vivos \cup {t}
  BY <1>3, <1>5, <1>8, <1>9, EfectoCrear
<1> QED
  BY <1>3, <1>5, <1>6, <1>8, <1>10

\* PROCESS_CREATE: the process starts, or waits for memory.
LEMMA HilosCrearProceso ==
  ASSUME ReglasCumplidas, Sano, NEW prioridad \in Nat, NEW hay, NEW abre,
         CrearProceso(prioridad, hay, abre)
  PROVE  HInv'
<1> USE DEF Sano, HInv, IInv
<1>1. pc = "cpu" /\ salida.fase = "nada"
  BY ConActual DEF CrearProceso, Llama
<1>2. hilo' = hilo /\ pc' = "despacho"
  BY <1>1, ConActual DEF CrearProceso, enviarTCBCpu
<1>3. UNCHANGED <<colaExecHilo, colaBlockHilo, pendientes, colaExitHilo, saliendo, salida, esperas>>
  BY DEF CrearProceso, finales
<1>4. CASE hay /\ colaProcesosSinIniciar = <<>>
  <2>1. abre
    BY DEF CrearProceso, Regla, ReglasCumplidas, ReglasDeHilos
  <2>2. nextPid = Len(nextTid) + 1 /\ ArrancarProceso(nextPid, prioridad, abre)
    <3>1. nextPid = Len(nextTid) + 1
      BY <1>4, LenProperties, EmptySeq DEF PidsEnOrden, TypeOK, TipoProcesos
    <3> QED
      BY <1>4, <3>1 DEF CrearProceso
  <2>3. PICK t \in TCBs :
           /\ t.Pid = nextPid /\ t.HilosBloqueados = <<>>
           /\ nextPid \notin DOMAIN colaProcesosInicializados
           /\ DOMAIN colaProcesosInicializados' = DOMAIN colaProcesosInicializados \cup {nextPid}
           /\ \A p \in DOMAIN colaProcesosInicializados :
                colaProcesosInicializados'[p] = colaProcesosInicializados[p]
           /\ colaProcesosInicializados'[nextPid] = <<>>
           /\ Lugares' /\ UNCHANGED <<EnCpu, Bloqueados, Dormidos, Despiertos>>
           /\ Vivos' = Vivos \cup {t}
           /\ abre => sinContexto' = sinContexto
    BY <1>3, <2>2, EfectoArrancar
  <2>4. Parejas' /\ Joins' /\ Razones' /\ Vidas' /\ MutexSanos'
    BY <1>2, <1>3, <2>3, PasoNace
  <2>5. Cadena'
    <3>1. Corre'
      BY <1>1, <1>2, <1>3 DEF Corre, Cadena
    <3> QED
      BY <1>1, <1>2, <1>3, <2>1, <2>3, <3>1, CadenaCpu
  <2>6. AlFinal' /\ Dumps'
    BY <1>1, <1>2, <1>3, AlFinalQuita, DumpsNinguno
  <2>7. Recorrido'
    BY <1>1, <1>3, RecorridoNada
  <2> QED
    BY <2>3, <2>4, <2>5, <2>6, <2>7
<1>5. CASE ~(hay /\ colaProcesosSinIniciar = <<>>)
  <2>1. SinMover /\ UNCHANGED <<colaProcesosInicializados, sinContexto>>
    BY <1>3, <1>5 DEF CrearProceso, SinMover, colas
  <2> QED
    BY <1>1, <1>2, <1>3, <2>1, HilosSigue
<1> QED
  BY <1>4, <1>5

\* THREAD_CREATE by the main thread of the process.
LEMMA HilosCrearHilo ==
  ASSUME ReglasCumplidas, Sano, NEW prioridad \in Nat, NEW abre, CrearHilo(prioridad, abre)
  PROVE  HInv'
<1> USE DEF Sano, HInv, IInv
<1> DEFINE pid == hilo[1]
           t == [Pid |-> pid, Tid |-> nextTid[pid], Prioridad |-> prioridad,
                 HilosBloqueados |-> <<>>]
<1>1. pc = "cpu" /\ salida.fase = "nada" /\ pid \in DOMAIN colaProcesosInicializados
  BY ConActual DEF CrearHilo, Llama
<1>2. hilo' = hilo /\ pc' = "despacho"
  <2>1. hilo[2] = 0
    BY DEF CrearHilo, Regla, ReglasCumplidas, ReglasDeHilos
  <2>2. hilo = <<pid, 0>>
    BY <2>1 DEF TypeOK, TipoCadena, Ids
  <2> QED
    BY <1>1, <2>2, ConActual DEF CrearHilo, enviarTCBCpu
<1>3. /\ UNCHANGED <<colaExecHilo, colaBlockHilo, pendientes, colaExitHilo, saliendo, salida, esperas,
                     colaProcesosInicializados, sinContexto>>
      /\ colaReadyHilo' = Append(colaReadyHilo, t)
      /\ nextTid' = [nextTid EXCEPT ![pid] = nextTid[pid] + 1]
  BY DEF CrearHilo, finales, Regla, ReglasCumplidas, ReglasDeHilos
<1>4. nextTid \in Seq(Nat) /\ pid \in 1..Len(nextTid) /\ nextTid[pid] \in Nat
  <2>1. nextTid \in Seq(Nat) /\ pid \in 1..Len(nextTid)
    BY <1>1 DEF PidsEnOrden, Pids, TypeOK, TipoProcesos
  <2> QED
    BY <2>1, ElementOfSeq
<1>5. pid \in Nat /\ pid # 0
  BY <1>4, LenProperties
<1>6. t \in TCBs /\ t.Pid = pid /\ t.HilosBloqueados = <<>> /\ IdDe(t) = <<pid, nextTid[pid]>>
  BY <1>4, <1>5, EmptySeq DEF TCBs, IdDe
<1> HIDE DEF pid, t
<1>7. Creados' = Creados \cup {IdDe(t)} /\ IdDe(t) \notin Creados
  BY <1>3, <1>4, <1>6, CreadosCrece
<1>8. IdDe(t) # NingunHilo
  BY <1>5, <1>6 DEF NingunHilo
<1>9. /\ Lugares' /\ UNCHANGED <<EnCpu, Bloqueados, Dormidos, Despiertos>>
      /\ Listos' = Listos \cup {t} /\ Vivos' = Vivos \cup {t}
  BY <1>3, <1>6, <1>7, <1>8, EfectoCrear
<1>10. Parejas' /\ Joins' /\ Razones' /\ Vidas' /\ MutexSanos'
  BY <1>1, <1>2, <1>3, <1>6, <1>9, PasoNace
<1>11. Cadena'
  <2>1. Corre'
    BY <1>1, <1>2, <1>3 DEF Corre, Cadena
  <2> QED
    BY <1>1, <1>2, <1>3, <2>1, CadenaCpu
<1>12. AlFinal' /\ Dumps'
  BY <1>1, <1>2, <1>3, AlFinalQuita, DumpsNinguno
<1>13. Recorrido'
  BY <1>1, <1>3, RecorridoNada
<1> QED
  BY <1>9, <1>10, <1>11, <1>12, <1>13

\* The first waiting process starts, when exitProcess has ended another.
LEMMA HilosIniciar ==
  ASSUME ReglasCumplidas, Sano, NEW abre, IniciarPendiente(abre)
  PROVE  HInv'
<1> USE DEF Sano, HInv, IInv
<1> DEFINE primero == Head(colaProcesosSinIniciar)
<1>1. /\ pc = "exitProcess" /\ salida.fase = "iniciar" /\ colaProcesosSinIniciar # <<>>
      /\ ArrancarProceso(primero.Pid, primero.Prioridad, abre)
      /\ UNCHANGED <<colaExecHilo, colaBlockHilo, esperas, colaExitHilo, saliendo, salida, pc, hilo,
                     pendientes>>
  BY DEF IniciarPendiente, EnFase, cadena, finales
<1>2. abre
  BY DEF IniciarPendiente, Regla, ReglasCumplidas, ReglasDeHilos
<1>3. primero.Prioridad \in Nat /\ primero.Pid = Len(nextTid) + 1
  <2>1. /\ colaProcesosSinIniciar \in Seq([Pid : Nat, Prioridad : Nat])
        /\ 1 \in DOMAIN colaProcesosSinIniciar /\ primero = colaProcesosSinIniciar[1]
    BY <1>1, EmptySeq, LenProperties DEF TypeOK, TipoProcesos
  <2>2. colaProcesosSinIniciar[1] \in [Pid : Nat, Prioridad : Nat]
    <3>1. 1 \in 1..Len(colaProcesosSinIniciar)
      BY <2>1, LenProperties
    <3> QED
      BY <2>1, <3>1, ElementOfSeq
  <2> QED
    BY <2>1, <2>2 DEF PidsEnOrden
<1> HIDE DEF primero
<1>4. PICK t \in TCBs :
           /\ t.Pid = primero.Pid /\ t.HilosBloqueados = <<>>
           /\ DOMAIN colaProcesosInicializados' = DOMAIN colaProcesosInicializados \cup {primero.Pid}
           /\ \A p \in DOMAIN colaProcesosInicializados :
                colaProcesosInicializados'[p] = colaProcesosInicializados[p]
           /\ colaProcesosInicializados'[primero.Pid] = <<>>
           /\ Lugares' /\ UNCHANGED <<EnCpu, Bloqueados, Dormidos, Despiertos>>
           /\ Listos' = Listos \cup {t} /\ Vivos' = Vivos \cup {t}
           /\ Creados \subseteq Creados'
           /\ abre => sinContexto' = sinContexto
  BY <1>1, <1>3, EfectoArrancar
<1>5. Parejas' /\ Joins' /\ Razones' /\ Vidas' /\ MutexSanos'
  BY <1>1, <1>4, PasoNace
<1>6. Cadena'
  BY <1>1, <1>2, <1>4 DEF Cadena
<1>7. AlFinal' /\ Dumps'
  BY <1>1, AlFinalQuita, DumpsNinguno
<1>8. Recorrido'
  <2>1. t.Pid # salida.pid
    <3>1. salida.pid = hilo[1] /\ hilo \in Creados
      BY <1>1 DEF Recorrido
    <3>2. hilo[1] \in 1..Len(nextTid) /\ Len(nextTid) \in Nat
      BY <3>1, CreadosTipo, LenProperties DEF TypeOK, TipoProcesos
    <3> QED
      BY <1>3, <1>4, <3>1, <3>2
  <2>2. Corre' <=> Corre
    BY <1>1 DEF Corre
  <2> QED
    BY <1>1, <1>4, <2>1, <2>2 DEF Recorrido
<1> QED
  BY <1>4, <1>5, <1>6, <1>7, <1>8

\* A sequence without repetitions gets a new element, or loses its first.
LEMMA RepetirAgrega ==
  ASSUME NEW s \in Seq(Nat), SinRepetir(s), NEW x \in Nat, \A i \in DOMAIN s : s[i] # x
  PROVE  /\ SinRepetir(Append(s, x))
         /\ \A p : {<<p, Append(s, x)[i]>> : i \in DOMAIN Append(s, x)} =
                     {<<p, s[i]>> : i \in DOMAIN s} \cup {<<p, x>>}
<1> DEFINE n == Len(s)
           a == Append(s, x)
<1>1. n \in Nat /\ DOMAIN s = 1..n
  BY Indices
<1>2. /\ a \in Seq(Nat) /\ Len(a) = n + 1 /\ a[n + 1] = x
      /\ \A i \in 1..n : a[i] = s[i]
  BY <1>1, AppendProperties
<1>3. DOMAIN a = 1..(n + 1)
  BY <1>2, LenProperties
<1> HIDE DEF a
<1>4. \A i \in 1..(n + 1) : i \in 1..n \/ i = n + 1
  BY <1>1
<1>5. 1..n \subseteq 1..(n + 1) /\ n + 1 \in 1..(n + 1)
  BY <1>1
<1>6. ASSUME NEW i \in DOMAIN a, NEW j \in DOMAIN a, a[i] = a[j]
      PROVE  i = j
  <2>1. (i \in 1..n \/ i = n + 1) /\ (j \in 1..n \/ j = n + 1)
    BY <1>3, <1>4
  <2> QED
    BY <1>1, <1>2, <1>6, <2>1 DEF SinRepetir
<1>7. ASSUME NEW p
      PROVE  {<<p, a[i]>> : i \in DOMAIN a} = {<<p, s[i]>> : i \in DOMAIN s} \cup {<<p, x>>}
  <2>1. \A i \in DOMAIN a : <<p, a[i]>> \in {<<p, s[k]>> : k \in DOMAIN s} \cup {<<p, x>>}
    BY <1>1, <1>2, <1>3, <1>4
  <2>2. \A i \in DOMAIN s : i \in DOMAIN a /\ a[i] = s[i]
    BY <1>1, <1>2, <1>3, <1>5
  <2>3. n + 1 \in DOMAIN a /\ a[n + 1] = x
    BY <1>2, <1>3, <1>5
  <2> QED
    BY <2>1, <2>2, <2>3
<1> QED
  BY <1>6, <1>7 DEF SinRepetir, a

\* The mutexes are the same, and nobody who waits for one or holds one is lost.
LEMMA MutexSanosSigue ==
  ASSUME TypeOK, PidsEnOrden, MutexSanos, UNCHANGED colaProcesosInicializados,
         EnMutex \subseteq Bloqueados',
         (IdsDe(Vivos) \cup {IdDe(saliendo.hilo)}) \ {NingunHilo}
           \subseteq IdsDe(Vivos') \cup {IdDe(saliendo'.hilo)}
  PROVE  MutexSanos'
<1> DEFINE ini == colaProcesosInicializados
<1> SUFFICES ASSUME NEW p \in DOMAIN ini, NEW j \in DOMAIN ini[p]
             PROVE  MutexSano(p, ini[p][j])'
  BY DEF MutexSanos
<1>1. MutexSano(p, ini[p][j])
  BY DEF MutexSanos
<1>2. Rango(ini[p][j].colaBloqueados) \subseteq Bloqueados'
  BY EnMutexHechos
<1>3. p # 0
  <2>1. p \in 1..Len(nextTid) /\ Len(nextTid) \in Nat
    BY LenProperties DEF PidsEnOrden, Pids, TypeOK, TipoProcesos
  <2> QED
    BY <2>1
<1>4. \A n : <<p, n>> # NingunHilo
  BY <1>3 DEF NingunHilo
<1> QED
  BY <1>1, <1>2, <1>4 DEF MutexSano

\* THREAD_JOIN of a ready thread: it will remember the caller, which blocks.
LEMMA HilosEntrarListo ==
  ASSUME Sano, NEW tid, EntrarHilo(tid), EstaEn(colaReadyHilo, <<hilo[1], tid>>)
  PROVE  HInv'
<1> USE DEF Sano, HInv, IInv
<1> DEFINE id == <<hilo[1], tid>>
           k == Posicion(colaReadyHilo, id)
           u == colaReadyHilo[k]
           v == [u EXCEPT !.HilosBloqueados = Append(@, hilo[2])]
<1>1. /\ pc = "cpu" /\ salida = SinSalida /\ saliendo = SinSalir /\ salida.fase = "nada"
      /\ EstaEn(colaReadyHilo, id) /\ joinHilo(tid)
      /\ UNCHANGED <<procesos, pendientes, finales, esperas>>
  BY ConActual DEF EntrarHilo, Llama
<1>2. PICK a \in TCBs :
        /\ colaExecHilo = <<a>> /\ EnCpu = {a} /\ IdDe(a) = hilo
        /\ getTCB(hilo) = a /\ a.Pid = hilo[1] /\ a.Tid = hilo[2]
        /\ eliminarHiloCola(colaExecHilo, hilo) = <<>>
        /\ hilo \notin IdsDe(Bloqueados) /\ a \in Vivos /\ a \notin Bloqueados
  BY <1>1, ConActual
<1>3. k \in 1..Len(colaReadyHilo) /\ IdDe(u) = id /\ u \in TCBs
  <2>1. colaReadyHilo \in Seq(TCBs)
    BY TipoLugares
  <2> QED
    BY <1>1, <2>1, BuscarTipo, Indices
<1>4. /\ v \in TCBs /\ IdDe(v) = IdDe(u) /\ v.Pid = u.Pid /\ u.Pid = hilo[1]
      /\ v.HilosBloqueados = Append(u.HilosBloqueados, hilo[2])
      /\ u.HilosBloqueados \in Seq(Nat) /\ hilo[2] \in Nat
  <2>1. u.HilosBloqueados \in Seq(Nat) /\ hilo[2] \in Nat
    BY <1>2, <1>3, IdTipo
  <2>2. Append(u.HilosBloqueados, hilo[2]) \in Seq(Nat)
    BY <2>1, AppendProperties
  <2>3. u.Pid = hilo[1]
    BY <1>3 DEF IdDe
  <2> QED
    BY <1>3, <2>1, <2>2, <2>3 DEF TCBs, IdDe
<1>5. /\ colaReadyHilo' = [colaReadyHilo EXCEPT ![k] = v]
      /\ colaExecHilo' = <<>> /\ colaBlockHilo' = Append(colaBlockHilo, a)
      /\ Retornar(colaProcesosInicializados)
      /\ UNCHANGED <<pendientes, sinContexto, saliendo, salida, esperas, colaExitHilo, nextTid,
                     colaProcesosInicializados>>
  BY <1>1, <1>2 DEF joinHilo, procesos, finales
<1> HIDE DEF v
<1>6. /\ Lugares' /\ UNCHANGED <<Dormidos, Despiertos>> /\ u \in Listos
      /\ Vivos' = (Vivos \ {u}) \cup {v} /\ Bloqueados' = Bloqueados \cup {a}
  BY <1>2, <1>3, <1>4, <1>5, EfectoJoin
<1> HIDE DEF u, k, id
<1>7. u \in Vivos /\ EnMutex \subseteq Bloqueados /\ EnMutex' = EnMutex /\ Faltan' = Faltan
  BY <1>5, <1>6, EnMutexHechos DEF Vivos, EnMutex, Faltan
<1>8. EnJoin' = EnJoin \cup {a}
  BY <1>1, <1>2, <1>5, <1>6, <1>7 DEF EnJoin, Condenado, Lugares
<1>9. hilo \notin Recordados
  <2>1. hilo \notin colaExitHilo /\ hilo \notin IdsDe(EnJoin)
    BY <1>2 DEF Lugares, EnJoin, IdsDe
  <2> QED
    BY <2>1 DEF Joins
<1>10. SinRepetir(v.HilosBloqueados) /\ Recuerdos(v) = Recuerdos(u) \cup {hilo}
  <2>1. hilo = <<hilo[1], hilo[2]>>
    BY <1>2 DEF IdDe
  <2>2. \A i \in DOMAIN u.HilosBloqueados : u.HilosBloqueados[i] # hilo[2]
    BY <1>4, <1>7, <1>9, <2>1 DEF Recordados, Recuerdos
  <2>3. SinRepetir(u.HilosBloqueados)
    BY <1>7 DEF Parejas
  <2>4. /\ SinRepetir(Append(u.HilosBloqueados, hilo[2]))
        /\ \A p : {<<p, Append(u.HilosBloqueados, hilo[2])[i]>> :
                     i \in DOMAIN Append(u.HilosBloqueados, hilo[2])} =
                  {<<p, u.HilosBloqueados[i]>> : i \in DOMAIN u.HilosBloqueados}
                    \cup {<<p, hilo[2]>>}
    BY <1>4, <2>2, <2>3, RepetirAgrega
  <2>5. Recuerdos(v) = {<<hilo[1], Append(u.HilosBloqueados, hilo[2])[i]>> :
                          i \in DOMAIN Append(u.HilosBloqueados, hilo[2])}
    BY <1>4 DEF Recuerdos
  <2>6. Recuerdos(u) = {<<hilo[1], u.HilosBloqueados[i]>> : i \in DOMAIN u.HilosBloqueados}
    BY <1>4 DEF Recuerdos
  <2>7. Recuerdos(v) = Recuerdos(u) \cup {hilo}
    BY <2>1, <2>4, <2>5, <2>6
  <2> QED
    BY <1>4, <2>4, <2>7
<1>11. Recordados' = Recordados \cup {hilo}
  <2>1. UNION {Recuerdos(t) : t \in (Vivos \ {u}) \cup {v}} =
        (UNION {Recuerdos(t) : t \in Vivos}) \cup {hilo}
    BY <1>7, <1>10
  <2> QED
    BY <1>6, <1>7, <2>1 DEF Recordados
<1>12. Parejas'
  <2>1. \A t \in Vivos : hilo \notin Recuerdos(t)
    BY <1>9 DEF Recordados
  <2>2. hilo \notin Faltan
    BY <1>9 DEF Recordados
  <2>3. \A t \in Vivos' : SinRepetir(t.HilosBloqueados) /\ Recuerdos(t) \cap Faltan = {}
    BY <1>6, <1>7, <1>10, <2>2 DEF Parejas
  <2>4. \A t \in Vivos' : t \in Vivos \ {u} \/ t = v
    BY <1>6
  <2>5. \A t, w \in Vivos' : t # w => Recuerdos(t) \cap Recuerdos(w) = {}
    BY <1>7, <1>10, <2>1, <2>4 DEF Parejas
  <2> QED
    BY <1>5, <1>7, <2>3, <2>5 DEF Parejas
<1>13. Joins'
  BY <1>2, <1>5, <1>8, <1>11 DEF Joins, IdsDe
<1>14. Razones'
  BY <1>1, <1>5, <1>6, <1>7 DEF Razones, Condenado
<1>15. Vidas'
  BY <1>4, <1>5, <1>6, <1>7 DEF Vidas
<1>16. MutexSanos'
  <2>1. EnMutex \subseteq Bloqueados'
    BY <1>6, <1>7
  <2>2. IdsDe(Vivos) \subseteq IdsDe(Vivos')
    BY <1>4, <1>6 DEF IdsDe
  <2> QED
    BY <1>5, <2>1, <2>2, MutexSanosSigue
<1>17. Cadena' /\ hilo' = NingunHilo
  BY <1>1, <1>5, CadenaRetorna
<1>18. AlFinal'
  <2>1. Bloqueados' \subseteq Vivos
    BY <1>2, <1>6 DEF Vivos
  <2> QED
    BY <1>17, <2>1, AlFinalNingun
<1>19. Dumps' /\ Recorrido'
  BY <1>1, <1>5, DumpsNinguno, RecorridoNada
<1> QED
  BY <1>6, <1>12, <1>13, <1>14, <1>15, <1>16, <1>17, <1>18, <1>19

\* THREAD_JOIN of a thread that is not in ready: the caller goes on.
LEMMA HilosEntrar ==
  ASSUME Sano, NEW tid, EntrarHilo(tid)
  PROVE  HInv'
<1>1. CASE EstaEn(colaReadyHilo, <<hilo[1], tid>>)
  BY <1>1, HilosEntrarListo
<1>2. CASE ~EstaEn(colaReadyHilo, <<hilo[1], tid>>)
  <2>1. pc = "cpu" /\ IdDe(getTCB(hilo)) = hilo
    BY ConActual DEF EntrarHilo, Llama
  <2>2. /\ pc' = "despacho" /\ hilo' = hilo /\ SinMover
        /\ UNCHANGED <<colaProcesosInicializados, sinContexto, pendientes, saliendo, salida>>
    BY <1>2, <2>1 DEF EntrarHilo, enviarTCBCpu, SinMover, procesos, finales
  <2> QED
    BY <2>1, <2>2, HilosSigue
<1> QED
  BY <1>1, <1>2

-----------------------------------------------------------------------------
(* Mutexes *)

\* A process ends up with one mutex, and the others keep theirs.
LEMMA CambioMutex ==
  ASSUME TypeOK, MutexSanos, NEW p \in DOMAIN colaProcesosInicializados, NEW n \in Mutexes,
         DOMAIN colaProcesosInicializados' = DOMAIN colaProcesosInicializados,
         \A q \in DOMAIN colaProcesosInicializados :
           q # p => colaProcesosInicializados'[q] = colaProcesosInicializados[q],
         DOMAIN colaProcesosInicializados'[p] = {1}, Len(colaProcesosInicializados'[p]) = 1,
         colaProcesosInicializados'[p][1] = n
  PROVE  /\ EnMutex' = {t \in EnMutex : t.Pid # p} \cup Rango(n.colaBloqueados)
         /\ (/\ Unico(n.colaBloqueados)
             /\ \A t \in Rango(n.colaBloqueados) : t \in Bloqueados' /\ t.Pid = p
             /\ n.HiloUsando # -1 =>
                  <<p, n.HiloUsando>> \in IdsDe(Vivos') \cup {IdDe(saliendo'.hilo)}
             /\ \A t \in EnMutex : t.Pid # p => t \in Bloqueados'
             /\ \A h \in IdsDe(Vivos) \cup {IdDe(saliendo.hilo)} :
                  h[1] \in DOMAIN colaProcesosInicializados /\ h[1] # p =>
                    h \in IdsDe(Vivos') \cup {IdDe(saliendo'.hilo)})
            => MutexSanos'
<1> DEFINE ini == colaProcesosInicializados
<1>1. Rango(n.colaBloqueados) \subseteq TCBs
  BY Indices DEF Mutexes
<1>2. ASSUME NEW q \in DOMAIN ini, NEW j \in DOMAIN ini[q]
      PROVE  \A t \in Rango(ini[q][j].colaBloqueados) : t.Pid = q /\ t \in EnMutex
  BY EnMutexHechos DEF MutexSanos, MutexSano
<1>3. EnMutex' = {t \in EnMutex : t.Pid # p} \cup Rango(n.colaBloqueados)
  <2>1. ASSUME NEW t \in EnMutex'
        PROVE  t \in {u \in EnMutex : u.Pid # p} \cup Rango(n.colaBloqueados)
    <3>0. PICK q \in DOMAIN ini' : \E j \in DOMAIN ini'[q] : t \in Rango(ini'[q][j].colaBloqueados)
      BY DEF EnMutex
    <3>1. PICK j \in DOMAIN ini'[q] : t \in Rango(ini'[q][j].colaBloqueados)
      BY <3>0
    <3>2. CASE q = p
      BY <3>1, <3>2
    <3>3. CASE q # p
      <4>1. q \in DOMAIN ini /\ j \in DOMAIN ini[q] /\ t \in Rango(ini[q][j].colaBloqueados)
        BY <3>1, <3>3
      <4> QED
        BY <1>2, <3>3, <4>1
    <3> QED
      BY <3>2, <3>3
  <2>2. ASSUME NEW t \in EnMutex, t.Pid # p PROVE t \in EnMutex'
    <3>0. PICK q \in DOMAIN ini : \E j \in DOMAIN ini[q] : t \in Rango(ini[q][j].colaBloqueados)
      BY DEF EnMutex
    <3>1. PICK j \in DOMAIN ini[q] : t \in Rango(ini[q][j].colaBloqueados)
      BY <3>0
    <3>2. q # p
      BY <1>2, <2>2, <3>1
    <3>3. q \in DOMAIN ini' /\ ini'[q] = ini[q]
      BY <3>2
    <3>4. j \in DOMAIN ini'[q] /\ t \in Rango(ini'[q][j].colaBloqueados) /\ t \in TCBs
      BY <3>1, <3>3 DEF EnMutex
    <3> HIDE DEF ini
    <3> QED
      BY <3>3, <3>4 DEF EnMutex, ini
  <2>3. ASSUME NEW t \in Rango(n.colaBloqueados) PROVE t \in EnMutex'
    <3>1. p \in DOMAIN ini' /\ 1 \in DOMAIN ini'[p] /\ t \in Rango(ini'[p][1].colaBloqueados)
      OBVIOUS
    <3> HIDE DEF ini
    <3> QED
      BY <1>1, <3>1 DEF EnMutex, ini
  <2> QED
    BY <2>1, <2>2, <2>3
<1>4. ASSUME Unico(n.colaBloqueados),
             \A t \in Rango(n.colaBloqueados) : t \in Bloqueados' /\ t.Pid = p,
             n.HiloUsando # -1 =>
               <<p, n.HiloUsando>> \in IdsDe(Vivos') \cup {IdDe(saliendo'.hilo)},
             \A t \in EnMutex : t.Pid # p => t \in Bloqueados',
             \A h \in IdsDe(Vivos) \cup {IdDe(saliendo.hilo)} :
               h[1] \in DOMAIN ini /\ h[1] # p => h \in IdsDe(Vivos') \cup {IdDe(saliendo'.hilo)}
      PROVE  MutexSanos'
  <2>1. MutexSano(p, ini[p][1])'
    BY <1>4 DEF MutexSano
  <2>2. ASSUME NEW q \in DOMAIN ini, q # p, NEW j \in DOMAIN ini[q]
        PROVE  MutexSano(q, ini[q][j])'
    <3>1. MutexSano(q, ini[q][j]) /\ ini'[q][j] = ini[q][j]
      BY <2>2 DEF MutexSanos
    <3>2. \A t \in Rango(ini[q][j].colaBloqueados) : t \in Bloqueados'
      BY <1>2, <1>4, <2>2
    <3> QED
      BY <1>4, <2>2, <3>1, <3>2 DEF MutexSano
  <2>3. \A q \in DOMAIN ini : q # p => Len(ini'[q]) <= 1 /\ ini'[q] = ini[q]
    BY DEF MutexSanos
  <2>4. ASSUME NEW q \in DOMAIN ini'
        PROVE  Len(ini'[q]) <= 1 /\ \A j \in DOMAIN ini'[q] : MutexSano(q, ini[q][j])'
    <3>1. CASE q = p
      BY <2>1, <3>1 DEF MutexSano
    <3>2. CASE q # p
      BY <2>2, <2>3, <3>2
    <3> QED
      BY <3>1, <3>2
  <2> QED
    BY <2>4 DEF MutexSanos
<1> QED
  BY <1>3, <1>4

\* The mutex of a process, and what it is replaced by.
LEMMA ElMutex ==
  ASSUME TypeOK, MutexSanos, NEW p, MutexesDe(p) # <<>>
  PROVE  /\ p \in DOMAIN colaProcesosInicializados /\ MutexesDe(p) = colaProcesosInicializados[p]
         /\ DOMAIN MutexesDe(p) = {1} /\ Len(MutexesDe(p)) = 1 /\ MutexesDe(p)[1] \in Mutexes
         /\ MutexesDe(p)[1].colaBloqueados \in Seq(TCBs)
         /\ MutexSano(p, MutexesDe(p)[1])
         /\ {t \in EnMutex : t.Pid = p} = Rango(MutexesDe(p)[1].colaBloqueados)
         /\ \A n \in Mutexes :
              colaProcesosInicializados' = [colaProcesosInicializados EXCEPT ![p][1] = n] =>
                /\ DOMAIN colaProcesosInicializados' = DOMAIN colaProcesosInicializados
                /\ \A q \in DOMAIN colaProcesosInicializados :
                     q # p => colaProcesosInicializados'[q] = colaProcesosInicializados[q]
                /\ DOMAIN colaProcesosInicializados'[p] = {1}
                /\ Len(colaProcesosInicializados'[p]) = 1
                /\ colaProcesosInicializados'[p][1] = n
<1> DEFINE ini == colaProcesosInicializados
<1>1. /\ p \in DOMAIN ini /\ MutexesDe(p) = ini[p] /\ ini[p][1] \in Mutexes
      /\ ini[p][1].colaBloqueados \in Seq(TCBs)
  BY PrimerMutexTipo
<1>2. /\ ini \in [DOMAIN ini -> Seq(Mutexes)] /\ ini[p] \in Seq(Mutexes)
  BY <1>1 DEF TypeOK, TipoProcesos
<1>3. Len(ini[p]) = 1 /\ DOMAIN ini[p] = {1}
  <2>1. Len(ini[p]) \in Nat /\ DOMAIN ini[p] = 1..Len(ini[p]) /\ (Len(ini[p]) = 0 => ini[p] = <<>>)
    BY <1>2, LenProperties, EmptySeq
  <2>2. Len(ini[p]) <= 1
    BY <1>1 DEF MutexSanos
  <2>3. Len(ini[p]) = 1
    BY <1>1, <2>1, <2>2
  <2> QED
    BY <2>1, <2>3
<1>4. MutexSano(p, ini[p][1])
  BY <1>1, <1>3 DEF MutexSanos
<1>5. {t \in EnMutex : t.Pid = p} = Rango(ini[p][1].colaBloqueados)
  <2>1. \A t \in Rango(ini[p][1].colaBloqueados) : t \in EnMutex /\ t.Pid = p
    BY <1>1, <1>3, <1>4, EnMutexHechos DEF MutexSano
  <2>2. ASSUME NEW t \in EnMutex, t.Pid = p PROVE t \in Rango(ini[p][1].colaBloqueados)
    <3>0. PICK q \in DOMAIN ini : \E j \in DOMAIN ini[q] : t \in Rango(ini[q][j].colaBloqueados)
      BY DEF EnMutex
    <3>1. PICK j \in DOMAIN ini[q] : t \in Rango(ini[q][j].colaBloqueados)
      BY <3>0
    <3>2. q = p
      BY <2>2, <3>1 DEF MutexSanos, MutexSano
    <3> QED
      BY <1>3, <3>1, <3>2
  <2> QED
    BY <2>1, <2>2
<1>6. ASSUME NEW n \in Mutexes, ini' = [ini EXCEPT ![p][1] = n]
      PROVE  /\ DOMAIN ini' = DOMAIN ini
             /\ \A q \in DOMAIN ini : q # p => ini'[q] = ini[q]
             /\ DOMAIN ini'[p] = {1} /\ Len(ini'[p]) = 1 /\ ini'[p][1] = n
  <2>1. /\ DOMAIN ini' = DOMAIN ini /\ ini'[p] = [ini[p] EXCEPT ![1] = n]
        /\ \A q \in DOMAIN ini : q # p => ini'[q] = ini[q]
    BY <1>1, <1>2, <1>6
  <2>2. 1 \in 1..Len(ini[p])
    BY <1>3
  <2>3. /\ [ini[p] EXCEPT ![1] = n] \in Seq(Mutexes)
        /\ Len([ini[p] EXCEPT ![1] = n]) = Len(ini[p])
        /\ [ini[p] EXCEPT ![1] = n][1] = n
    BY <1>2, <1>3, <2>2, ExceptSeq
  <2>4. DOMAIN [ini[p] EXCEPT ![1] = n] = {1}
    BY <1>3
  <2> QED
    BY <1>3, <2>1, <2>3, <2>4
<1> QED
  BY <1>1, <1>3, <1>4, <1>5, <1>6

\* The first of a queue leaves it.
LEMMA Cabeza ==
  ASSUME NEW q \in Seq(TCBs), Unico(q), q # <<>>
  PROVE  /\ Head(q) \in Rango(q) /\ Tail(q) \in Seq(TCBs) /\ Unico(Tail(q))
         /\ Rango(Tail(q)) = Rango(q) \ {Head(q)}
<1> DEFINE n == Len(q)
           r == Tail(q)
<1>1. n \in Nat /\ n # 0 /\ DOMAIN q = 1..n
  BY Indices, EmptySeq
<1>2. Head(q) = q[1] /\ 1 \in 1..n
  BY <1>1
<1>3. r \in Seq(TCBs) /\ Len(r) = n - 1 /\ \A i \in 1..(n - 1) : r[i] = q[i + 1]
  BY HeadTailProperties
<1>4. DOMAIN r = 1..(n - 1)
  BY <1>3, LenProperties
<1> HIDE DEF r
<1>5. \A i \in 1..(n - 1) : i + 1 \in 1..n /\ i + 1 # 1
  BY <1>1
<1>6. \A k \in 1..n : k # 1 => k - 1 \in 1..(n - 1) /\ (k - 1) + 1 = k
  BY <1>1
<1>7. ASSUME NEW i \in 1..(n - 1), NEW j \in 1..(n - 1), IdDe(r[i]) = IdDe(r[j])
      PROVE  i = j
  <2>1. i + 1 = j + 1
    BY <1>1, <1>3, <1>5, <1>7 DEF Unico
  <2> QED
    BY <1>1, <2>1
<1>8. ASSUME NEW t \in Rango(r) PROVE t \in Rango(q) \ {q[1]}
  <2>1. PICK i \in 1..(n - 1) : t = r[i]
    BY <1>4 DEF Rango
  <2> QED
    BY <1>1, <1>2, <1>3, <1>5, <2>1 DEF Rango, Unico
<1>9. ASSUME NEW t \in Rango(q), t # q[1] PROVE t \in Rango(r)
  <2>1. PICK k \in 1..n : t = q[k]
    BY <1>1 DEF Rango
  <2>2. k - 1 \in 1..(n - 1) /\ r[k - 1] = t
    BY <1>3, <1>6, <1>9, <2>1
  <2> QED
    BY <1>4, <2>2 DEF Rango
<1>10. Head(q) \in Rango(q)
  BY <1>1, <1>2 DEF Rango
<1> QED
  BY <1>2, <1>3, <1>4, <1>7, <1>8, <1>9, <1>10 DEF Unico, r

\* A step that only concerns who waits for a mutex: the threads that wait in a
\* join, and those that remember them, are the same.
LEMMA PasoMutex ==
  ASSUME TypeOK, HInv, UNCHANGED <<Vivos, Dormidos, colaExitHilo>>,
         Faltan' = Faltan, SinRepetir(saliendo'.faltan),
         salida'.fase = "nada" <=> salida.fase = "nada",
         \/ salida.fase = "nada"
         \/ hilo' = hilo /\ Bloqueados' \subseteq Bloqueados /\ EnMutex' \subseteq EnMutex,
         DOMAIN colaProcesosInicializados' = DOMAIN colaProcesosInicializados,
         Bloqueados' \ EnMutex' = Bloqueados \ EnMutex, Dormidos \cap EnMutex' = {}
  PROVE  Parejas' /\ Joins' /\ Razones' /\ Vidas'
<1> USE DEF HInv
<1>1. Recordados' = Recordados
  BY DEF Recordados
<1>2. EnJoin' = EnJoin
  BY DEF EnJoin, Condenado
<1>3. Parejas'
  BY DEF Parejas
<1>4. Joins'
  BY <1>1, <1>2 DEF Joins, IdsDe
<1>5. Razones'
  BY DEF Razones, Condenado
<1>6. Vidas'
  BY DEF Vidas
<1> QED
  BY <1>3, <1>4, <1>5, <1>6

\* MUTEX_CREATE: a mutex that nobody holds, in a process without any.
LEMMA HilosCrearMutex ==
  ASSUME ReglasCumplidas, Sano, NEW nombre \in Nombres, CrearMutex(nombre)
  PROVE  HInv'
<1> USE DEF Sano, HInv, IInv
<1> DEFINE pid == hilo[1]
           nuevo == mutexCreate(nombre)
<1>1. /\ pc = "cpu" /\ salida.fase = "nada" /\ salida = SinSalida /\ saliendo = SinSalir
      /\ pid \in DOMAIN colaProcesosInicializados /\ getTCB(hilo) \in TCBs /\ IdDe(getTCB(hilo)) = hilo
  BY ConActual DEF CrearMutex, Llama
<1>2. /\ SinMover /\ pc' = "despacho" /\ hilo' = hilo
      /\ UNCHANGED <<colas, sinContexto, pendientes, saliendo, salida, esperas>>
  BY <1>1 DEF CrearMutex, enviarTCBCpu, finales, SinMover
<1>3. MutexesDe(pid) = <<>> /\ colaProcesosInicializados[pid] = <<>>
  BY <1>1 DEF CrearMutex, Regla, ReglasCumplidas, ReglasDeHilos, MutexesDe
<1>4. nuevo \in Mutexes /\ nuevo.colaBloqueados = <<>> /\ nuevo.HiloUsando = -1
  BY EmptySeq DEF mutexCreate, Mutexes
<1>5. /\ DOMAIN colaProcesosInicializados' = DOMAIN colaProcesosInicializados
      /\ \A q \in DOMAIN colaProcesosInicializados :
           q # pid => colaProcesosInicializados'[q] = colaProcesosInicializados[q]
      /\ colaProcesosInicializados'[pid] = <<nuevo>>
  <2>1. colaProcesosInicializados' =
          [colaProcesosInicializados EXCEPT ![pid] = Append(colaProcesosInicializados[pid], nuevo)]
    BY DEF CrearMutex
  <2> HIDE DEF nuevo
  <2> QED
    BY <1>1, <1>3, <2>1
<1>6. /\ DOMAIN colaProcesosInicializados'[pid] = {1} /\ Len(colaProcesosInicializados'[pid]) = 1
      /\ colaProcesosInicializados'[pid][1] = nuevo
  <2> HIDE DEF nuevo
  <2> QED
    BY <1>5
<1>7. Lugares' /\ UNCHANGED <<Listos, EnCpu, Bloqueados, Dormidos, Despiertos, Vivos>>
  BY <1>2, LugaresIgual
<1>8. Rango(nuevo.colaBloqueados) = {} /\ Unico(nuevo.colaBloqueados)
  BY <1>4, Vacia
<1> HIDE DEF pid, nuevo
<1>9. EnMutex' = {t \in EnMutex : t.Pid # pid} /\ MutexSanos'
  <2>1. \A t \in EnMutex : t \in Bloqueados
    BY EnMutexHechos
  <2> QED
    BY <1>1, <1>2, <1>4, <1>5, <1>6, <1>7, <1>8, <2>1, CambioMutex
<1>10. \A t \in EnMutex : t.Pid # pid
  <2> SUFFICES ASSUME NEW t \in EnMutex, t.Pid = pid PROVE FALSE
    OBVIOUS
  <2>1. PICK q \in DOMAIN colaProcesosInicializados :
           \E j \in DOMAIN colaProcesosInicializados[q] :
              t \in Rango(colaProcesosInicializados[q][j].colaBloqueados)
    BY DEF EnMutex
  <2>2. PICK j \in DOMAIN colaProcesosInicializados[q] :
               t \in Rango(colaProcesosInicializados[q][j].colaBloqueados)
    BY <2>1
  <2>3. q = pid
    BY <2>2 DEF MutexSanos, MutexSano
  <2> QED
    BY <1>3, <2>2, <2>3, EmptySeq
<1>11. EnMutex' = EnMutex
  BY <1>9, <1>10
<1>12. Parejas' /\ Joins' /\ Razones' /\ Vidas'
  <2>1. Faltan' = Faltan /\ SinRepetir(saliendo'.faltan)
    BY <1>2 DEF Faltan, Parejas
  <2>2. Bloqueados' \ EnMutex' = Bloqueados \ EnMutex /\ Dormidos \cap EnMutex' = {}
    BY <1>7, <1>11 DEF Razones
  <2> QED
    BY <1>1, <1>2, <1>5, <1>7, <2>1, <2>2, PasoMutex DEF SinMover
<1>13. Cadena'
  <2>1. Corre'
    BY <1>1, <1>2 DEF Corre, Cadena, colas
  <2> QED
    BY <1>1, <1>2, <2>1, CadenaCpu
<1>14. AlFinal' /\ Dumps' /\ Recorrido'
  BY <1>1, <1>2, AlFinalQuita, DumpsNinguno, RecorridoNada DEF colas
<1> QED
  BY <1>7, <1>9, <1>12, <1>13, <1>14

\* MUTEX_LOCK of a free mutex: the thread gets it, and goes back to the CPU.
LEMMA HilosTomar ==
  ASSUME Sano, pc = "cpu", MutexesDe(hilo[1]) # <<>>, TomarMutex(getTCB(hilo)),
         UNCHANGED <<colaProcesosSinIniciar, nextPid, nextTid, sinContexto, finales, esperas>>
  PROVE  HInv'
<1> USE DEF Sano, HInv, IInv
<1> DEFINE pid == hilo[1]
           m == MutexesDe(pid)[1]
<1>1. PICK a \in TCBs : /\ salida.fase = "nada" /\ colaExecHilo = <<a>> /\ EnCpu = {a}
                        /\ IdDe(a) = hilo /\ getTCB(hilo) = a /\ a.Pid = pid /\ a.Tid = hilo[2]
                        /\ a \in Vivos
  BY ConActual
<1>2. /\ pid \in DOMAIN colaProcesosInicializados /\ Len(MutexesDe(pid)) = 1 /\ m \in Mutexes
      /\ m.colaBloqueados \in Seq(TCBs) /\ MutexSano(pid, m)
      /\ {t \in EnMutex : t.Pid = pid} = Rango(m.colaBloqueados)
  BY ElMutex
<1> DEFINE n == [m EXCEPT !.Bloqueado = TRUE, !.HiloUsando = a.Tid]
<1>3. /\ n \in Mutexes /\ n.colaBloqueados = m.colaBloqueados /\ n.HiloUsando = a.Tid
  <2>1. a.Tid \in Nat
    BY <1>1, IdTipo
  <2> HIDE DEF m
  <2> QED
    BY <1>2, <2>1 DEF Mutexes
<1>4. EstaEn(colaExecHilo, IdDe(a))
  BY <1>1, EstaEnRango DEF EnCpu, IdsDe
<1>5. /\ SinMover /\ pc' = "despacho" /\ hilo' = hilo
      /\ UNCHANGED <<colas, sinContexto, pendientes, saliendo, salida, esperas>>
      /\ colaProcesosInicializados' = [colaProcesosInicializados EXCEPT ![pid][1] = n]
  BY <1>1, <1>2, <1>4 DEF TomarMutex, enviarTCBCpu, finales, SinMover
<1> HIDE DEF n
<1>6. /\ DOMAIN colaProcesosInicializados' = DOMAIN colaProcesosInicializados
      /\ \A q \in DOMAIN colaProcesosInicializados :
           q # pid => colaProcesosInicializados'[q] = colaProcesosInicializados[q]
      /\ DOMAIN colaProcesosInicializados'[pid] = {1} /\ Len(colaProcesosInicializados'[pid]) = 1
      /\ colaProcesosInicializados'[pid][1] = n
  BY <1>3, <1>5, ElMutex
<1>7. Lugares' /\ UNCHANGED <<Listos, EnCpu, Bloqueados, Dormidos, Despiertos, Vivos>>
  BY <1>5, LugaresIgual
<1> HIDE DEF m
<1>8. EnMutex' = {t \in EnMutex : t.Pid # pid} \cup Rango(n.colaBloqueados) /\ MutexSanos'
  <2>1. \A t \in EnMutex : t \in Bloqueados
    BY EnMutexHechos
  <2>2. <<pid, n.HiloUsando>> \in IdsDe(Vivos)
    BY <1>1, <1>3 DEF IdsDe, IdDe
  <2>3. /\ Unico(n.colaBloqueados)
        /\ \A t \in Rango(n.colaBloqueados) : t \in Bloqueados /\ t.Pid = pid
    BY <1>2, <1>3 DEF MutexSano
  <2> HIDE DEF pid
  <2> QED
    BY <1>2, <1>3, <1>5, <1>6, <1>7, <2>1, <2>2, <2>3, CambioMutex
<1>9. EnMutex' = EnMutex
  BY <1>2, <1>3, <1>8
<1>10. Parejas' /\ Joins' /\ Razones' /\ Vidas'
  <2>1. Faltan' = Faltan /\ SinRepetir(saliendo'.faltan)
    BY <1>5 DEF Faltan, Parejas
  <2>2. Bloqueados' \ EnMutex' = Bloqueados \ EnMutex /\ Dormidos \cap EnMutex' = {}
    BY <1>7, <1>9 DEF Razones
  <2> QED
    BY <1>1, <1>5, <1>6, <1>7, <2>1, <2>2, PasoMutex DEF SinMover
<1>11. Cadena'
  <2>1. Corre'
    BY <1>1, <1>5 DEF Corre, Cadena, colas
  <2> QED
    BY <1>5, <2>1, CadenaCpu
<1>12. AlFinal' /\ Dumps' /\ Recorrido'
  BY <1>1, <1>5, AlFinalQuita, DumpsNinguno, RecorridoNada DEF colas
<1> QED
  BY <1>7, <1>8, <1>10, <1>11, <1>12

\* MUTEX_LOCK of a mutex that is taken: the thread goes from exec to block, and
\* to the end of the queue of the mutex.
LEMMA HilosEsperar ==
  ASSUME Sano, pc = "cpu", MutexesDe(hilo[1]) # <<>>, EsperarMutex(getTCB(hilo)),
         UNCHANGED <<colaProcesosSinIniciar, nextPid, nextTid, sinContexto, finales, esperas>>
  PROVE  HInv'
<1> USE DEF Sano, HInv, IInv
<1> DEFINE pid == hilo[1]
           m == MutexesDe(pid)[1]
<1>1. PICK a \in TCBs : /\ salida.fase = "nada" /\ salida = SinSalida /\ saliendo = SinSalir
                        /\ colaExecHilo = <<a>> /\ IdDe(a) = hilo /\ getTCB(hilo) = a
                        /\ eliminarHiloCola(colaExecHilo, hilo) = <<>> /\ a.Pid = pid
                        /\ a \in Vivos /\ a \notin Bloqueados /\ hilo \notin IdsDe(Bloqueados)
  BY ConActual
<1>2. /\ pid \in DOMAIN colaProcesosInicializados /\ m \in Mutexes
      /\ m.colaBloqueados \in Seq(TCBs) /\ MutexSano(pid, m)
      /\ {t \in EnMutex : t.Pid = pid} = Rango(m.colaBloqueados)
  BY ElMutex
<1> DEFINE n == [m EXCEPT !.colaBloqueados = Append(m.colaBloqueados, a)]
<1>3. /\ n \in Mutexes /\ n.colaBloqueados = Append(m.colaBloqueados, a)
      /\ n.HiloUsando = m.HiloUsando
  <2>1. Append(m.colaBloqueados, a) \in Seq(TCBs)
    BY <1>2, Agregar
  <2> HIDE DEF m
  <2> QED
    BY <1>2, <2>1 DEF Mutexes
<1>4. /\ colaProcesosInicializados' = [colaProcesosInicializados EXCEPT ![pid][1] = n]
      /\ colaExecHilo' = <<>> /\ colaBlockHilo' = Append(colaBlockHilo, a)
      /\ Retornar(colaProcesosInicializados)
      /\ UNCHANGED <<colaReadyHilo, pendientes, colaExitHilo, saliendo, salida, esperas, nextTid,
                     sinContexto>>
  BY <1>1 DEF EsperarMutex, finales
<1> HIDE DEF n
<1>5. /\ DOMAIN colaProcesosInicializados' = DOMAIN colaProcesosInicializados
      /\ \A q \in DOMAIN colaProcesosInicializados :
           q # pid => colaProcesosInicializados'[q] = colaProcesosInicializados[q]
      /\ DOMAIN colaProcesosInicializados'[pid] = {1} /\ Len(colaProcesosInicializados'[pid]) = 1
      /\ colaProcesosInicializados'[pid][1] = n
  BY <1>3, <1>4, ElMutex
<1>6. /\ Lugares' /\ UNCHANGED <<Listos, Despiertos, Vivos>>
      /\ Bloqueados' = Bloqueados \cup {a} /\ Dormidos' = Dormidos
  <2>1. /\ "nada" # "encolar" /\ FALSE \in BOOLEAN
        /\ esperas' = IF FALSE THEN esperas \cup {[tcb |-> a, paso |-> "nada"]} ELSE esperas
    BY <1>4
  <2> QED
    BY <1>1, <1>4, <2>1, EfectoBloquear
<1> HIDE DEF m
<1>7. /\ Unico(n.colaBloqueados) /\ Rango(n.colaBloqueados) = Rango(m.colaBloqueados) \cup {a}
  <2>1. \A u \in Rango(m.colaBloqueados) : IdDe(u) # IdDe(a)
    BY <1>1, <1>2 DEF MutexSano, IdsDe
  <2> QED
    BY <1>2, <1>3, <2>1, Agregar DEF MutexSano
<1>8. EnMutex' = {t \in EnMutex : t.Pid # pid} \cup Rango(n.colaBloqueados) /\ MutexSanos'
  <2>1. \A t \in EnMutex : t \in Bloqueados'
    BY <1>6, EnMutexHechos
  <2>2. n.HiloUsando # -1 => <<pid, n.HiloUsando>> \in IdsDe(Vivos') \cup {IdDe(saliendo'.hilo)}
    BY <1>2, <1>3, <1>4, <1>6 DEF MutexSano
  <2>3. \A t \in Rango(n.colaBloqueados) : t \in Bloqueados' /\ t.Pid = pid
    BY <1>1, <1>2, <1>6, <1>7 DEF MutexSano
  <2> HIDE DEF pid
  <2> QED
    BY <1>2, <1>3, <1>4, <1>5, <1>6, <1>7, <2>1, <2>2, <2>3, CambioMutex
<1>9. EnMutex' = EnMutex \cup {a}
  BY <1>2, <1>7, <1>8
<1>10. Parejas' /\ Joins' /\ Razones' /\ Vidas'
  <2>1. Faltan' = Faltan /\ SinRepetir(saliendo'.faltan)
    BY <1>4 DEF Faltan, Parejas
  <2>2. a \notin EnMutex /\ a \notin Dormidos
    BY <1>1, EnMutexHechos DEF Lugares
  <2>3. Bloqueados' \ EnMutex' = Bloqueados \ EnMutex /\ Dormidos \cap EnMutex' = {}
    BY <1>1, <1>6, <1>9, <2>2 DEF Razones
  <2> QED
    BY <1>1, <1>4, <1>5, <1>6, <2>1, <2>3, PasoMutex
<1>11. Cadena' /\ hilo' = NingunHilo
  BY <1>1, <1>4, CadenaRetorna
<1>12. AlFinal'
  <2>1. Bloqueados' \subseteq Vivos
    BY <1>1, <1>6 DEF Vivos
  <2> QED
    BY <1>11, <2>1, AlFinalNingun
<1>13. Dumps' /\ Recorrido'
  BY <1>1, <1>4, DumpsNinguno, RecorridoNada
<1> QED
  BY <1>6, <1>8, <1>10, <1>11, <1>12, <1>13

\* MUTEX_LOCK of a mutex that exists and that the thread does not hold.
LEMMA HilosBloquear ==
  ASSUME ReglasCumplidas, Sano, NEW nombre, BloquearMutex(nombre)
  PROVE  HInv'
<1> DEFINE ms == MutexesDe(hilo[1])
<1>1. pc = "cpu" /\ \E j \in DOMAIN ms : ms[j].Nombre = nombre
  BY DEF BloquearMutex, Llama, Regla, ReglasCumplidas, ReglasDeHilos
<1>2. ms # <<>>
  BY <1>1, EmptySeq
<1>3. ms[1].Nombre = nombre
  <2>1. DOMAIN ms = {1}
    BY <1>2, ElMutex DEF Sano, HInv, IInv
  <2> QED
    BY <1>1, <2>1
<1>4. /\ TomarMutex(getTCB(hilo)) \/ EsperarMutex(getTCB(hilo))
      /\ UNCHANGED <<colaProcesosSinIniciar, nextPid, nextTid, sinContexto, finales, esperas>>
  BY <1>2, <1>3 DEF BloquearMutex
<1> QED
  BY <1>1, <1>2, <1>4, HilosTomar, HilosEsperar

\* The id may be that of the holder of a mutex.
PuedeTener(h) == h \in IdsDe(Vivos) \cup {IdDe(saliendo.hilo)}

\* unlockMutex (utils.go:1334): nothing, or the mutex is free, or it goes to the
\* first that waits for it, which goes from block to ready.
LEMMA EfectoUnlock ==
  ASSUME Sano, NEW pid, NEW tid, NEW nombre, unlockMutex(pid, tid, nombre),
         UNCHANGED <<colaExecHilo, colaExitHilo, nextTid, esperas>>,
         \A h : h[1] \in DOMAIN colaProcesosInicializados /\ PuedeTener(h) =>
           \/ PuedeTener(h)'
           \/ h \in IdsDe(Vivos)
           \/ h = <<pid, tid>> /\ MutexesDe(pid)[1].Nombre = nombre
  PROVE  /\ Lugares' /\ UNCHANGED <<EnCpu, Despiertos, Vivos, Dormidos>>
         /\ DOMAIN colaProcesosInicializados' = DOMAIN colaProcesosInicializados
         /\ EnMutex' \subseteq EnMutex /\ Bloqueados' \subseteq Bloqueados
         /\ Bloqueados' \ EnMutex' = Bloqueados \ EnMutex
         /\ MutexSanos'
         /\ \/ colaReadyHilo' = colaReadyHilo /\ colaBlockHilo' = colaBlockHilo
            \/ \E t \in EnMutex : /\ t.Pid = pid /\ t \in Bloqueados
                                  /\ colaReadyHilo' = Append(colaReadyHilo, t)
                                  /\ colaBlockHilo' = eliminarHiloCola(colaBlockHilo, IdDe(t))
<1> USE DEF Sano, HInv, IInv
<1> DEFINE m == MutexesDe(pid)[1]
           suyo == MutexesDe(pid) # <<>> /\ m.Nombre = nombre /\ m.HiloUsando = tid
           primero == Head(m.colaBloqueados)
           ini == colaProcesosInicializados
<1>1. EnMutex \subseteq Bloqueados /\ \A t \in EnMutex : t \in Bloqueados
  BY EnMutexHechos
<1>2. CASE ~suyo
  <2>1. UNCHANGED <<colaProcesosInicializados, colaReadyHilo, colaBlockHilo>>
    BY <1>2 DEF unlockMutex
  <2>2. SinMover
    BY <2>1 DEF SinMover, colas
  <2>3. Lugares' /\ UNCHANGED <<EnCpu, Bloqueados, Despiertos, Vivos, Dormidos>>
    BY <2>2, LugaresIgual
  <2>4. EnMutex' = EnMutex
    BY <2>1 DEF EnMutex
  <2>5. MutexSanos'
    <3> SUFFICES ASSUME NEW p \in DOMAIN ini, NEW j \in DOMAIN ini[p]
                 PROVE  MutexSano(p, ini[p][j])'
      BY <2>1 DEF MutexSanos
    <3>1. MutexSano(p, ini[p][j])
      BY DEF MutexSanos
    <3>2. ini[p][j].HiloUsando # -1 => PuedeTener(<<p, ini[p][j].HiloUsando>>)
      BY <3>1 DEF MutexSano, PuedeTener
    <3>3. ~(<<p, ini[p][j].HiloUsando>> = <<pid, tid>> /\ m.Nombre = nombre)
      <4> SUFFICES ASSUME p = pid, ini[p][j].HiloUsando = tid, m.Nombre = nombre
                   PROVE  FALSE
        OBVIOUS
      <4>1. MutexesDe(pid) = ini[pid] /\ MutexesDe(pid) # <<>>
        BY EmptySeq DEF MutexesDe
      <4>2. j = 1
        BY <4>1, ElMutex
      <4> QED
        BY <1>2, <4>1, <4>2
    <3>4. ini[p][j].HiloUsando # -1 =>
            <<p, ini[p][j].HiloUsando>> \in IdsDe(Vivos') \cup {IdDe(saliendo'.hilo)}
      <4>1. ASSUME NEW h, h[1] \in DOMAIN ini, PuedeTener(h),
                   ~(h = <<pid, tid>> /\ m.Nombre = nombre)
            PROVE  h \in IdsDe(Vivos') \cup {IdDe(saliendo'.hilo)}
        <5>1. PuedeTener(h)' \/ h \in IdsDe(Vivos)
          BY <4>1
        <5>2. IdsDe(Vivos') = IdsDe(Vivos)
          BY <2>3
        <5> QED
          BY <5>1, <5>2 DEF PuedeTener
      <4>2. <<p, ini[p][j].HiloUsando>>[1] = p
        OBVIOUS
      <4> HIDE DEF m
      <4> QED
        BY <3>2, <3>3, <4>1, <4>2
    <3> QED
      BY <1>1, <2>1, <2>3, <2>4, <3>1, <3>4, EnMutexHechos DEF MutexSano
  <2> QED
    BY <2>1, <2>3, <2>4, <2>5
<1>3. CASE suyo
  <2>1. /\ pid \in DOMAIN ini /\ m \in Mutexes /\ MutexSano(pid, m)
        /\ m.colaBloqueados \in Seq(TCBs) /\ {t \in EnMutex : t.Pid = pid} = Rango(m.colaBloqueados)
    BY <1>3, ElMutex
  <2>2. \A h : h[1] \in DOMAIN ini /\ h[1] # pid /\ PuedeTener(h) => PuedeTener(h)' \/ h \in IdsDe(Vivos)
    OBVIOUS
  <2>3. CASE m.colaBloqueados = <<>>
    <3> DEFINE n == [m EXCEPT !.Bloqueado = FALSE, !.HiloUsando = -1]
    <3>1. /\ colaProcesosInicializados' = [colaProcesosInicializados EXCEPT ![pid][1] = n]
          /\ UNCHANGED <<colaReadyHilo, colaBlockHilo>>
      BY <1>3, <2>3 DEF unlockMutex
    <3>2. n \in Mutexes /\ n.HiloUsando = -1 /\ n.colaBloqueados = <<>>
      <4> HIDE DEF m
      <4> QED
        BY <2>1, <2>3 DEF Mutexes
    <3> HIDE DEF n
    <3>3. /\ DOMAIN ini' = DOMAIN ini
          /\ \A q \in DOMAIN ini : q # pid => ini'[q] = ini[q]
          /\ DOMAIN ini'[pid] = {1} /\ Len(ini'[pid]) = 1 /\ ini'[pid][1] = n
      BY <1>3, <3>1, <3>2, ElMutex
    <3>4. SinMover
      BY <3>1 DEF SinMover, colas
    <3>5. Lugares' /\ UNCHANGED <<EnCpu, Bloqueados, Despiertos, Vivos, Dormidos>>
      BY <3>4, LugaresIgual
    <3>6. Rango(n.colaBloqueados) = {} /\ Unico(n.colaBloqueados) /\ Rango(m.colaBloqueados) = {}
      BY <2>3, <3>2, Vacia
    <3> HIDE DEF m
    <3>7. EnMutex' = {t \in EnMutex : t.Pid # pid} \cup Rango(n.colaBloqueados) /\ MutexSanos'
      <4>1. \A h \in IdsDe(Vivos) \cup {IdDe(saliendo.hilo)} :
              h[1] \in DOMAIN ini /\ h[1] # pid => h \in IdsDe(Vivos') \cup {IdDe(saliendo'.hilo)}
        BY <2>2, <3>5 DEF PuedeTener
      <4> QED
        BY <1>1, <2>1, <3>2, <3>3, <3>5, <3>6, <4>1, CambioMutex
    <3>8. EnMutex' = EnMutex
      BY <2>1, <3>6, <3>7
    <3> QED
      BY <3>1, <3>3, <3>5, <3>7, <3>8
  <2>4. CASE m.colaBloqueados # <<>>
    <3> DEFINE n == [m EXCEPT !.HiloUsando = primero.Tid, !.colaBloqueados = Tail(m.colaBloqueados)]
    <3>1. /\ colaProcesosInicializados' = [colaProcesosInicializados EXCEPT ![pid][1] = n]
          /\ colaBlockHilo' = eliminarHiloCola(colaBlockHilo, IdDe(primero))
          /\ colaReadyHilo' = Append(colaReadyHilo, primero)
      BY <1>3, <2>4 DEF unlockMutex
    <3>2. /\ primero \in Rango(m.colaBloqueados) /\ Tail(m.colaBloqueados) \in Seq(TCBs)
          /\ Unico(Tail(m.colaBloqueados))
          /\ Rango(Tail(m.colaBloqueados)) = Rango(m.colaBloqueados) \ {primero}
      BY <2>1, <2>4, Cabeza DEF MutexSano
    <3>3. primero \in EnMutex /\ primero.Pid = pid /\ primero \in Bloqueados /\ primero \in TCBs
      BY <1>1, <2>1, <3>2, Indices
    <3>4. primero.Tid \in Nat /\ IdDe(primero) = <<pid, primero.Tid>>
      BY <3>3, IdTipo DEF IdDe
    <3> HIDE DEF primero
    <3>5. /\ n \in Mutexes /\ n.HiloUsando = primero.Tid
          /\ n.colaBloqueados = Tail(m.colaBloqueados)
      <4> HIDE DEF m
      <4> QED
        BY <2>1, <3>2, <3>4 DEF Mutexes
    <3> HIDE DEF n
    <3>6. /\ DOMAIN ini' = DOMAIN ini
          /\ \A q \in DOMAIN ini : q # pid => ini'[q] = ini[q]
          /\ DOMAIN ini'[pid] = {1} /\ Len(ini'[pid]) = 1 /\ ini'[pid][1] = n
      BY <1>3, <3>1, <3>5, ElMutex
    <3>7. primero \notin Dormidos
      BY <3>3 DEF Razones
    <3>8. /\ Lugares' /\ UNCHANGED <<EnCpu, Despiertos, Vivos>>
          /\ Bloqueados' = Bloqueados \ {primero} /\ Dormidos' = Dormidos
      <4>1. {} \in SUBSET esperas /\ esperas' = esperas \ {} /\ \A e \in {} : e.tcb = primero
        OBVIOUS
      <4>2. /\ Lugares' /\ UNCHANGED <<EnCpu, Despiertos, Vivos>>
            /\ Bloqueados' = Bloqueados \ {primero} /\ Dormidos' = Dormidos \ {primero}
        BY <3>1, <3>3, <3>7, <4>1, EfectoDespertar
      <4> QED
        BY <3>7, <4>2
    <3> HIDE DEF m
    <3>9. EnMutex' = {t \in EnMutex : t.Pid # pid} \cup Rango(n.colaBloqueados) /\ MutexSanos'
      <4>1. \A h \in IdsDe(Vivos) \cup {IdDe(saliendo.hilo)} :
              h[1] \in DOMAIN ini /\ h[1] # pid => h \in IdsDe(Vivos') \cup {IdDe(saliendo'.hilo)}
        BY <2>2, <3>8 DEF PuedeTener
      <4>2. <<pid, n.HiloUsando>> \in IdsDe(Vivos')
        BY <3>3, <3>4, <3>5, <3>8 DEF IdsDe, Vivos
      <4>3. \A t \in Rango(n.colaBloqueados) : t \in Bloqueados' /\ t.Pid = pid
        BY <1>1, <2>1, <3>2, <3>5, <3>8
      <4>4. \A t \in EnMutex : t.Pid # pid => t \in Bloqueados'
        BY <1>1, <3>3, <3>8
      <4>5. Unico(n.colaBloqueados)
        BY <3>2, <3>5
      <4> QED
        BY <2>1, <3>5, <3>6, <4>1, <4>2, <4>3, <4>4, <4>5, CambioMutex
    <3>10. EnMutex' = EnMutex \ {primero}
      BY <2>1, <3>2, <3>3, <3>5, <3>9
    <3>11. Bloqueados' \ EnMutex' = Bloqueados \ EnMutex
      BY <3>3, <3>8, <3>10
    <3> QED
      BY <3>1, <3>3, <3>6, <3>8, <3>9, <3>10, <3>11
  <2> QED
    BY <2>3, <2>4
<1> QED
  BY <1>2, <1>3

\* MUTEX_UNLOCK: the caller goes back to the CPU.
LEMMA HilosLiberar ==
  ASSUME Sano, NEW nombre, LiberarMutex(nombre)
  PROVE  HInv'
<1> USE DEF Sano, HInv, IInv
<1>1. /\ pc = "cpu" /\ salida.fase = "nada" /\ getTCB(hilo) \in TCBs /\ IdDe(getTCB(hilo)) = hilo
  BY ConActual DEF LiberarMutex, Llama
<1>2. /\ unlockMutex(hilo[1], getTCB(hilo).Tid, nombre) /\ pc' = "despacho" /\ hilo' = hilo
      /\ UNCHANGED <<colaExecHilo, nextTid, sinContexto, pendientes, colaExitHilo, saliendo, salida,
                     esperas>>
  BY <1>1 DEF LiberarMutex, enviarTCBCpu, finales
<1>3. /\ Lugares' /\ UNCHANGED <<EnCpu, Despiertos, Vivos, Dormidos>>
      /\ DOMAIN colaProcesosInicializados' = DOMAIN colaProcesosInicializados
      /\ EnMutex' \subseteq EnMutex /\ Bloqueados' \subseteq Bloqueados
      /\ Bloqueados' \ EnMutex' = Bloqueados \ EnMutex
      /\ MutexSanos'
      /\ \/ colaBlockHilo' = colaBlockHilo
         \/ \E t \in Bloqueados : colaBlockHilo' = eliminarHiloCola(colaBlockHilo, IdDe(t))
  <2>1. \A h : PuedeTener(h) => PuedeTener(h)' \/ h \in IdsDe(Vivos)
    BY <1>2 DEF PuedeTener
  <2> QED
    BY <1>2, <2>1, EfectoUnlock
<1>4. Parejas' /\ Joins' /\ Razones' /\ Vidas'
  <2>1. Faltan' = Faltan /\ SinRepetir(saliendo'.faltan)
    BY <1>2 DEF Faltan, Parejas
  <2>2. Dormidos \cap EnMutex' = {}
    BY <1>3 DEF Razones
  <2> QED
    BY <1>1, <1>2, <1>3, <2>1, <2>2, PasoMutex
<1>5. Cadena'
  <2>1. Corre'
    BY <1>1, <1>2 DEF Corre, Cadena
  <2> QED
    BY <1>1, <1>2, <2>1, CadenaCpu
<1>6. AlFinal' /\ Dumps' /\ Recorrido'
  BY <1>1, <1>2, <1>3, AlFinalQuita, DumpsNinguno, RecorridoNada
<1> QED
  BY <1>3, <1>4, <1>5, <1>6

-----------------------------------------------------------------------------
(* exitProcess starts *)

\* The loop over ready starts, and of the process there is nothing but the
\* thread of the chain and what the loop is to find.
LEMMA EmpiezaSalida ==
  ASSUME TypeOK, Cadena, pc \notin {"exitHilo", "exitProcess"}, exitProcess(hilo[1]),
         SalidaOrdenada(hilo), hilo \in Creados, hilo[1] \in DOMAIN colaProcesosInicializados,
         colaExecHilo = <<>> \/ Corre, esperas' \subseteq esperas,
         \A t \in Dormidos' \cup Despiertos' : IdDe(t) # hilo,
         UNCHANGED <<colas, colaProcesosInicializados, hilo, pendientes, sinContexto, saliendo,
                     nextTid>>
  PROVE  Cadena' /\ Recorrido' /\ salida'.fase # "nada" /\ pc' = "exitProcess"
<1> DEFINE P == hilo[1]
<1>1. /\ salida'.pid = P /\ salida'.fase = "ready" /\ salida'.i = 1
      /\ salida'.arr = colaReadyHilo /\ pc' = "exitProcess"
  BY DEF exitProcess, Bucle
<1>2. saliendo = SinSalir
  BY FueraDeSalida
<1>3. Cadena'
  BY <1>1, <1>2 DEF Cadena
<1>4. Creados' = Creados /\ (Corre' <=> Corre)
  BY DEF Creados, Pids, Corre, colas
<1>5. \A t \in Bloqueados' : t.Pid = P => IdDe(t) = hilo
  BY DEF SalidaOrdenada, Bloqueados, Rango, colas
<1>6. \A t \in Dormidos' \cup Despiertos' : t.Pid # P
  <2> SUFFICES ASSUME NEW t \in Dormidos' \cup Despiertos', t.Pid = P PROVE FALSE
    OBVIOUS
  <2>1. PICK e \in esperas : e.tcb = t
    BY DEF Dormidos, Despiertos
  <2>2. IdDe(t) = hilo
    BY <2>1 DEF SalidaOrdenada
  <2> QED
    BY <2>2
<1>7. RecorreReady'
  <2>1. colaReadyHilo' = colaReadyHilo /\ colaReadyHilo \in Seq(TCBs)
    BY TipoLugares DEF colas
  <2>2. DOMAIN colaReadyHilo = 1..Len(colaReadyHilo)
    BY <2>1, Indices
  <2>3. \A j, k \in DOMAIN colaReadyHilo :
          (j < k /\ colaReadyHilo[j].Pid = P /\ colaReadyHilo[k].Pid = P) =>
            k # j + 1 /\ k # Len(colaReadyHilo)
    BY DEF SalidaOrdenada
  <2>4. salida'.alias
    BY DEF exitProcess, Bucle
  <2> HIDE DEF P
  <2> QED
    BY <1>1, <2>1, <2>2, <2>3, <2>4 DEF RecorreReady, Recorre, Alineado
<1>8. colaExecHilo' = <<>> \/ Corre'
  BY <1>4 DEF colas
<1> QED
  BY <1>1, <1>3, <1>4, <1>5, <1>6, <1>7, <1>8 DEF Recorrido

\* The running thread ends its process, by PROCESS_EXIT or a segmentation fault.
LEMMA HilosSalirDeCpu ==
  ASSUME Sano, pc = "cpu", SalidaOrdenada(hilo), exitProcess(hilo[1]),
         UNCHANGED <<colas, procesos, hilo, pendientes, colaExitHilo, saliendo, esperas>>
  PROVE  HInv'
<1> USE DEF Sano, HInv, IInv
<1>1. PICK a \in TCBs : /\ EnCpu = {a} /\ IdDe(a) = hilo /\ hilo \in Creados
                        /\ hilo[1] \in DOMAIN colaProcesosInicializados
                        /\ a \in Vivos /\ hilo \notin IdsDe(Bloqueados)
  BY ConActual
<1>2. salida.fase = "nada" /\ Corre
  BY ConActual DEF Cadena
<1>3. Lugares' /\ UNCHANGED <<Listos, EnCpu, Bloqueados, Dormidos, Despiertos, Vivos>>
  <2>1. SinMover
    BY DEF SinMover, procesos
  <2> QED
    BY <2>1, LugaresIgual
<1>4. \A t \in Dormidos \cup Despiertos : IdDe(t) # hilo
  BY <1>1 DEF Lugares, Apartados, Distintos, IdsDe, Vivos
<1>5. Cadena' /\ Recorrido' /\ salida'.fase # "nada"
  <2>1. /\ colaExecHilo = <<>> \/ Corre
        /\ pc \notin {"exitHilo", "exitProcess"} /\ esperas' \subseteq esperas
        /\ UNCHANGED <<colas, colaProcesosInicializados, hilo, pendientes, sinContexto, saliendo,
                       nextTid>>
    BY <1>2 DEF procesos
  <2>2. \A t \in Dormidos' \cup Despiertos' : IdDe(t) # hilo
    BY <1>3, <1>4
  <2> QED
    BY <1>1, <2>1, <2>2, EmpiezaSalida
<1>6. EnMutex' = EnMutex /\ Faltan' = Faltan /\ Recordados' = Recordados
  BY <1>3 DEF EnMutex, Faltan, Recordados, procesos
<1>7. \A t \in Bloqueados : ~Condenado(t) /\ ~Condenado(t)'
  BY <1>1, <1>2 DEF Condenado, IdsDe
<1>8. EnJoin' = EnJoin
  BY <1>3, <1>6, <1>7 DEF EnJoin
<1>9. Parejas' /\ Joins'
  BY <1>3, <1>6, <1>8 DEF Parejas, Joins, IdsDe
<1>10. Razones' /\ Vidas'
  BY <1>3, <1>6, <1>7 DEF Razones, Vidas, procesos
<1>11. MutexSanos'
  BY <1>3, EnMutexHechos, MutexSanosSigue DEF procesos
<1>12. AlFinal' /\ Dumps'
  BY AlFinalQuita, DumpsNinguno DEF colas
<1> QED
  BY <1>3, <1>5, <1>9, <1>10, <1>11, <1>12

\* PROCESS_EXIT by the main thread of the process.
LEMMA HilosFinalizarProceso ==
  ASSUME ReglasCumplidas, Sano, FinalizarProceso
  PROVE  HInv'
<1>1. /\ pc = "cpu" /\ SalidaOrdenada(hilo) /\ exitProcess(hilo[1])
      /\ UNCHANGED <<colas, procesos, hilo, pendientes, colaExitHilo, saliendo, esperas>>
  BY DEF FinalizarProceso, Llama, Regla, ReglasCumplidas, ReglasDeHilos
<1> QED
  BY <1>1, HilosSalirDeCpu

\* A segmentation fault.
LEMMA HilosSegmentationFault ==
  ASSUME ReglasCumplidas, Sano, SegmentationFault
  PROVE  HInv'
<1>1. /\ pc = "cpu" /\ SalidaOrdenada(hilo) /\ exitProcess(hilo[1])
      /\ UNCHANGED <<colas, procesos, hilo, pendientes, colaExitHilo, saliendo, esperas>>
  BY DEF SegmentationFault, Regla, ReglasCumplidas, ReglasDeHilos
<1> QED
  BY <1>1, HilosSalirDeCpu

\* A dump that fails: the process of the thread ends, and the thread stays in
\* block until the loop over block gets there.
LEMMA HilosDumpFalla ==
  ASSUME ReglasCumplidas, Sano, NEW e \in esperas, RespuestaDump(e, FALSE)
  PROVE  HInv'
<1> USE DEF Sano, HInv, IInv
<1> DEFINE t == e.tcb
<1>1. /\ pc = "dump" /\ e.paso = "dump" /\ esperas' = esperas \ {e} /\ SalidaOrdenada(hilo)
      /\ exitProcess(hilo[1])
      /\ UNCHANGED <<colas, procesos, hilo, pendientes, colaExitHilo, saliendo>>
  BY DEF RespuestaDump, Regla, ReglasCumplidas, ReglasDeHilos, colas
<1>2. salida.fase = "nada" /\ colaExecHilo = <<>>
  BY <1>1, FueraDeSalida DEF Cadena
<1>3. t \in Dormidos /\ t \in Bloqueados /\ t \in Vivos /\ IdDe(t) = hilo
  BY <1>1 DEF Dormidos, Lugares, Vivos, Dumps
<1> HIDE DEF t
<1>4. \A f \in esperas : f.tcb = t => f = e
  BY DEF Lugares, t
<1>5. UNCHANGED <<Listos, EnCpu, Bloqueados>>
  BY <1>1 DEF Listos, EnCpu, Bloqueados, colas
<1>6. Dormidos' = Dormidos \ {t} /\ Despiertos' = Despiertos
  <2>1. \A f \in esperas : f \in esperas' <=> f # e
    BY <1>1
  <2> QED
    BY <1>1, <1>4, <2>1 DEF Dormidos, Despiertos, t
<1>7. Vivos' = Vivos /\ Creados' = Creados
  BY <1>1, <1>5, <1>6 DEF Vivos, Creados, Pids, procesos
<1>8. Lugares'
  <2>1. Apartados'
    BY <1>5, <1>6 DEF Apartados, Lugares
  <2>2. IdsDe(Vivos') \cup (colaExitHilo' \ {NingunHilo}) = Creados'
    BY <1>1, <1>7 DEF Lugares
  <2> QED
    BY <1>1, <1>5, <1>6, <1>7, <2>1, <2>2 DEF Lugares, Distintos, colas
<1>9. \A u \in Vivos : IdDe(u) = hilo => u = t
  BY <1>3 DEF Lugares, Distintos
<1>10. Cadena' /\ Recorrido' /\ salida'.fase # "nada" /\ pc' = "exitProcess"
  <2>1. hilo \in Creados
    BY <1>3 DEF Lugares, IdsDe
  <2>2. hilo[1] \in DOMAIN colaProcesosInicializados
    BY <1>3 DEF Vidas, IdDe
  <2>3. \A u \in Dormidos' \cup Despiertos' : IdDe(u) # hilo
    BY <1>3, <1>6, <1>9 DEF Lugares, Apartados, Vivos
  <2>4. /\ pc \notin {"exitHilo", "exitProcess"} /\ esperas' \subseteq esperas
        /\ UNCHANGED <<colas, colaProcesosInicializados, hilo, pendientes, sinContexto, saliendo,
                       nextTid>>
    BY <1>1 DEF procesos
  <2> QED
    BY <1>1, <1>2, <2>1, <2>2, <2>3, <2>4, EmpiezaSalida
<1>11. EnMutex' = EnMutex /\ Faltan' = Faltan /\ Recordados' = Recordados
  BY <1>1, <1>7 DEF EnMutex, Faltan, Recordados, procesos
<1>12. \A u \in Bloqueados : ~Condenado(u) /\ (Condenado(u)' <=> u = t)
  BY <1>1, <1>2, <1>3, <1>9, <1>10 DEF Condenado, Vivos
<1>13. EnJoin' = EnJoin
  BY <1>3, <1>5, <1>6, <1>11, <1>12 DEF EnJoin
<1>14. Parejas' /\ Joins'
  BY <1>1, <1>7, <1>11, <1>13 DEF Parejas, Joins, IdsDe
<1>15. Razones'
  BY <1>3, <1>5, <1>6, <1>11, <1>12 DEF Razones
<1>16. Vidas'
  BY <1>1, <1>7 DEF Vidas, procesos
<1>17. MutexSanos'
  BY <1>1, <1>5, <1>7, EnMutexHechos, MutexSanosSigue DEF procesos
<1>18. AlFinal'
  BY <1>1, AlFinalQuita DEF colas
<1>19. Dumps'
  <2>1. \A f \in esperas : f.paso = "dump" => f = e
    <3>1. \A f \in esperas : f.paso = "dump" => IdDe(f.tcb) = hilo /\ f.tcb \in Dormidos
      BY <1>1 DEF Dumps, Dormidos
    <3>2. \A f \in esperas : f.paso = "dump" => f.tcb = t
      BY <1>9, <3>1 DEF Lugares, Vivos
    <3> QED
      BY <1>4, <3>2
  <2> QED
    BY <1>1, <2>1 DEF Dumps
<1> QED
  BY <1>8, <1>10, <1>14, <1>15, <1>16, <1>17, <1>18, <1>19

-----------------------------------------------------------------------------
(* exitHilo starts *)

\* A thread that waits for nothing but a join ends: those that it remembers are
\* the ones that exitHilo has to wake up.
LEMMA PasoSale ==
  ASSUME TypeOK, PidsEnOrden, HInv, saliendo = SinSalir, NEW t \in Vivos, t \notin EnMutex,
         Vivos' = Vivos \ {t}, Bloqueados' = Bloqueados \ {t}, Dormidos' = Dormidos,
         colaExitHilo' = colaExitHilo \cup {IdDe(t)},
         saliendo'.pid = t.Pid, saliendo'.hilo = t, saliendo'.faltan = t.HilosBloqueados,
         salida'.fase = salida.fase, UNCHANGED <<colaProcesosInicializados, hilo>>
  PROVE  Parejas' /\ Joins' /\ Razones' /\ Vidas' /\ MutexSanos'
<1> USE DEF HInv
<1>1. Faltan = {} /\ Faltan' = Recuerdos(t)
  <2>1. Faltan = {}
    BY EmptySeq DEF Faltan, SinSalir
  <2> QED
    BY <2>1 DEF Faltan, Recuerdos
<1>2. EnMutex' = EnMutex
  BY DEF EnMutex
<1>3. Recordados' = Recordados
  <2>1. (UNION {Recuerdos(u) : u \in Vivos \ {t}}) \cup Recuerdos(t) =
        UNION {Recuerdos(u) : u \in Vivos}
    OBVIOUS
  <2> QED
    BY <1>1, <2>1 DEF Recordados
<1>4. EnJoin' = EnJoin \ {t}
  BY <1>2 DEF EnJoin, Condenado
<1>5. Parejas'
  <2>1. SinRepetir(saliendo'.faltan)
    BY DEF Parejas
  <2>2. \A u \in Vivos' : SinRepetir(u.HilosBloqueados) /\ Recuerdos(u) \cap Recuerdos(t) = {}
    BY DEF Parejas
  <2>3. \A u, w \in Vivos' : u # w => Recuerdos(u) \cap Recuerdos(w) = {}
    BY DEF Parejas
  <2> QED
    BY <1>1, <2>1, <2>2, <2>3 DEF Parejas
<1>6. Joins'
  BY <1>3, <1>4 DEF Joins, IdsDe
<1>7. Razones'
  BY <1>2 DEF Razones, Condenado
<1>8. Vidas'
  BY DEF Vidas
<1>9. MutexSanos'
  <2>1. EnMutex \subseteq Bloqueados'
    BY EnMutexHechos
  <2>2. IdDe(saliendo.hilo) = NingunHilo
    BY DEF SinSalir, TCBNulo, IdDe, NingunHilo
  <2>3. IdsDe(Vivos) \subseteq IdsDe(Vivos') \cup {IdDe(saliendo'.hilo)}
    BY DEF IdsDe
  <2> QED
    BY <2>1, <2>2, <2>3, MutexSanosSigue
<1> QED
  BY <1>5, <1>6, <1>7, <1>8, <1>9

\* THREAD_EXIT: the running thread ends.
LEMMA HilosFinalizarHilo ==
  ASSUME Sano, FinalizarHilo
  PROVE  HInv'
<1> USE DEF Sano, HInv, IInv
<1>1. /\ pc = "cpu" /\ exitHilo(hilo[1], hilo[2], "fin")
      /\ UNCHANGED <<procesos, hilo, pendientes, salida, esperas>>
  BY DEF FinalizarHilo, Llama
<1>2. PICK a \in TCBs : /\ salida = SinSalida /\ salida.fase = "nada" /\ saliendo = SinSalir
                        /\ EnCpu = {a} /\ IdDe(a) = hilo /\ a.Pid = hilo[1] /\ a.Tid = hilo[2]
                        /\ eliminarHiloCola(colaExecHilo, hilo) = <<>> /\ hilo \in Creados
                        /\ a \in Vivos /\ a \notin Bloqueados
  BY <1>1, ConActual
<1>3. /\ Lugares' /\ UNCHANGED <<Dormidos, Despiertos>>
      /\ Bloqueados' = Bloqueados \ {a} /\ Vivos' = Vivos \ {a}
      /\ colaExitHilo' = colaExitHilo \cup {IdDe(a)}
      /\ saliendo' = [pid |-> hilo[1], hilo |-> a, faltan |-> a.HilosBloqueados, luego |-> "fin"]
      /\ colaExecHilo' = <<>> /\ colaBlockHilo' = colaBlockHilo
  <2>1. a \in Listos \cup EnCpu \cup Bloqueados /\ a \notin Dormidos
    BY <1>2 DEF Lugares
  <2>2. IdDe(a) = <<hilo[1], hilo[2]>> /\ UNCHANGED <<esperas, nextTid>>
    BY <1>1, <1>2 DEF IdDe, procesos
  <2> QED
    BY <1>1, <1>2, <2>1, <2>2, EfectoSalir
<1>4. Parejas' /\ Joins' /\ Razones' /\ Vidas' /\ MutexSanos'
  <2>1. a \notin EnMutex
    BY <1>2, EnMutexHechos
  <2>2. /\ saliendo'.pid = a.Pid /\ saliendo'.hilo = a /\ saliendo'.faltan = a.HilosBloqueados
        /\ salida'.fase = salida.fase /\ UNCHANGED <<colaProcesosInicializados, hilo>>
    BY <1>1, <1>2, <1>3 DEF procesos
  <2> QED
    BY <1>2, <1>3, <2>1, <2>2, PasoSale
<1>5. Cadena'
  <2>1. Creados' = Creados
    BY <1>1 DEF Creados, Pids, procesos
  <2>2. SaliendoSano'
    BY <1>1, <1>2, <1>3, <2>1 DEF SaliendoSano
  <2> QED
    BY <1>1, <1>2, <2>2 DEF Cadena, exitHilo, exitHiloDe, procesos
<1>6. AlFinal' /\ Dumps' /\ Recorrido'
  BY <1>1, <1>2, <1>3, AlFinalQuita, DumpsNinguno, RecorridoNada
<1> QED
  BY <1>3, <1>4, <1>5, <1>6

\* THREAD_CANCEL of another thread, that is in ready or waits in a join.
LEMMA HilosCancelar ==
  ASSUME ReglasCumplidas, Sano, NEW tid, CancelarHilo(tid)
  PROVE  HInv'
<1> USE DEF Sano, HInv, IInv
<1> DEFINE id == <<hilo[1], tid>>
<1>1. /\ pc = "cpu" /\ getTCB(id) # TCBNulo /\ id # hilo /\ \A e \in esperas : IdDe(e.tcb) # id
      /\ ~EsperaMutex(id) /\ exitHilo(hilo[1], tid, "cancelado")
      /\ UNCHANGED <<procesos, hilo, pendientes, salida, esperas>>
  BY DEF CancelarHilo, PideCancelar, Llama, Regla, ReglasCumplidas, ReglasDeHilos
<1>2. salida = SinSalida /\ salida.fase = "nada" /\ saliendo = SinSalir /\ Corre
  BY <1>1, ConActual DEF Cadena
<1>3. PICK t \in Listos \cup EnCpu \cup Bloqueados : IdDe(t) = id
  BY <1>1, getTCBNada DEF IdsDe
<1>4. /\ t \in Vivos /\ t \notin EnCpu /\ t \notin Dormidos /\ t.Pid = hilo[1]
  <2>1. t \notin EnCpu
    BY <1>1, <1>3, ConActual
  <2>2. t \notin Dormidos
    BY <1>1, <1>3 DEF Dormidos
  <2> QED
    BY <1>3, <2>1, <2>2 DEF Vivos, IdDe
<1>5. t \notin EnMutex
  <2> SUFFICES ASSUME t \in EnMutex PROVE FALSE
    OBVIOUS
  <2>1. PICK p \in DOMAIN colaProcesosInicializados :
           \E j \in DOMAIN colaProcesosInicializados[p] :
              t \in Rango(colaProcesosInicializados[p][j].colaBloqueados)
    BY DEF EnMutex
  <2>2. PICK j \in DOMAIN colaProcesosInicializados[p] :
               t \in Rango(colaProcesosInicializados[p][j].colaBloqueados)
    BY <2>1
  <2>3. p = id[1]
    BY <1>4, <2>2 DEF MutexSanos, MutexSano
  <2>4. EstaEn(colaProcesosInicializados[p][j].colaBloqueados, id)
    BY <1>3, <2>2, EstaEnRango DEF IdsDe
  <2> QED
    BY <1>1, <2>3, <2>4 DEF EsperaMutex, MutexesDe
<1> HIDE DEF id
<1>6. /\ Lugares' /\ UNCHANGED <<Dormidos, Despiertos>>
      /\ Bloqueados' = Bloqueados \ {t} /\ Vivos' = Vivos \ {t}
      /\ colaExitHilo' = colaExitHilo \cup {IdDe(t)}
      /\ saliendo' = [pid |-> hilo[1], hilo |-> t, faltan |-> t.HilosBloqueados,
                      luego |-> "cancelado"]
      /\ colaExecHilo' = colaExecHilo
      /\ colaBlockHilo' = IF t \in Bloqueados THEN eliminarHiloCola(colaBlockHilo, IdDe(t))
                          ELSE colaBlockHilo
  <2>1. UNCHANGED <<esperas, nextTid>> /\ IdDe(t) = <<hilo[1], tid>>
    BY <1>1, <1>3 DEF procesos, id
  <2> QED
    BY <1>1, <1>3, <1>4, <2>1, EfectoSalir
<1>7. Parejas' /\ Joins' /\ Razones' /\ Vidas' /\ MutexSanos'
  <2>1. /\ saliendo'.pid = t.Pid /\ saliendo'.hilo = t /\ saliendo'.faltan = t.HilosBloqueados
        /\ salida'.fase = salida.fase /\ UNCHANGED <<colaProcesosInicializados, hilo>>
    BY <1>1, <1>4, <1>6 DEF procesos
  <2> QED
    BY <1>2, <1>4, <1>5, <1>6, <2>1, PasoSale
<1>8. Cadena'
  <2>1. Creados' = Creados /\ (Corre' <=> Corre)
    BY <1>1, <1>6 DEF Creados, Pids, procesos, Corre
  <2>2. IdDe(t) \in Creados
    BY <1>4 DEF Lugares, IdsDe
  <2>3. SaliendoSano'
    BY <1>1, <1>2, <1>4, <1>6, <2>1, <2>2 DEF SaliendoSano
  <2> QED
    BY <1>1, <1>2, <2>3 DEF Cadena, exitHilo, exitHiloDe, procesos
<1>9. AlFinal' /\ Dumps' /\ Recorrido'
  BY <1>1, <1>2, <1>6, AlFinalQuita, DumpsNinguno, RecorridoNada
<1> QED
  BY <1>6, <1>7, <1>8, <1>9

-----------------------------------------------------------------------------
(* The loops of exitProcess *)

\* A step of exitProcess takes threads out of the queues or leaves them there.
LEMMA RecorridoMenos ==
  ASSUME Recorrido, salida.fase # "nada", salida'.pid = salida.pid, salida'.fase = salida.fase,
         UNCHANGED <<hilo, nextTid, colaProcesosInicializados>>,
         colaExecHilo' = colaExecHilo \/ colaExecHilo' = <<>>,
         Listos' \subseteq Listos, Bloqueados' \subseteq Bloqueados,
         Dormidos' \cup Despiertos' \subseteq Dormidos \cup Despiertos,
         salida.fase = "ready" => RecorreReady', salida.fase = "exec" => RecorreExec',
         salida.fase = "block" => RecorreBlock'
  PROVE  Recorrido'
<1>1. Creados' = Creados /\ (colaExecHilo' = <<>> \/ (Corre' <=> Corre))
  BY DEF Creados, Pids, Corre
<1>2. IdsDe(Bloqueados') \subseteq IdsDe(Bloqueados)
  BY DEF IdsDe
<1> QED
  BY <1>1, <1>2 DEF Recorrido

\* The array that a loop walks after it read one more element.
LEMMA LeeSiguiente ==
  ASSUME TypeOK, TypeOK', salida' \in ReflejosDe([salida EXCEPT !.i = @ + 1])
  PROVE  /\ salida'.pid = salida.pid /\ salida'.fase = salida.fase /\ salida'.i = salida.i + 1
         /\ salida.fase \notin {"ready", "block"} => salida'.arr = salida.arr
         /\ salida.arr \in Seq(TCBs) /\ salida'.arr \in Seq(TCBs)
         /\ salida.i \in Nat /\ salida.i >= 1 /\ Len(salida.arr) \in Nat
         /\ Len(salida'.arr) = Len(salida.arr)
         /\ DOMAIN salida.arr = 1..Len(salida.arr) /\ DOMAIN salida'.arr = 1..Len(salida.arr)
         /\ salida.fase = "ready" => \A k \in 1..Len(salida.arr) :
              \/ salida'.arr[k] = salida.arr[k]
              \/ k \in DOMAIN colaReadyHilo' /\ salida'.arr[k] = colaReadyHilo'[k]
         /\ salida.fase = "block" => \A k \in 1..Len(salida.arr) :
              \/ salida'.arr[k] = salida.arr[k]
              \/ k \in DOMAIN colaBlockHilo' /\ salida'.arr[k] = colaBlockHilo'[k]
<1> DEFINE s == [salida EXCEPT !.i = @ + 1]
<1>1. salida \in Salida /\ colaReadyHilo' \in Seq(TCBs) /\ colaBlockHilo' \in Seq(TCBs)
  BY DEF TypeOK, TipoColas, TipoFinales
<1>2. /\ s \in Salida /\ s.pid = salida.pid /\ s.fase = salida.fase /\ s.i = salida.i + 1
      /\ s.arr = salida.arr /\ salida.i \in Nat /\ salida.i >= 1 /\ salida.arr \in Seq(TCBs)
  BY <1>1 DEF Salida
<1> HIDE DEF s
<1>3. /\ salida'.pid = s.pid /\ salida'.fase = s.fase /\ salida'.i = s.i
      /\ s.fase \notin {"ready", "block"} => salida' = s
      /\ salida'.arr \in Seq(TCBs) /\ Len(salida'.arr) = Len(s.arr)
      /\ s.fase = "ready" => \A k \in 1..Len(s.arr) :
           \/ salida'.arr[k] = s.arr[k]
           \/ k \in DOMAIN colaReadyHilo' /\ salida'.arr[k] = colaReadyHilo'[k]
      /\ s.fase = "block" => \A k \in 1..Len(s.arr) :
           \/ salida'.arr[k] = s.arr[k]
           \/ k \in DOMAIN colaBlockHilo' /\ salida'.arr[k] = colaBlockHilo'[k]
  <2>1. salida' \in ReflejosDe(s)
    BY DEF s
  <2> QED
    BY <1>1, <1>2, <2>1, ReflejosDeHechos
<1>4. /\ Len(salida.arr) \in Nat /\ DOMAIN salida.arr = 1..Len(salida.arr)
      /\ DOMAIN salida'.arr = 1..Len(salida'.arr)
  BY <1>2, <1>3, LenProperties
<1> QED
  BY <1>2, <1>3, <1>4

\* The element is of another process.
LEMMA HilosRecorrerOtro ==
  ASSUME Sano, TypeOK', RecorrerCola, salida.arr[salida.i].Pid # salida.pid
  PROVE  HInv'
<1> USE DEF Sano, HInv, IInv
<1>1. /\ pc = "exitProcess" /\ salida.fase \in {"ready", "exec", "block"}
      /\ salida.i <= Len(salida.arr) /\ salida' \in ReflejosDe([salida EXCEPT !.i = @ + 1])
      /\ UNCHANGED <<colas, colaExitHilo, saliendo, pc, procesos, hilo, pendientes, esperas>>
  BY DEF RecorrerCola
<1>2. /\ salida'.pid = salida.pid /\ salida'.fase = salida.fase /\ salida'.i = salida.i + 1
      /\ salida.fase \notin {"ready", "block"} => salida'.arr = salida.arr
      /\ salida.i \in Nat /\ salida.i >= 1 /\ Len(salida.arr) \in Nat
      /\ Len(salida'.arr) = Len(salida.arr)
      /\ DOMAIN salida.arr = 1..Len(salida.arr) /\ DOMAIN salida'.arr = 1..Len(salida.arr)
      /\ salida.fase = "ready" => \A k \in 1..Len(salida.arr) :
           \/ salida'.arr[k] = salida.arr[k]
           \/ k \in DOMAIN colaReadyHilo' /\ salida'.arr[k] = colaReadyHilo'[k]
      /\ salida.fase = "block" => \A k \in 1..Len(salida.arr) :
           \/ salida'.arr[k] = salida.arr[k]
           \/ k \in DOMAIN colaBlockHilo' /\ salida'.arr[k] = colaBlockHilo'[k]
  BY <1>1, LeeSiguiente
<1>3. Lugares' /\ UNCHANGED <<Listos, EnCpu, Bloqueados, Dormidos, Despiertos, Vivos>>
  <2>1. SinMover
    BY <1>1 DEF SinMover, procesos
  <2> QED
    BY <2>1, LugaresIgual
<1>4. salida.fase # "nada"
  BY <1>1
<1>5. Parejas' /\ Joins' /\ Razones' /\ Vidas' /\ MutexSanos'
  BY <1>1, <1>2, <1>3, EnMutexHechos, PasoQuieto DEF procesos, Razones
<1>6. Cadena'
  BY <1>1, <1>2 DEF Cadena, procesos
<1>7. AlFinal' /\ Dumps'
  BY <1>1, AlFinalQuita, DumpsNinguno DEF colas
<1>8. salida.fase = "ready" => RecorreReady'
  <2> SUFFICES ASSUME salida.fase = "ready" PROVE RecorreReady'
    OBVIOUS
  <2> DEFINE s == [salida EXCEPT !.i = @ + 1]
  <2>1. colaReadyHilo' = colaReadyHilo /\ Recorre(salida, colaReadyHilo)
    BY <1>1 DEF colas, Recorrido, RecorreReady
  <2>2. salida \in Salida /\ colaReadyHilo \in Seq(TCBs)
    BY DEF TypeOK, TipoColas, TipoFinales
  <2>3. /\ s \in Salida /\ s.pid = salida.pid /\ s.i = salida.i + 1 /\ s.arr = salida.arr
        /\ s.alias = salida.alias /\ s.fase = "ready" /\ salida' \in ReflejosDe(s)
    BY <1>1, <2>2 DEF Salida
  <2> HIDE DEF s
  <2>4. Recorre(s, colaReadyHilo)
    BY <1>1, <2>1, <2>2, <2>3, RecorreAvanza
  <2>5. salida' \in Reflejos(s, colaReadyHilo, colaReadyHilo)
    BY <2>1, <2>3 DEF ReflejosDe
  <2>6. Recorre(salida', colaReadyHilo)
    BY <2>2, <2>3, <2>4, <2>5, RecorreMismo
  <2> QED
    BY <2>1, <2>6 DEF RecorreReady, Recorre, Alineado, Copiado
<1>9. salida.fase # "exec"
  <2> SUFFICES ASSUME salida.fase = "exec" PROVE FALSE
    OBVIOUS
  <2>1. RecorreExec /\ colaExecHilo # <<>>
    BY <1>1, <1>2 DEF Recorrido, RecorreExec
  <2>2. salida.i = 1 /\ salida.arr = colaExecHilo /\ Corre /\ salida.pid = hilo[1]
    BY <2>1 DEF RecorreExec, Recorrido
  <2> QED
    BY <2>2 DEF Corre, IdDe
<1>10. salida.fase = "block" => RecorreBlock'
  <2> SUFFICES ASSUME salida.fase = "block" PROVE RecorreBlock'
    OBVIOUS
  <2>1. /\ colaBlockHilo' = colaBlockHilo /\ RecorreBlock /\ salida.pid = hilo[1]
        /\ \A t \in Bloqueados : t.Pid = salida.pid => IdDe(t) = hilo
    BY <1>1 DEF colas, Recorrido
  <2>2. ASSUME NEW k \in 1..Len(salida.arr), salida'.arr[k].Pid = salida.pid
        PROVE  IdDe(salida'.arr[k]) = hilo
    <3>1. CASE salida'.arr[k] = salida.arr[k]
      BY <1>2, <2>1, <2>2, <3>1 DEF RecorreBlock
    <3>2. CASE k \in DOMAIN colaBlockHilo /\ salida'.arr[k] = colaBlockHilo[k]
      BY <2>1, <2>2, <3>2 DEF Bloqueados, Rango
    <3> QED
      BY <1>2, <2>1, <3>1, <3>2
  <2>3. ASSUME hilo \in IdsDe(Bloqueados)
        PROVE  /\ salida.i + 1 <= Len(salida.arr) /\ Len(salida.arr) >= Len(colaBlockHilo)
               /\ salida'.arr[Len(salida.arr)] = colaBlockHilo[Len(colaBlockHilo)]
    <3>1. /\ salida.i <= Len(salida.arr) /\ Len(salida.arr) >= Len(colaBlockHilo)
          /\ salida.arr[Len(salida.arr)] = colaBlockHilo[Len(colaBlockHilo)]
      BY <2>1, <2>3 DEF RecorreBlock
    <3>2. PICK k \in DOMAIN colaBlockHilo : IdDe(colaBlockHilo[k]) = hilo
      BY <2>3 DEF IdsDe, Bloqueados, Rango
    <3>3. k = Len(colaBlockHilo)
      BY <3>2 DEF AlFinal
    <3>4. colaBlockHilo[Len(colaBlockHilo)].Pid = salida.pid
      BY <2>1, <3>2, <3>3 DEF IdDe
    <3>5. salida.i # Len(salida.arr)
      BY <3>1, <3>4
    <3>6. salida.i + 1 <= Len(salida.arr) /\ Len(salida.arr) \in 1..Len(salida.arr)
      BY <1>2, <3>1, <3>5
    <3>7. \A l \in DOMAIN colaBlockHilo : l <= Len(colaBlockHilo) /\ Len(colaBlockHilo) \in Nat /\ l \in Nat
      BY TipoLugares, Indices
    <3>8. Len(salida.arr) \in DOMAIN colaBlockHilo => Len(salida.arr) = Len(colaBlockHilo)
      BY <1>2, <3>1, <3>7
    <3> QED
      BY <1>2, <2>1, <3>1, <3>6, <3>8
  <2> QED
    BY <1>1, <1>2, <1>3, <2>1, <2>2, <2>3 DEF RecorreBlock
<1>11. Recorrido'
  BY <1>1, <1>2, <1>3, <1>8, <1>9, <1>10, RecorridoMenos DEF colas, procesos
<1> QED
  BY <1>3, <1>5, <1>6, <1>7, <1>11

\* The element is of the process that ends: it is the thread of the process
\* that is in the queue, or it is that of the chain, which is in no queue.
LEMMA ElementoDelProceso ==
  ASSUME Sano, RecorrerCola, salida.arr[salida.i].Pid = salida.pid
  PROVE  LET u == salida.arr[salida.i]
         IN /\ IdDe(u) = <<salida.pid, u.Tid>> /\ u.Pid = salida.pid
            /\ salida.fase = "ready" => u \in Listos
            /\ salida.fase = "exec" => u \in EnCpu
            /\ salida.fase = "block" => IdDe(u) = hilo
<1> USE DEF Sano, HInv, IInv
<1> DEFINE u == salida.arr[salida.i]
<1>1. /\ salida.fase \in {"ready", "exec", "block"} /\ salida.i <= Len(salida.arr)
      /\ salida.i \in Nat /\ salida.i >= 1 /\ salida.arr \in Seq(TCBs)
  BY DEF RecorrerCola, TypeOK, TipoFinales, Salida
<1>2. /\ Len(salida.arr) \in Nat /\ DOMAIN salida.arr = 1..Len(salida.arr)
      /\ salida.i \in salida.i..Len(salida.arr) /\ salida.i \in DOMAIN salida.arr
  <2>1. Len(salida.arr) \in Nat /\ DOMAIN salida.arr = 1..Len(salida.arr)
    BY <1>1, LenProperties
  <2> QED
    BY <1>1, <2>1
<1>3. IdDe(u) = <<salida.pid, u.Tid>>
  BY DEF IdDe
<1>4. ASSUME salida.fase = "ready" PROVE u \in Listos
  <2>1. salida \in Salida /\ colaReadyHilo \in Seq(TCBs) /\ Recorre(salida, colaReadyHilo)
    BY <1>4 DEF Recorrido, RecorreReady, TypeOK, TipoColas, TipoFinales
  <2> QED
    BY <1>1, <2>1, RecorreElemento DEF Listos
<1>5. ASSUME salida.fase = "exec" PROVE u \in EnCpu
  <2>1. RecorreExec /\ colaExecHilo # <<>>
    BY <1>1, <1>2, <1>5 DEF Recorrido, RecorreExec
  <2>2. salida.i = 1 /\ salida.arr = colaExecHilo
    BY <2>1 DEF RecorreExec
  <2> QED
    BY <1>2, <2>2 DEF EnCpu, Rango
<1>6. ASSUME salida.fase = "block" PROVE IdDe(u) = hilo
  BY <1>2, <1>6 DEF Recorrido, RecorreBlock
<1> QED
  BY <1>3, <1>4, <1>5, <1>6

\* The thread leaves the queue.
LEMMA HilosRecorrerVivo ==
  ASSUME Sano, TypeOK', RecorrerCola, salida.arr[salida.i].Pid = salida.pid,
         NEW t \in Listos \cup EnCpu \cup Bloqueados, IdDe(t) = IdDe(salida.arr[salida.i])
  PROVE  HInv'
<1> USE DEF Sano, HInv, IInv
<1> DEFINE u == salida.arr[salida.i]
           P == salida.pid
<1>1. /\ pc = "exitProcess" /\ salida.fase \in {"ready", "exec", "block"}
      /\ salida.i <= Len(salida.arr) /\ salida' \in ReflejosDe([salida EXCEPT !.i = @ + 1])
      /\ exitHilo(P, u.Tid, "exitProcess")
      /\ UNCHANGED <<procesos, hilo, pendientes, esperas>> /\ saliendo = SinSalir
  BY DEF RecorrerCola, Cadena
<1>2. /\ salida'.pid = salida.pid /\ salida'.fase = salida.fase /\ salida'.i = salida.i + 1
      /\ salida.fase \notin {"ready", "block"} => salida'.arr = salida.arr
      /\ salida.i \in Nat /\ salida.i >= 1 /\ Len(salida.arr) \in Nat
      /\ Len(salida'.arr) = Len(salida.arr)
      /\ DOMAIN salida.arr = 1..Len(salida.arr) /\ DOMAIN salida'.arr = 1..Len(salida.arr)
      /\ salida.fase = "ready" => \A k \in 1..Len(salida.arr) :
           \/ salida'.arr[k] = salida.arr[k]
           \/ k \in DOMAIN colaReadyHilo' /\ salida'.arr[k] = colaReadyHilo'[k]
      /\ salida.fase = "block" => \A k \in 1..Len(salida.arr) :
           \/ salida'.arr[k] = salida.arr[k]
           \/ k \in DOMAIN colaBlockHilo' /\ salida'.arr[k] = colaBlockHilo'[k]
  BY <1>1, LeeSiguiente
<1>3. /\ IdDe(t) = <<P, u.Tid>> /\ t.Pid = P /\ t \in Vivos
      /\ salida.fase = "ready" => t \in Listos
      /\ salida.fase = "exec" => t \in EnCpu
      /\ salida.fase = "block" => IdDe(t) = hilo
  <2>1. /\ IdDe(u) = <<P, u.Tid>>
        /\ salida.fase = "ready" => u \in Listos
        /\ salida.fase = "exec" => u \in EnCpu
        /\ salida.fase = "block" => IdDe(u) = hilo
    BY ElementoDelProceso
  <2>2. t \in Vivos /\ \A w \in Vivos : IdDe(w) = IdDe(t) => w = t
    BY DEF Vivos, Lugares, Distintos
  <2>3. Listos \subseteq Vivos /\ EnCpu \subseteq Vivos
    BY DEF Vivos
  <2>4. t.Pid = P
    BY <2>1 DEF IdDe
  <2> QED
    BY <2>1, <2>2, <2>3, <2>4
<1> HIDE DEF u
<1>4. /\ P = hilo[1] /\ \A w \in Dormidos \cup Despiertos : w.Pid # P
      /\ \A w \in Bloqueados : w.Pid = P => IdDe(w) = hilo
      /\ salida.fase # "ready" => \A w \in Listos : w.Pid # P
      /\ salida.fase = "block" => colaExecHilo = <<>>
      /\ salida.fase = "ready" => RecorreReady
      /\ salida.fase = "exec" => RecorreExec
      /\ salida.fase = "block" => RecorreBlock
  BY <1>1 DEF Recorrido
<1>5. /\ Lugares' /\ UNCHANGED <<Dormidos, Despiertos>>
      /\ Listos' = Listos \ {t} /\ Bloqueados' = Bloqueados \ {t} /\ Vivos' = Vivos \ {t}
      /\ colaExitHilo' = colaExitHilo \cup {IdDe(t)}
      /\ saliendo' = [pid |-> P, hilo |-> t, faltan |-> t.HilosBloqueados,
                      luego |-> "exitProcess"]
      /\ colaReadyHilo' = IF t \in Listos THEN eliminarHiloCola(colaReadyHilo, IdDe(t))
                          ELSE colaReadyHilo
      /\ colaExecHilo' = IF t \in EnCpu THEN eliminarHiloCola(colaExecHilo, IdDe(t))
                         ELSE colaExecHilo
      /\ colaBlockHilo' = IF t \in Bloqueados THEN eliminarHiloCola(colaBlockHilo, IdDe(t))
                          ELSE colaBlockHilo
  <2>1. t \notin Dormidos /\ UNCHANGED <<esperas, nextTid>>
    BY <1>1, <1>3, <1>4 DEF procesos
  <2> QED
    BY <1>1, <1>3, <2>1, EfectoSalir
<1>6. colaExecHilo' = colaExecHilo \/ colaExecHilo' = <<>>
  <2> SUFFICES ASSUME t \in EnCpu PROVE colaExecHilo' = <<>>
    BY <1>5
  <2>1. colaExecHilo # <<>>
    BY TipoLugares, Indices DEF EnCpu
  <2>2. Corre
    BY <1>1, <2>1 DEF Recorrido
  <2>3. EnCpu = {t}
    BY <2>2, ElActual
  <2>4. eliminarHiloCola(colaExecHilo, hilo) = <<>> /\ IdDe(t) = hilo
    BY <2>2, <2>3, ElActual
  <2> QED
    BY <1>5, <2>4
<1>7. Parejas' /\ Joins' /\ Razones' /\ Vidas' /\ MutexSanos'
  <2>1. t \notin EnMutex
    <3>1. t \in Bloqueados => Condenado(t)
      BY <1>1, <1>3, <1>4 DEF Condenado
    <3> QED
      BY <3>1, EnMutexHechos DEF Razones
  <2>2. /\ saliendo'.pid = t.Pid /\ saliendo'.hilo = t /\ saliendo'.faltan = t.HilosBloqueados
        /\ salida'.fase = salida.fase /\ UNCHANGED <<colaProcesosInicializados, hilo>>
    BY <1>1, <1>2, <1>3, <1>5 DEF procesos
  <2> QED
    BY <1>1, <1>3, <1>5, <2>1, <2>2, PasoSale
<1>8. Cadena'
  <2>1. IdDe(t) \in Creados /\ Creados' = Creados
    BY <1>1, <1>3 DEF Lugares, IdsDe, Creados, Pids, procesos
  <2>2. SaliendoSano'
    BY <1>1, <1>2, <1>3, <1>5, <2>1 DEF SaliendoSano
  <2>3. pc' = "exitHilo" /\ salida'.fase # "nada"
    BY <1>1, <1>2 DEF exitHilo, exitHiloDe
  <2> QED
    BY <1>1, <2>2, <2>3 DEF Cadena, procesos
<1>9. AlFinal' /\ Dumps'
  BY <1>1, <1>5, AlFinalQuita, DumpsNinguno
<1>10. salida.fase = "ready" => RecorreReady'
  <2> SUFFICES ASSUME salida.fase = "ready" PROVE RecorreReady'
    OBVIOUS
  <2> DEFINE s == [salida EXCEPT !.i = @ + 1]
  <2>1. /\ salida \in Salida /\ colaReadyHilo \in Seq(TCBs) /\ Unico(colaReadyHilo)
        /\ Recorre(salida, colaReadyHilo)
    BY <1>4 DEF RecorreReady, TypeOK, TipoColas, TipoFinales, Lugares
  <2>2. /\ s \in Salida /\ s.pid = salida.pid /\ s.i = salida.i + 1 /\ s.arr = salida.arr
        /\ s.alias = salida.alias /\ s.fase = "ready" /\ salida' \in ReflejosDe(s)
    BY <1>1, <2>1 DEF Salida
  <2> HIDE DEF s
  <2>3. t = u /\ u \in Rango(colaReadyHilo) /\ u.Pid = P
    <3>1. u \in Listos
      BY ElementoDelProceso DEF u
    <3> QED
      BY <1>3, <3>1 DEF Lugares, Distintos, Vivos, Listos, u
  <2>4. PICK p \in 1..Len(colaReadyHilo) :
          colaReadyHilo[p] = u /\ colaReadyHilo' = Sin(colaReadyHilo, p)
    BY <1>3, <1>5, <2>1, <2>3, Quitar
  <2>5. salida' \in Reflejos(s, colaReadyHilo, Sin(colaReadyHilo, p))
    BY <2>2, <2>4 DEF ReflejosDe
  <2>6. Recorre(salida', Sin(colaReadyHilo, p))
    BY <1>1, <2>1, <2>2, <2>3, <2>4, <2>5, RecorreQuita DEF u
  <2> QED
    BY <2>4, <2>6 DEF RecorreReady, Recorre, Alineado, Copiado
<1>11. salida.fase = "exec" => RecorreExec'
  <2> SUFFICES ASSUME salida.fase = "exec" PROVE RecorreExec'
    OBVIOUS
  <2>1. colaExecHilo # <<>> /\ Len(salida.arr) <= 1
    BY <1>1, <1>2, <1>4 DEF RecorreExec
  <2>2. colaExecHilo' = <<>>
    <3>1. Corre
      BY <1>1, <2>1 DEF Recorrido
    <3>2. eliminarHiloCola(colaExecHilo, hilo) = <<>> /\ IdDe(t) = hilo
      BY <1>3, <3>1, ElActual
    <3> QED
      BY <1>3, <1>5, <3>2
  <2> QED
    BY <1>1, <1>2, <2>1, <2>2 DEF RecorreExec
<1>12. salida.fase = "block" => RecorreBlock'
  <2> SUFFICES ASSUME salida.fase = "block" PROVE RecorreBlock'
    OBVIOUS
  <2>1. hilo' \notin IdsDe(Bloqueados')
    BY <1>1, <1>3, <1>5 DEF IdsDe, Lugares, Distintos, Vivos
  <2>2. ASSUME NEW k \in 1..Len(salida.arr), salida'.arr[k].Pid = P PROVE IdDe(salida'.arr[k]) = hilo
    <3>1. CASE salida'.arr[k] = salida.arr[k]
      BY <1>2, <1>4, <2>2, <3>1 DEF RecorreBlock
    <3>2. CASE k \in DOMAIN colaBlockHilo' /\ salida'.arr[k] = colaBlockHilo'[k]
      <4>1. salida'.arr[k] \in Bloqueados'
        BY <3>2 DEF Bloqueados, Rango
      <4> QED
        BY <1>4, <1>5, <2>2, <4>1
    <3> QED
      BY <1>2, <3>1, <3>2
  <2> QED
    BY <1>1, <1>2, <2>1, <2>2 DEF RecorreBlock
<1>13. Recorrido'
  BY <1>1, <1>2, <1>5, <1>6, <1>10, <1>11, <1>12, RecorridoMenos DEF procesos
<1> QED
  BY <1>5, <1>7, <1>8, <1>9, <1>13

\* The thread is gone: the array still held it, and nobody leaves a queue.
LEMMA HilosRecorrerNadie ==
  ASSUME Sano, TypeOK', RecorrerCola, salida.arr[salida.i].Pid = salida.pid,
         IdDe(salida.arr[salida.i]) \notin IdsDe(Listos \cup EnCpu \cup Bloqueados)
  PROVE  HInv'
<1> USE DEF Sano, HInv, IInv
<1> DEFINE u == salida.arr[salida.i]
           P == salida.pid
<1>1. /\ pc = "exitProcess" /\ salida.fase \in {"ready", "exec", "block"}
      /\ salida.i <= Len(salida.arr) /\ salida' \in ReflejosDe([salida EXCEPT !.i = @ + 1])
      /\ exitHilo(P, u.Tid, "exitProcess")
      /\ UNCHANGED <<procesos, hilo, pendientes, esperas>> /\ saliendo = SinSalir
  BY DEF RecorrerCola, Cadena
<1>2. /\ salida'.pid = salida.pid /\ salida'.fase = salida.fase /\ salida'.i = salida.i + 1
      /\ salida.i \in Nat /\ salida.i >= 1 /\ Len(salida.arr) \in Nat
      /\ Len(salida'.arr) = Len(salida.arr)
      /\ DOMAIN salida.arr = 1..Len(salida.arr) /\ DOMAIN salida'.arr = 1..Len(salida.arr)
      /\ salida.fase = "block" => \A k \in 1..Len(salida.arr) :
           \/ salida'.arr[k] = salida.arr[k]
           \/ k \in DOMAIN colaBlockHilo' /\ salida'.arr[k] = colaBlockHilo'[k]
  BY <1>1, LeeSiguiente
<1>3. IdDe(u) = <<P, u.Tid>> /\ salida.fase = "block" /\ IdDe(u) = hilo
  <2>1. /\ IdDe(u) = <<P, u.Tid>>
        /\ salida.fase = "ready" => u \in Listos
        /\ salida.fase = "exec" => u \in EnCpu
        /\ salida.fase = "block" => IdDe(u) = hilo
    BY ElementoDelProceso
  <2>2. u \notin Listos /\ u \notin EnCpu
    BY DEF IdsDe
  <2> QED
    BY <1>1, <2>1, <2>2
<1> HIDE DEF u
<1>4. hilo \notin IdsDe(Bloqueados)
  BY <1>3 DEF IdsDe, u
<1>5. getTCB(<<P, u.Tid>>) = TCBNulo
  BY <1>3, getTCBNada DEF u
<1>6. IdDe(TCBNulo) = NingunHilo
  BY DEF IdDe, TCBNulo, NingunHilo
<1>7. /\ ~EstaEn(colaReadyHilo, NingunHilo) /\ ~EstaEn(colaExecHilo, NingunHilo)
      /\ ~EstaEn(colaBlockHilo, NingunHilo)
  BY NingunHiloNoVive, EstaEnRango DEF Vivos, IdsDe, Listos, EnCpu, Bloqueados
<1>8. /\ UNCHANGED colas /\ colaExitHilo' = colaExitHilo \cup {NingunHilo} /\ pc' = "exitHilo"
      /\ saliendo' = [pid |-> P, hilo |-> TCBNulo, faltan |-> TCBNulo.HilosBloqueados,
                      luego |-> "exitProcess"]
  BY <1>1, <1>5, <1>6, <1>7 DEF exitHilo, exitHiloDe, colas
<1>9. UNCHANGED <<Listos, EnCpu, Bloqueados, Dormidos, Despiertos, Vivos>>
  BY <1>1, <1>8 DEF colas, Listos, EnCpu, Bloqueados, Dormidos, Despiertos, Vivos
<1>10. Creados' = Creados
  BY <1>1 DEF Creados, Pids, procesos
<1>11. Lugares'
  <2>1. \A t \in Vivos : IdDe(t) \notin colaExitHilo'
    BY <1>8, NingunHiloNoVive DEF Lugares
  <2>2. colaExitHilo' \ {NingunHilo} = colaExitHilo \ {NingunHilo}
    BY <1>8
  <2>3. /\ Unico(colaReadyHilo)' /\ Unico(colaExecHilo)' /\ Unico(colaBlockHilo)'
    BY <1>8 DEF Lugares, colas, Unico
  <2>4. Apartados' /\ Distintos(Vivos)'
    BY <1>9 DEF Lugares, Apartados, Distintos
  <2>5. IdsDe(Vivos)' \cup (colaExitHilo' \ {NingunHilo}) = Creados'
    BY <1>9, <1>10, <2>2 DEF Lugares, IdsDe
  <2>6. Dormidos' \subseteq Bloqueados' /\ \A e, f \in esperas' : e.tcb = f.tcb => e = f
    BY <1>1, <1>9 DEF Lugares
  <2> QED
    BY <1>9, <2>1, <2>3, <2>4, <2>5, <2>6 DEF Lugares
<1>12. saliendo'.faltan = <<>> /\ saliendo.faltan = <<>> /\ TCBNulo.HilosBloqueados = <<>>
  BY <1>1, <1>8 DEF SinSalir, TCBNulo
<1>13. Parejas' /\ Joins' /\ Razones' /\ Vidas'
  <2>1. EnMutex' = EnMutex /\ Faltan' = Faltan /\ Faltan = {}
    BY <1>1, <1>12, EmptySeq DEF EnMutex, Faltan, procesos
  <2>2. Recordados' = Recordados
    BY <1>9, <2>1 DEF Recordados
  <2>3. EnJoin' = EnJoin
    BY <1>1, <1>2, <1>9, <2>1 DEF EnJoin, Condenado
  <2>4. Parejas'
    BY <1>9, <1>12, <2>1 DEF Parejas
  <2>5. Joins'
    BY <1>8, <2>2, <2>3 DEF Joins, IdsDe
  <2>6. Razones' /\ Vidas'
    BY <1>1, <1>2, <1>9, <2>1 DEF Razones, Condenado, Vidas, procesos
  <2> QED
    BY <2>4, <2>5, <2>6
<1>14. MutexSanos'
  <2>1. IdDe(saliendo.hilo) = NingunHilo
    BY <1>1, <1>6 DEF SinSalir
  <2>2. (IdsDe(Vivos) \cup {IdDe(saliendo.hilo)}) \ {NingunHilo}
           \subseteq IdsDe(Vivos') \cup {IdDe(saliendo'.hilo)}
    BY <1>9, <2>1
  <2>3. UNCHANGED colaProcesosInicializados /\ EnMutex \subseteq Bloqueados'
    BY <1>1, <1>9, EnMutexHechos DEF procesos
  <2> QED
    BY <2>2, <2>3, MutexSanosSigue
<1>15. Cadena'
  <2>1. SaliendoSano'
    BY <1>1, <1>2, <1>3, <1>4, <1>8, <1>9, <1>12 DEF SaliendoSano, IdsDe
  <2> QED
    BY <1>1, <1>2, <1>3, <1>8, <2>1 DEF Cadena, procesos
<1>16. AlFinal' /\ Dumps'
  BY <1>1, <1>8, AlFinalQuita, DumpsNinguno DEF colas
<1>17. RecorreBlock'
  <2>1. RecorreBlock /\ P = hilo[1] /\ \A w \in Bloqueados : w.Pid = P => IdDe(w) = hilo
    BY <1>3 DEF Recorrido
  <2>2. ASSUME NEW k \in 1..Len(salida.arr), salida'.arr[k].Pid = P
        PROVE  IdDe(salida'.arr[k]) = hilo
    <3>1. CASE salida'.arr[k] = salida.arr[k]
      BY <1>2, <2>1, <2>2, <3>1 DEF RecorreBlock
    <3>2. CASE k \in DOMAIN colaBlockHilo' /\ salida'.arr[k] = colaBlockHilo'[k]
      <4>1. salida'.arr[k] \in Bloqueados
        BY <1>9, <3>2 DEF Bloqueados, Rango
      <4> QED
        BY <2>1, <2>2, <4>1
    <3> QED
      BY <1>2, <1>3, <3>1, <3>2
  <2>3. hilo' \notin IdsDe(Bloqueados')
    BY <1>1, <1>4, <1>9
  <2> QED
    BY <1>1, <1>2, <2>2, <2>3 DEF RecorreBlock
<1>18. Recorrido'
  BY <1>1, <1>2, <1>3, <1>8, <1>9, <1>17, RecorridoMenos DEF colas, procesos
<1> QED
  BY <1>11, <1>13, <1>14, <1>15, <1>16, <1>18

\* A loop of exitProcess reads its next element.
LEMMA HilosRecorrer ==
  ASSUME Sano, TypeOK', RecorrerCola
  PROVE  HInv'
<1> DEFINE u == salida.arr[salida.i]
<1>1. CASE u.Pid # salida.pid
  BY <1>1, HilosRecorrerOtro
<1>2. CASE u.Pid = salida.pid /\ IdDe(u) \notin IdsDe(Listos \cup EnCpu \cup Bloqueados)
  BY <1>2, HilosRecorrerNadie
<1>3. ASSUME u.Pid = salida.pid, NEW t \in Listos \cup EnCpu \cup Bloqueados, IdDe(t) = IdDe(u)
      PROVE  HInv'
  BY <1>3, HilosRecorrerVivo
<1> QED
  BY <1>1, <1>2, <1>3 DEF IdsDe

-----------------------------------------------------------------------------
(* exitHilo goes on *)

\* A sequence without repetitions loses its first element.
LEMMA RepetirQuita ==
  ASSUME NEW s \in Seq(Nat), SinRepetir(s), s # <<>>, NEW p
  PROVE  /\ SinRepetir(Tail(s)) /\ Head(s) \in Nat
         /\ <<p, Head(s)>> \in {<<p, s[i]>> : i \in DOMAIN s}
         /\ {<<p, Tail(s)[i]>> : i \in DOMAIN Tail(s)} =
              {<<p, s[i]>> : i \in DOMAIN s} \ {<<p, Head(s)>>}
<1> DEFINE n == Len(s)
           r == Tail(s)
<1>1. n \in Nat /\ n # 0 /\ DOMAIN s = 1..n
  BY Indices, EmptySeq
<1>2. Head(s) = s[1] /\ 1 \in 1..n /\ Head(s) \in Nat
  BY <1>1, HeadTailProperties
<1>3. r \in Seq(Nat) /\ Len(r) = n - 1 /\ \A i \in 1..(n - 1) : r[i] = s[i + 1]
  BY HeadTailProperties
<1>4. DOMAIN r = 1..(n - 1)
  BY <1>3, LenProperties
<1> HIDE DEF r
<1>5. \A i \in 1..(n - 1) : i + 1 \in 1..n /\ i + 1 # 1
  BY <1>1
<1>6. \A k \in 1..n : k # 1 => k - 1 \in 1..(n - 1) /\ (k - 1) + 1 = k
  BY <1>1
<1>7. ASSUME NEW i \in 1..(n - 1), NEW j \in 1..(n - 1), r[i] = r[j]
      PROVE  i = j
  <2>1. i + 1 = j + 1
    BY <1>1, <1>3, <1>5, <1>7 DEF SinRepetir
  <2> QED
    BY <1>1, <2>1
<1>8. ASSUME NEW i \in 1..(n - 1)
      PROVE  r[i] \in {s[k] : k \in DOMAIN s} /\ r[i] # s[1]
  BY <1>1, <1>2, <1>3, <1>5 DEF SinRepetir
<1>9. ASSUME NEW k \in 1..n, s[k] # s[1] PROVE s[k] \in {r[i] : i \in DOMAIN r}
  <2>1. k - 1 \in 1..(n - 1) /\ r[k - 1] = s[k]
    BY <1>3, <1>6, <1>9
  <2> QED
    BY <1>4, <2>1
<1>10. {<<p, r[i]>> : i \in DOMAIN r} = {<<p, s[i]>> : i \in DOMAIN s} \ {<<p, s[1]>>}
  <2>1. \A i \in DOMAIN r : <<p, r[i]>> \in {<<p, s[k]>> : k \in DOMAIN s} \ {<<p, s[1]>>}
    BY <1>4, <1>8
  <2>2. \A k \in DOMAIN s : s[k] # s[1] => <<p, s[k]>> \in {<<p, r[i]>> : i \in DOMAIN r}
    BY <1>1, <1>9
  <2> QED
    BY <2>1, <2>2
<1>11. <<p, s[1]>> \in {<<p, s[i]>> : i \in DOMAIN s}
  BY <1>1, <1>2
<1> QED
  BY <1>2, <1>4, <1>7, <1>10, <1>11 DEF SinRepetir, r

\* A thread that joined the one that ends goes to ready.
LEMMA HilosDesbloquear ==
  ASSUME Sano, TypeOK', DesbloquearHilosJoin
  PROVE  HInv'
<1> USE DEF Sano, HInv, IInv
<1> DEFINE P == saliendo.pid
           id == <<P, Head(saliendo.faltan)>>
<1>1. /\ pc = "exitHilo" /\ saliendo.faltan # <<>>
      /\ saliendo' = [saliendo EXCEPT !.faltan = Tail(@)] /\ Reflejar
      /\ UNCHANGED <<colaExecHilo, colaProcesosInicializados, nextTid, sinContexto, pc, hilo,
                     pendientes, colaExitHilo, esperas>>
  BY DEF DesbloquearHilosJoin, procesos, cadena
<1>2. saliendo \in Saliendo /\ saliendo.faltan \in Seq(Nat)
  BY DEF TypeOK, TipoFinales, Saliendo
<1>3. /\ saliendo'.faltan = Tail(saliendo.faltan) /\ saliendo'.pid = P
      /\ saliendo'.hilo = saliendo.hilo /\ saliendo'.luego = saliendo.luego
  BY <1>1, <1>2 DEF Saliendo
<1>4. salida'.fase = salida.fase /\ salida'.pid = salida.pid
  BY <1>1, ReflejosDeHechos DEF Reflejar, TypeOK, TipoColas, TipoFinales
<1>5. /\ SinRepetir(saliendo'.faltan) /\ id \in Faltan /\ Faltan' = Faltan \ {id}
  <2> DEFINE s == saliendo.faltan
  <2>1. s \in Seq(Nat) /\ SinRepetir(s) /\ s # <<>>
    BY <1>1, <1>2 DEF Parejas
  <2>2. /\ SinRepetir(Tail(s)) /\ <<P, Head(s)>> \in {<<P, s[i]>> : i \in DOMAIN s}
        /\ {<<P, Tail(s)[i]>> : i \in DOMAIN Tail(s)} =
             {<<P, s[i]>> : i \in DOMAIN s} \ {<<P, Head(s)>>}
    BY <2>1, RepetirQuita
  <2>3. Faltan = {<<P, s[i]>> : i \in DOMAIN s}
    BY DEF Faltan
  <2>4. Faltan' = {<<P, Tail(s)[i]>> : i \in DOMAIN Tail(s)}
    BY <1>3 DEF Faltan
  <2> QED
    BY <1>3, <2>2, <2>3, <2>4
<1>6. id \in colaExitHilo \cup IdsDe(EnJoin)
  BY <1>5 DEF Joins, Recordados
<1>7. SaliendoSano
  BY <1>1 DEF Cadena
<1>8. salida.fase # "nada" => P = salida.pid
  BY <1>1, <1>7 DEF SaliendoSano, Saliendo, Cadena, TypeOK, TipoFinales
<1> HIDE DEF id
<1>9. IF id \in IdsDe(EnJoin)
      THEN \E t \in EnJoin : /\ IdDe(t) = id
                             /\ colaBlockHilo' = eliminarHiloCola(colaBlockHilo, id)
                             /\ colaReadyHilo' = Append(colaReadyHilo, t)
      ELSE UNCHANGED <<colaBlockHilo, colaReadyHilo>>
  <2>1. EstaEn(colaBlockHilo, id) <=> id \in IdsDe(Bloqueados)
    BY EstaEnRango DEF Bloqueados
  <2>2. IF EstaEn(colaBlockHilo, id)
        THEN /\ colaBlockHilo' = eliminarHiloCola(colaBlockHilo, id)
             /\ colaReadyHilo' = Append(colaReadyHilo, Buscar(colaBlockHilo, id))
        ELSE UNCHANGED <<colaBlockHilo, colaReadyHilo>>
    BY DEF DesbloquearHilosJoin, id
  <2>3. id \in IdsDe(Bloqueados) => id \in IdsDe(EnJoin)
    BY <1>6 DEF IdsDe, Lugares, Vivos
  <2>4. EnJoin \subseteq Bloqueados
    BY DEF EnJoin
  <2>5. ASSUME NEW t \in EnJoin, IdDe(t) = id PROVE Buscar(colaBlockHilo, id) = t
    <3>1. t \in Rango(colaBlockHilo) /\ colaBlockHilo \in Seq(TCBs) /\ Unico(colaBlockHilo)
      BY <2>4, TipoLugares DEF Bloqueados, Lugares
    <3> QED
      BY <2>5, <3>1, BuscarUno
  <2> QED
    BY <2>1, <2>2, <2>3, <2>4, <2>5 DEF IdsDe
<1>10. Recordados' = Recordados \ {id} \/ ~UNCHANGED Vivos
  <2>1. \A u \in Vivos : id \notin Recuerdos(u)
    BY <1>5 DEF Parejas
  <2> QED
    BY <1>5, <2>1 DEF Recordados
<1>11. Parejas' \/ ~UNCHANGED Vivos
  BY <1>5 DEF Parejas
<1>12. EnMutex' = EnMutex
  BY <1>1 DEF EnMutex
<1>13. UNCHANGED Vivos => Vidas'
  BY <1>1 DEF Vidas
<1>14. ASSUME UNCHANGED Vivos, EnMutex \subseteq Bloqueados' PROVE MutexSanos'
  BY <1>1, <1>3, <1>14, MutexSanosSigue
<1>15. ASSUME Bloqueados' \subseteq Bloqueados PROVE Cadena'
  <2>1. Creados' = Creados /\ (Corre' <=> Corre)
    BY <1>1 DEF Creados, Pids, Corre
  <2>2. SaliendoSano'
    BY <1>1, <1>3, <1>4, <1>7, <2>1 DEF SaliendoSano
  <2>3. salida'.fase = "nada" => salida' = SinSalida
    BY <1>1, <1>4, ReflejosDeHechos DEF Reflejar, TypeOK, TipoColas, TipoFinales, Cadena
  <2> QED
    BY <1>1, <1>4, <2>2, <2>3 DEF Cadena
<1>16. Dumps'
  BY <1>1, DumpsNinguno
<1>17. CASE id \notin IdsDe(EnJoin)
  <2>1. SinMover
    BY <1>1, <1>9, <1>17 DEF SinMover, colas
  <2>2. Lugares' /\ UNCHANGED <<Listos, EnCpu, Bloqueados, Dormidos, Despiertos, Vivos>>
    BY <2>1, LugaresIgual
  <2>3. EnJoin' = EnJoin
    BY <1>1, <1>4, <1>12, <2>2 DEF EnJoin, Condenado
  <2>4. Joins'
    BY <1>1, <1>10, <1>17, <2>2, <2>3 DEF Joins, IdsDe
  <2>5. Razones'
    BY <1>1, <1>4, <1>12, <2>2 DEF Razones, Condenado
  <2>6. MutexSanos'
    BY <1>14, <2>2, EnMutexHechos
  <2>7. AlFinal'
    BY <1>1, <1>9, <1>17, AlFinalQuita
  <2>8. Recorrido'
    BY <1>1, <1>9, <1>17, <2>2, RecorridoSigue
  <2> QED
    BY <1>11, <1>13, <1>15, <1>16, <2>2, <2>4, <2>5, <2>6, <2>7, <2>8
<1>18. ASSUME NEW t \in EnJoin, IdDe(t) = id,
              colaBlockHilo' = eliminarHiloCola(colaBlockHilo, id),
              colaReadyHilo' = Append(colaReadyHilo, t)
       PROVE  HInv'
  <2>1. t \in Bloqueados /\ t \notin Dormidos /\ t \notin EnMutex /\ ~Condenado(t)
    BY DEF EnJoin
  <2>2. /\ Lugares' /\ UNCHANGED <<EnCpu, Despiertos, Vivos>>
        /\ Bloqueados' = Bloqueados \ {t} /\ Listos' = Listos \cup {t}
        /\ Dormidos' = Dormidos \ {t}
    <3>1. {} \in SUBSET esperas /\ esperas' = esperas \ {} /\ \A e \in {} : e.tcb = t
      BY <1>1
    <3> QED
      BY <1>1, <1>18, <2>1, <3>1, EfectoDespertar
  <2>3. salida.fase = "nada"
    <3> SUFFICES ASSUME salida.fase # "nada" PROVE FALSE
      OBVIOUS
    <3>1. t.Pid = salida.pid
      BY <1>8, <1>18 DEF id, IdDe
    <3>2. IdDe(t) = hilo
      BY <2>1, <3>1 DEF Recorrido
    <3> QED
      BY <2>1, <3>2 DEF Condenado
  <2>4. EnJoin' = EnJoin \ {t}
    BY <1>4, <1>12, <2>1, <2>2, <2>3 DEF EnJoin, Condenado
  <2>5. IdsDe(EnJoin') = IdsDe(EnJoin) \ {id}
    <3>1. \A u \in EnJoin : IdDe(u) = id => u = t
      BY <1>18, <2>1 DEF EnJoin, Lugares, Distintos, Vivos
    <3> QED
      BY <1>18, <2>4, <3>1 DEF IdsDe
  <2>6. Joins'
    BY <1>1, <1>10, <2>2, <2>5 DEF Joins
  <2>7. Razones'
    BY <1>4, <1>12, <2>2, <2>3 DEF Razones, Condenado
  <2>8. MutexSanos'
    BY <1>14, <2>1, <2>2, EnMutexHechos
  <2>9. AlFinal'
    BY <1>1, <1>18, <2>1, AlFinalQuita
  <2>10. Recorrido'
    BY <1>4, <2>3, RecorridoNada
  <2> QED
    BY <1>11, <1>13, <1>15, <1>16, <2>2, <2>6, <2>7, <2>8, <2>9, <2>10
<1> QED
  BY <1>9, <1>17, <1>18

\* The end of exitHilo: the mutex of the thread, if it had one, goes to the
\* first that waits for it, and the caller of exitHilo goes on.
LEMMA HilosLiberarAlSalir ==
  ASSUME Sano, TypeOK', LiberarAlSalir
  PROVE  HInv'
<1> USE DEF Sano, HInv, IInv
<1> DEFINE P == saliendo.pid
           tid == saliendo.hilo.Tid
           ms == MutexesDe(P)
<1>1. /\ pc = "exitHilo" /\ saliendo.faltan = <<>> /\ saliendo' = SinSalir /\ Reflejar
      /\ \/ saliendo.luego = "fin" /\ Retornar(colaProcesosInicializados)
         \/ saliendo.luego # "fin" /\ pc' = saliendo.luego /\ UNCHANGED hilo
      /\ UNCHANGED <<colaExecHilo, nextTid, sinContexto, pendientes, colaExitHilo, esperas>>
  BY DEF LiberarAlSalir
<1>2. /\ saliendo \in Saliendo /\ SaliendoSano
      /\ saliendo.luego \in {"fin", "cancelado", "exitProcess"}
  BY <1>1 DEF TypeOK, TipoFinales, Saliendo, Cadena, SaliendoSano
<1>3. /\ salida'.fase = salida.fase /\ salida'.pid = salida.pid
      /\ salida.fase = "nada" => salida' = SinSalida
  BY <1>1, ReflejosDeHechos DEF Reflejar, TypeOK, TipoColas, TipoFinales, Cadena
<1>4. unlockMutex(P, tid, ms[1].Nombre)
  <2>1. ms # <<>> => DOMAIN ms = {1}
    BY ElMutex
  <2>2. ms = <<>> => DOMAIN ms = {}
    BY EmptySeq
  <2>3. CASE \E j \in DOMAIN ms : ms[j].HiloUsando = tid
    <3>1. DOMAIN ms = {1} /\ ms[1].HiloUsando = tid
      BY <2>1, <2>2, <2>3
    <3>2. (CHOOSE j \in DOMAIN ms : /\ ms[j].HiloUsando = tid
                                    /\ \A l \in 1..(j - 1) : ms[l].HiloUsando # tid) = 1
      <4>1. 1..(1 - 1) = {}
        OBVIOUS
      <4> QED
        BY <3>1, <4>1
    <3>3. getMutexUsando(ms, tid) = ms[1]
      BY <3>2 DEF getMutexUsando
    <3> QED
      BY <2>3, <3>3 DEF LiberarAlSalir
  <2>4. CASE ~\E j \in DOMAIN ms : ms[j].HiloUsando = tid
    <3>1. UNCHANGED <<colaProcesosInicializados, colaReadyHilo, colaBlockHilo>>
      BY <2>4 DEF LiberarAlSalir
    <3>2. ~(ms # <<>> /\ ms[1].HiloUsando = tid)
      BY <2>1, <2>4
    <3> QED
      BY <3>1, <3>2 DEF unlockMutex
  <2> QED
    BY <2>3, <2>4
<1>5. ASSUME NEW h, h[1] \in DOMAIN colaProcesosInicializados, PuedeTener(h)
      PROVE  h \in IdsDe(Vivos) \/ h = <<P, tid>>
  <2>1. NingunHilo[1] \notin DOMAIN colaProcesosInicializados
    <3>1. 0 \notin 1..Len(nextTid)
      BY LenProperties DEF TypeOK, TipoProcesos
    <3> QED
      BY <3>1 DEF PidsEnOrden, Pids, NingunHilo
  <2>2. IdDe(saliendo.hilo) = <<P, tid>> \/ IdDe(saliendo.hilo) = NingunHilo
    BY <1>2 DEF SaliendoSano, IdDe, TCBNulo, NingunHilo
  <2> QED
    BY <1>5, <2>1, <2>2 DEF PuedeTener
<1> HIDE DEF ms
<1>6. /\ Lugares' /\ UNCHANGED <<EnCpu, Despiertos, Vivos, Dormidos>>
      /\ DOMAIN colaProcesosInicializados' = DOMAIN colaProcesosInicializados
      /\ EnMutex' \subseteq EnMutex /\ Bloqueados' \subseteq Bloqueados
      /\ Bloqueados' \ EnMutex' = Bloqueados \ EnMutex
      /\ MutexSanos'
      /\ \/ colaReadyHilo' = colaReadyHilo /\ colaBlockHilo' = colaBlockHilo
         \/ \E t \in EnMutex : /\ t.Pid = P /\ t \in Bloqueados
                               /\ colaReadyHilo' = Append(colaReadyHilo, t)
                               /\ colaBlockHilo' = eliminarHiloCola(colaBlockHilo, IdDe(t))
  <2> DEFINE nombre == ms[1].Nombre
  <2>1. unlockMutex(P, tid, nombre)
    BY <1>4
  <2>2. ASSUME NEW h, h[1] \in DOMAIN colaProcesosInicializados, PuedeTener(h)
        PROVE  \/ PuedeTener(h)' \/ h \in IdsDe(Vivos)
               \/ h = <<P, tid>> /\ MutexesDe(P)[1].Nombre = nombre
    BY <1>5, <2>2 DEF ms
  <2>3. UNCHANGED <<colaExecHilo, colaExitHilo, nextTid, esperas>>
    BY <1>1
  <2> HIDE DEF nombre
  <2> QED
    BY <2>1, <2>2, <2>3, EfectoUnlock
<1>7. salida.fase = "nada" \/ (hilo' = hilo /\ saliendo.luego = "exitProcess" /\ P = salida.pid)
  BY <1>1, <1>2 DEF SaliendoSano
<1>8. Parejas' /\ Joins' /\ Razones' /\ Vidas'
  <2>1. Faltan' = {} /\ Faltan = {} /\ SinRepetir(saliendo'.faltan)
    BY <1>1, EmptySeq DEF Faltan, SinSalir, SinRepetir
  <2>2. Dormidos \cap EnMutex' = {}
    BY <1>6 DEF Razones
  <2> QED
    BY <1>1, <1>3, <1>6, <1>7, <2>1, <2>2, PasoMutex
<1>9. Cadena'
  <2>1. CASE saliendo.luego = "fin"
    <3>1. colaExecHilo' = <<>> /\ salida' = SinSalida
      BY <1>1, <1>2, <1>3, <2>1 DEF SaliendoSano
    <3> QED
      BY <1>1, <2>1, <3>1, CadenaRetorna
  <2>2. CASE saliendo.luego = "cancelado"
    <3>1. Corre' /\ pc' = "cancelado" /\ salida' = SinSalida /\ salida'.fase = "nada"
      BY <1>1, <1>2, <1>3, <2>2 DEF SaliendoSano, Corre
    <3> QED
      BY <1>1, <3>1 DEF Cadena
  <2>3. CASE saliendo.luego = "exitProcess"
    <3>1. pc' = "exitProcess" /\ salida'.fase # "nada"
      BY <1>1, <1>2, <1>3, <2>3 DEF SaliendoSano
    <3> QED
      BY <1>1, <3>1 DEF Cadena
  <2> QED
    BY <1>2, <2>1, <2>2, <2>3
<1>10. AlFinal'
  <2>1. CASE saliendo.luego = "fin"
    <3>1. hilo' = NingunHilo /\ Bloqueados' \subseteq Vivos
      BY <1>1, <1>6, <2>1 DEF Retornar, Vivos
    <3> QED
      BY <3>1, AlFinalNingun
  <2>2. CASE saliendo.luego # "fin"
    BY <1>1, <1>6, <2>2, AlFinalQuita
  <2> QED
    BY <2>1, <2>2
<1>11. Dumps'
  BY <1>1, DumpsNinguno
<1>12. Recorrido'
  <2>1. CASE salida.fase = "nada"
    BY <1>3, <2>1, RecorridoNada
  <2>2. CASE salida.fase # "nada"
    <3>1. ASSUME NEW t \in EnMutex, t.Pid = P, t \in Bloqueados PROVE FALSE
      <4>1. IdDe(t) = hilo
        BY <1>7, <2>2, <3>1 DEF Recorrido
      <4> QED
        BY <2>2, <3>1, <4>1 DEF Razones, Condenado
    <3>2. colaReadyHilo' = colaReadyHilo /\ colaBlockHilo' = colaBlockHilo
      BY <1>6, <3>1
    <3> QED
      BY <1>1, <1>6, <1>7, <2>2, <3>2, RecorridoSigue
  <2> QED
    BY <2>1, <2>2
<1> QED
  BY <1>6, <1>8, <1>9, <1>10, <1>11, <1>12

-----------------------------------------------------------------------------
(* The other steps of exitProcess *)

\* A loop of exitProcess ends with nothing left to find in its queue.
LEMMA HilosSiguienteCola ==
  ASSUME Sano, SiguienteCola
  PROVE  HInv'
<1> USE DEF Sano, HInv, IInv
<1> DEFINE P == salida.pid
<1>1. /\ pc = "exitProcess" /\ salida.i > Len(salida.arr)
      /\ UNCHANGED <<colas, procesos, cadena, colaExitHilo, saliendo, esperas>>
      /\ salida.fase \in {"ready", "exec", "block"}
  BY DEF SiguienteCola
<1>2. /\ salida'.pid = P /\ salida'.i = 1
      /\ salida.fase = "ready" => salida'.fase = "exec" /\ salida'.arr = colaExecHilo
      /\ salida.fase = "exec" => salida'.fase = "block" /\ salida'.arr = colaBlockHilo
      /\ salida.fase = "block" => salida'.fase = "memoria"
  BY DEF SiguienteCola, Bucle
<1>3. SinMover /\ UNCHANGED <<hilo, pc, pendientes, sinContexto, colaProcesosInicializados>>
  BY <1>1 DEF SinMover, procesos, cadena
<1>4. Lugares' /\ UNCHANGED <<Listos, EnCpu, Bloqueados, Dormidos, Despiertos, Vivos>>
  BY <1>3, LugaresIgual
<1>5. salida.i \in Nat /\ salida.arr \in Seq(TCBs) /\ Len(salida.arr) \in Nat
  BY LenProperties DEF TypeOK, TipoFinales, Salida
<1>6. salida.i..Len(salida.arr) = {} /\ ~(salida.i <= Len(salida.arr))
  BY <1>1, <1>5
<1>7. Parejas' /\ Joins' /\ Razones' /\ Vidas' /\ MutexSanos'
  <2>1. EnMutex \subseteq Bloqueados' /\ Dormidos' \cap EnMutex = {} /\ colaExitHilo' = colaExitHilo
    BY <1>1, <1>4, EnMutexHechos DEF Razones
  <2>2. /\ salida'.fase = "nada" <=> salida.fase = "nada"
        /\ UNCHANGED <<Vivos, saliendo, colaExitHilo, colaProcesosInicializados>>
        /\ hilo' = hilo /\ Dormidos' \subseteq Dormidos
        /\ (Bloqueados' \ Dormidos') \ EnMutex = (Bloqueados \ Dormidos) \ EnMutex
    BY <1>1, <1>2, <1>3, <1>4
  <2> QED
    BY <2>1, <2>2, PasoQuieto
<1>8. Cadena'
  BY <1>1, <1>2, <1>3 DEF Cadena
<1>9. AlFinal' /\ Dumps'
  BY <1>1, <1>3, AlFinalQuita, DumpsNinguno DEF colas
<1>10. Recorrido'
  <2>1. /\ P = hilo[1] /\ hilo \in Creados
        /\ colaExecHilo = <<>> \/ Corre
        /\ P \in DOMAIN colaProcesosInicializados
        /\ \A t \in Bloqueados : t.Pid = P => IdDe(t) = hilo
        /\ \A t \in Dormidos \cup Despiertos : t.Pid # P
    BY <1>1 DEF Recorrido
  <2>2. Creados' = Creados /\ (Corre' <=> Corre) /\ colaExecHilo' = colaExecHilo
    BY <1>3 DEF Creados, Pids, Corre, SinMover, colas
  <2>3. IdsDe(Bloqueados)' = IdsDe(Bloqueados)
    BY <1>4 DEF IdsDe
  <2>4. \A t \in Listos : t.Pid # P
    <3>1. CASE salida.fase = "ready"
      <4>1. /\ salida \in Salida /\ colaReadyHilo \in Seq(TCBs)
            /\ Recorre(salida, colaReadyHilo)
        BY <1>1, <3>1 DEF Recorrido, RecorreReady, TypeOK, TipoColas, TipoFinales
      <4> QED
        BY <1>1, <4>1, RecorreElemento DEF Listos
    <3>2. CASE salida.fase # "ready"
      BY <1>1, <3>2 DEF Recorrido
    <3> QED
      BY <3>1, <3>2
  <2>5. CASE salida.fase = "ready"
    <3>1. Len(colaExecHilo) <= 1 /\ (colaExecHilo = <<>> => 1 > Len(colaExecHilo))
      BY <2>1, Vacia DEF Corre
    <3>2. RecorreExec'
      BY <1>2, <2>2, <2>5, <3>1 DEF RecorreExec
    <3> QED
      BY <1>2, <1>3, <1>4, <2>1, <2>2, <2>4, <2>5, <3>2 DEF Recorrido
  <2>6. CASE salida.fase = "exec"
    <3>1. colaExecHilo = <<>>
      <4> SUFFICES ASSUME colaExecHilo # <<>> PROVE FALSE
        OBVIOUS
      <4>1. salida.i = 1 /\ Len(salida.arr) = 1
        BY <2>1, <2>6 DEF Recorrido, RecorreExec, Corre
      <4> QED
        BY <1>6, <4>1
    <3>2. colaBlockHilo' = colaBlockHilo /\ DOMAIN colaBlockHilo = 1..Len(colaBlockHilo)
          /\ Len(colaBlockHilo) \in Nat
      BY <1>3, TipoLugares, Indices DEF SinMover, colas
    <3>3. \A k \in DOMAIN colaBlockHilo :
             colaBlockHilo[k].Pid = P => IdDe(colaBlockHilo[k]) = hilo
      BY <2>1 DEF Bloqueados, Rango
    <3>4. hilo \in IdsDe(Bloqueados) => 1 <= Len(colaBlockHilo)
      BY <3>2 DEF IdsDe, Bloqueados, Rango
    <3>5. RecorreBlock'
      BY <1>2, <1>3, <2>3, <2>6, <3>2, <3>3, <3>4 DEF RecorreBlock
    <3> QED
      BY <1>2, <1>3, <1>4, <2>1, <2>2, <2>4, <2>6, <3>1, <3>5 DEF Recorrido
  <2>7. CASE salida.fase = "block"
    <3>1. hilo \notin IdsDe(Bloqueados) /\ colaExecHilo = <<>>
      BY <1>6, <2>7 DEF Recorrido, RecorreBlock
    <3> QED
      BY <1>2, <1>3, <1>4, <2>1, <2>2, <2>3, <2>4, <2>7, <3>1 DEF Recorrido
  <2> QED
    BY <1>1, <2>5, <2>6, <2>7
<1> QED
  BY <1>4, <1>7, <1>8, <1>9, <1>10

\* The process leaves the kernel: none of its threads is left.
LEMMA HilosTerminarProceso ==
  ASSUME Sano, TerminarProceso
  PROVE  HInv'
<1> USE DEF Sano, HInv, IInv
<1> DEFINE P == salida.pid
           ini == colaProcesosInicializados
<1>1. pc = "exitProcess" /\ salida.fase = "memoria" /\ P \in DOMAIN ini
  BY DEF TerminarProceso, EnFase, Recorrido
<1>2. /\ ini' = [p \in DOMAIN ini \ {P} |-> ini[p]]
      /\ salida' = [salida EXCEPT !.fase = "iniciar"]
      /\ UNCHANGED <<pc, hilo, pendientes, sinContexto, nextTid, saliendo, colaExitHilo, colas, esperas>>
  BY <1>1 DEF TerminarProceso
<1>3. salida'.fase = "iniciar" /\ salida'.pid = P
  BY <1>2 DEF TypeOK, TipoFinales, Salida
<1>4. SinMover
  BY <1>2 DEF SinMover
<1>5. Lugares' /\ UNCHANGED <<Listos, EnCpu, Bloqueados, Dormidos, Despiertos, Vivos>>
  BY <1>4, LugaresIgual
<1>6. /\ P = hilo[1] /\ hilo \in Creados /\ colaExecHilo = <<>> /\ hilo \notin IdsDe(Bloqueados)
      /\ \A t \in Bloqueados : t.Pid = P => IdDe(t) = hilo
      /\ \A t \in Dormidos \cup Despiertos : t.Pid # P
      /\ \A t \in Listos : t.Pid # P
  BY <1>1 DEF Recorrido
<1>7. \A t \in Vivos : t.Pid # P
  BY <1>6, Vacia DEF Vivos, EnCpu, IdsDe
<1>8. DOMAIN ini' = DOMAIN ini \ {P} /\ \A q \in DOMAIN ini' : ini'[q] = ini[q]
  BY <1>2
<1>9. EnMutex' = EnMutex
  <2>1. \A j \in DOMAIN ini[P] : Rango(ini[P][j].colaBloqueados) = {}
    BY <1>1, <1>7 DEF MutexSanos, MutexSano, Vivos
  <2> HIDE DEF ini
  <2> QED
    BY <1>8, <2>1 DEF EnMutex, ini
<1>10. Faltan' = Faltan /\ Recordados' = Recordados
  BY <1>2, <1>5 DEF Faltan, Recordados
<1>11. EnJoin' = EnJoin
  BY <1>1, <1>2, <1>3, <1>5, <1>9 DEF EnJoin, Condenado
<1>12. Parejas'
  BY <1>2, <1>5, <1>10 DEF Parejas
<1>13. Joins'
  BY <1>2, <1>10, <1>11 DEF Joins, IdsDe
<1>14. Razones'
  BY <1>1, <1>2, <1>3, <1>5, <1>9 DEF Razones, Condenado
<1>15. Vidas'
  BY <1>5, <1>7, <1>8 DEF Vidas
<1>16. MutexSanos'
  <2>1. ASSUME NEW q \in DOMAIN ini'
        PROVE  Len(ini'[q]) <= 1 /\ \A j \in DOMAIN ini'[q] : MutexSano(q, ini[q][j])'
    <3>1. q \in DOMAIN ini /\ ini'[q] = ini[q]
      BY <1>8, <2>1
    <3>2. Len(ini[q]) <= 1 /\ \A j \in DOMAIN ini[q] : MutexSano(q, ini[q][j])
      BY <3>1 DEF MutexSanos
    <3>3. saliendo' = saliendo
      BY <1>2
    <3> QED
      BY <1>5, <3>1, <3>2, <3>3 DEF MutexSano, IdsDe
  <2> QED
    BY <2>1 DEF MutexSanos
<1>17. Cadena'
  BY <1>1, <1>2, <1>3 DEF Cadena
<1>18. AlFinal' /\ Dumps'
  BY <1>1, <1>2, AlFinalQuita, DumpsNinguno DEF colas
<1>19. Recorrido'
  <2>1. Creados' = Creados /\ colaExecHilo' = colaExecHilo
    BY <1>2 DEF Creados, Pids, colas
  <2>2. hilo' \notin IdsDe(Bloqueados')
    BY <1>2, <1>5, <1>6
  <2> QED
    BY <1>2, <1>3, <1>5, <1>6, <2>1, <2>2 DEF Recorrido
<1> QED
  BY <1>5, <1>12, <1>13, <1>14, <1>15, <1>16, <1>17, <1>18, <1>19

\* exitProcess ends.
LEMMA HilosFinExitProcess ==
  ASSUME Sano, FinExitProcess
  PROVE  HInv'
<1> USE DEF Sano, HInv, IInv
<1>1. /\ pc = "exitProcess" /\ salida.fase = "iniciar" /\ salida' = SinSalida
      /\ Retornar(colaProcesosInicializados)
      /\ UNCHANGED <<colas, procesos, pendientes, colaExitHilo, saliendo, esperas>>
  BY DEF FinExitProcess, EnFase
<1>2. saliendo = SinSalir /\ colaExecHilo = <<>> /\ hilo \notin IdsDe(Bloqueados)
  BY <1>1 DEF Cadena, Recorrido
<1>3. SinMover
  BY <1>1 DEF SinMover, procesos
<1>4. Lugares' /\ UNCHANGED <<Listos, EnCpu, Bloqueados, Dormidos, Despiertos, Vivos>>
  BY <1>3, LugaresIgual
<1>5. salida'.fase = "nada"
  BY <1>1 DEF SinSalida
<1>6. \A t \in Bloqueados : ~Condenado(t) /\ ~Condenado(t)'
  BY <1>2, <1>5 DEF Condenado, IdsDe
<1>7. EnMutex' = EnMutex /\ Faltan' = Faltan /\ Recordados' = Recordados
  BY <1>1, <1>4 DEF EnMutex, Faltan, Recordados, procesos
<1>8. EnJoin' = EnJoin
  BY <1>4, <1>6, <1>7 DEF EnJoin
<1>9. Parejas' /\ Joins'
  BY <1>1, <1>4, <1>7, <1>8 DEF Parejas, Joins, IdsDe
<1>10. Razones' /\ Vidas'
  BY <1>1, <1>4, <1>6, <1>7 DEF Razones, Vidas, procesos
<1>11. MutexSanos'
  BY <1>1, <1>4, EnMutexHechos, MutexSanosSigue DEF procesos
<1>12. Cadena' /\ hilo' = NingunHilo
  <2>1. colaExecHilo' = <<>> /\ saliendo' = SinSalir /\ UNCHANGED <<pendientes, sinContexto>>
    BY <1>1, <1>2 DEF colas, procesos
  <2> QED
    BY <1>1, <2>1, CadenaRetorna
<1>13. AlFinal'
  BY <1>4, <1>12, AlFinalNingun DEF Vivos
<1>14. Dumps' /\ Recorrido'
  BY <1>1, <1>5, DumpsNinguno, RecorridoNada
<1> QED
  BY <1>4, <1>9, <1>10, <1>11, <1>12, <1>13, <1>14

\* Nothing happens.
LEMMA HilosNada ==
  ASSUME Sano, UNCHANGED vars
  PROVE  HInv'
<1> USE DEF Sano, HInv, IInv
<1>1. /\ SinMover
      /\ UNCHANGED <<colaReadyHilo, colaExecHilo, colaBlockHilo, colaExitHilo, esperas, nextTid,
                     colaProcesosInicializados, sinContexto, pc, hilo, pendientes, saliendo, salida>>
  BY DEF vars, colas, procesos, cadena, finales, SinMover
<1>2. Lugares' /\ UNCHANGED <<Listos, EnCpu, Bloqueados, Dormidos, Despiertos, Vivos>>
  BY <1>1, LugaresIgual
<1>3. Parejas' /\ Joins' /\ Razones' /\ Vidas' /\ MutexSanos'
  <2>1. EnMutex \subseteq Bloqueados' /\ Dormidos' \cap EnMutex = {}
    BY <1>2, EnMutexHechos DEF Razones
  <2> QED
    BY <1>1, <1>2, <2>1, PasoQuieto
<1>4. Creados' = Creados /\ (Corre' <=> Corre) /\ IdsDe(Bloqueados)' = IdsDe(Bloqueados)
  BY <1>1, <1>2 DEF Creados, Pids, Corre, IdsDe
<1>5. Cadena'
  <2>1. SaliendoSano => SaliendoSano'
    BY <1>1, <1>4 DEF SaliendoSano
  <2> QED
    BY <1>1, <1>4, <2>1 DEF Cadena
<1>6. AlFinal' /\ Dumps'
  BY <1>1 DEF AlFinal, Dumps
<1>7. Recorrido'
  <2>1. RecorreReady => RecorreReady'
    BY <1>1 DEF RecorreReady, Recorre, Alineado, Copiado
  <2>2. RecorreExec => RecorreExec'
    BY <1>1 DEF RecorreExec
  <2>3. RecorreBlock => RecorreBlock'
    BY <1>1, <1>4 DEF RecorreBlock
  <2> QED
    BY <1>1, <1>2, <1>4, <2>1, <2>2, <2>3 DEF Recorrido
<1> QED
  BY <1>2, <1>3, <1>5, <1>6, <1>7

-----------------------------------------------------------------------------
(* The invariant is inductive *)

\* The first process has one thread, in ready, or there is none.
LEMMA HilosInit ==
  ASSUME ReglasCumplidas, Init
  PROVE  HInv
<1> DEFINE tcb == [Pid |-> 1, Tid |-> 0, Prioridad |-> 0, HilosBloqueados |-> <<>>]
<1>1. tcb \in TCBs /\ IdDe(tcb) = <<1, 0>> /\ tcb.Pid = 1 /\ tcb.HilosBloqueados = <<>>
  BY EmptySeq DEF TCBs, IdDe
<1>2. PICK hay \in BOOLEAN, abre \in BOOLEAN :
        /\ Regla("archivos", abre)
        /\ colaReadyHilo = IF hay THEN <<tcb>> ELSE <<>>
        /\ colaProcesosInicializados = IF hay THEN [p \in {1} |-> <<>>] ELSE [p \in {} |-> <<>>]
        /\ nextTid = IF hay THEN <<1>> ELSE <<>>
        /\ sinContexto = IF hay /\ ~abre THEN {<<1, 0>>} ELSE {}
        /\ pc = IF hay THEN "libre" ELSE "detenido"
        /\ colaExecHilo = <<>> /\ colaBlockHilo = <<>> /\ colaExitHilo = {}
        /\ esperas = {} /\ hilo = NingunHilo /\ pendientes = <<>>
        /\ saliendo = SinSalir /\ salida = SinSalida
  BY DEF Init
<1>3. sinContexto = {}
  BY <1>2 DEF Regla, ReglasCumplidas, ReglasDeHilos
<1>4. /\ Listos = IF hay THEN {tcb} ELSE {}
      /\ EnCpu = {} /\ Bloqueados = {} /\ Dormidos = {} /\ Despiertos = {}
      /\ Unico(colaReadyHilo) /\ Unico(colaExecHilo) /\ Unico(colaBlockHilo)
  BY <1>1, <1>2, Uno, Vacia DEF Listos, EnCpu, Bloqueados, Dormidos, Despiertos
<1> HIDE DEF tcb
<1>5. Vivos = IF hay THEN {tcb} ELSE {}
  BY <1>4 DEF Vivos
<1>6. Creados = IF hay THEN {<<1, 0>>} ELSE {}
  <2>1. CASE hay
    <3>1. Len(nextTid) = 1 /\ nextTid[1] = 1 /\ 1..1 = {1} /\ 0..(1 - 1) = {0}
      BY <1>2, <2>1
    <3>2. Creados = {1} \X {0}
      BY <3>1 DEF Creados, Pids
    <3> QED
      BY <2>1, <3>2
  <2>2. CASE ~hay
    <3>1. Len(nextTid) = 0 /\ 1..0 = {}
      BY <1>2, <2>2
    <3> QED
      BY <2>2, <3>1 DEF Creados, Pids
  <2> QED
    BY <2>1, <2>2
<1>7. Lugares
  <2>1. IdsDe(Vivos) = Creados
    BY <1>1, <1>5, <1>6 DEF IdsDe
  <2> QED
    BY <1>2, <1>4, <1>5, <2>1 DEF Lugares, Apartados, Distintos
<1>8. Cadena /\ Recorrido
  BY <1>2, <1>3 DEF Cadena, Recorrido, SinSalida
<1>9. AlFinal /\ Dumps
  BY <1>2, EmptySeq DEF AlFinal, Dumps
<1>10. DOMAIN <<>> = {}
  BY EmptySeq
<1>11. Faltan = {} /\ SinRepetir(saliendo.faltan)
  BY <1>2, <1>10 DEF Faltan, SinSalir, SinRepetir
<1>12. \A t \in Vivos : Recuerdos(t) = {} /\ SinRepetir(t.HilosBloqueados)
  BY <1>1, <1>5, <1>10 DEF Recuerdos, SinRepetir
<1>13. Parejas
  BY <1>11, <1>12 DEF Parejas
<1>14. Recordados = {} /\ EnJoin = {}
  BY <1>4, <1>11, <1>12 DEF Recordados, EnJoin
<1>15. Joins /\ Razones
  BY <1>4, <1>14 DEF Joins, Razones, IdsDe
<1>16. DOMAIN colaProcesosInicializados = IF hay THEN {1} ELSE {}
  BY <1>2
<1>17. Vidas
  BY <1>1, <1>5, <1>16 DEF Vidas
<1>18. MutexSanos
  <2> SUFFICES ASSUME NEW p \in DOMAIN colaProcesosInicializados
               PROVE  Len(colaProcesosInicializados[p]) <= 1 /\ DOMAIN colaProcesosInicializados[p] = {}
    BY DEF MutexSanos
  <2>1. colaProcesosInicializados[p] = <<>>
    BY <1>2
  <2> QED
    BY <1>10, <2>1, Vacia
<1> QED
  BY <1>7, <1>8, <1>9, <1>13, <1>15, <1>17, <1>18 DEF HInv

\* Every step of the kernel, whatever the script chooses within the rules.
LEMMA HilosPaso ==
  ASSUME ReglasCumplidas, Sano, [Next]_vars
  PROVE  Sano'
<1>1. IInv' /\ MutexCoherente'
  BY PasoInv, MutexPaso DEF Sano, MutexBien
<1>2. TypeOK'
  BY <1>1 DEF IInv
<1>3. CASE Syscall
  <2>1. Prioridades \subseteq Nat
    BY KernelAssumption
  <2> QED
    BY <1>3, <2>1, HilosCrearProceso, HilosCrearHilo, HilosEntrar, HilosCancelar, HilosCrearMutex,
       HilosBloquear, HilosLiberar, HilosDump, <1>1
    DEF Syscall, Sano
<1>4. CASE DejaCpu
  BY <1>1, <1>4, HilosIo, HilosFinalizarHilo, HilosFinalizarProceso, HilosSegmentationFault,
     HilosDesalojar
  DEF DejaCpu, Sano
<1>5. CASE PasoKernel
  <2>1. ASSUME NEW e \in esperas, NEW hecho \in BOOLEAN, RespuestaDump(e, hecho) PROVE HInv'
    <3>1. CASE hecho = TRUE
      BY <2>1, <3>1, HilosDumpHecho
    <3>2. CASE hecho = FALSE
      BY <2>1, <3>2, HilosDumpFalla
    <3> QED
      BY <3>1, <3>2
  <2>2. HInv'
    BY <1>2, <1>5, <2>1, HilosEjecutar, HilosRecibir, HilosRafaga, HilosSeguirLock,
       HilosDesbloquear, HilosLiberarAlSalir, HilosVolver, HilosRecorrer, HilosSiguienteCola,
       HilosTerminarProceso, HilosIniciar, HilosFinExitProcess
    DEF PasoKernel
  <2> QED
    BY <1>1, <2>2 DEF Sano
<1>6. CASE \E e \in esperas : TerminaIo(e) \/ EncolaIo(e)
  BY <1>1, <1>2, <1>6, HilosTerminaIo, HilosEncolaIo DEF Sano
<1>7. CASE UNCHANGED vars
  BY <1>1, <1>7, HilosNada DEF Sano
<1> QED
  BY <1>3, <1>4, <1>5, <1>6, <1>7, SinCruce DEF Next, Terminado

\* Under the rules the threads are where they should be, in every state: the
\* invariant that the theorems below are read from.
THEOREM HilosSanos == ReglasCumplidas => (Spec => []Sano)
<1> SUFFICES ASSUME ReglasCumplidas PROVE Spec => []Sano
  OBVIOUS
<1>1. Init => Sano
  BY InitInv, HilosInit DEF Sano, Init, MutexCoherente
<1>2. Sano /\ [Next]_vars => Sano'
  BY HilosPaso
<1> QED
  BY <1>1, <1>2, PTL DEF Spec

-----------------------------------------------------------------------------
(* What the invariant says of the properties of KernelProps *)

\* How often a thread is in a queue that holds each thread once.
LEMMA VecesUno ==
  ASSUME NEW q \in Seq(TCBs), Unico(q), NEW id
  PROVE  VecesEn(q, id) = IF EstaEn(q, id) THEN 1 ELSE 0
<1> DEFINE S == {i \in DOMAIN q : IdDe(q[i]) = id}
<1>1. CASE EstaEn(q, id)
  <2>1. PICK i \in DOMAIN q : IdDe(q[i]) = id
    BY <1>1 DEF EstaEn
  <2>2. S = {i}
    BY <2>1 DEF Unico
  <2> HIDE DEF S
  <2>3. Cardinality(S) = 1
    BY <2>2, FS_Singleton
  <2> QED
    BY <1>1, <2>3 DEF VecesEn, S
<1>2. CASE ~EstaEn(q, id)
  <2>1. S = {}
    BY <1>2 DEF EstaEn
  <2> HIDE DEF S
  <2>2. Cardinality(S) = 0
    BY <2>1, FS_EmptySet
  <2> QED
    BY <1>2, <2>2 DEF VecesEn, S
<1> QED
  BY <1>1, <1>2

\* Where a thread is, in the words of the properties and in those of Lugares.
LEMMA DondeEsta ==
  ASSUME TypeOK, Lugares, NEW id
  PROVE  /\ EstaEn(colaReadyHilo, id) <=> id \in IdsDe(Listos)
         /\ EstaEn(colaExecHilo, id) <=> id \in IdsDe(EnCpu)
         /\ EstaEn(colaBlockHilo, id) <=> id \in IdsDe(Bloqueados)
         /\ EnTransito(id) <=> id \in IdsDe(Despiertos)
         /\ EnColas(id) <=> id \in IdsDe(Vivos)
         /\ id \in IdsDe(Listos) => id \notin IdsDe(EnCpu \cup Bloqueados \cup Despiertos)
         /\ id \in IdsDe(EnCpu) => id \notin IdsDe(Bloqueados \cup Despiertos)
         /\ id \in IdsDe(Bloqueados) => id \notin IdsDe(Despiertos)
<1>1. /\ EstaEn(colaReadyHilo, id) <=> id \in IdsDe(Listos)
      /\ EstaEn(colaExecHilo, id) <=> id \in IdsDe(EnCpu)
      /\ EstaEn(colaBlockHilo, id) <=> id \in IdsDe(Bloqueados)
  BY EstaEnRango DEF Listos, EnCpu, Bloqueados
<1>2. EnTransito(id) <=> id \in IdsDe(Despiertos)
  BY DEF EnTransito, IdsDe, Despiertos
<1>3. IdsDe(Vivos) = IdsDe(Listos) \cup IdsDe(EnCpu) \cup IdsDe(Bloqueados) \cup IdsDe(Despiertos)
  BY DEF IdsDe, Vivos
<1>4. EnColas(id) <=> id \in IdsDe(Vivos)
  BY <1>1, <1>2, <1>3 DEF EnColas
<1>5. /\ id \in IdsDe(Listos) => id \notin IdsDe(EnCpu \cup Bloqueados \cup Despiertos)
      /\ id \in IdsDe(EnCpu) => id \notin IdsDe(Bloqueados \cup Despiertos)
      /\ id \in IdsDe(Bloqueados) => id \notin IdsDe(Despiertos)
  BY DEF IdsDe, Lugares, Apartados, Distintos, Vivos
<1> QED
  BY <1>1, <1>2, <1>4, <1>5

\* Every thread created is in one place.
LEMMA SanoLugar == Sano => UnLugarPorHilo
<1> SUFFICES ASSUME Sano, NEW id \in Creados
             PROVE  VecesEn(colaReadyHilo, id) + VecesEn(colaExecHilo, id) + VecesEn(colaBlockHilo, id)
                      + (IF EnTransito(id) THEN 1 ELSE 0) + (IF id \in colaExitHilo THEN 1 ELSE 0) = 1
  BY DEF UnLugarPorHilo
<1> USE DEF Sano, HInv, IInv
<1>1. /\ VecesEn(colaReadyHilo, id) = IF id \in IdsDe(Listos) THEN 1 ELSE 0
      /\ VecesEn(colaExecHilo, id) = IF id \in IdsDe(EnCpu) THEN 1 ELSE 0
      /\ VecesEn(colaBlockHilo, id) = IF id \in IdsDe(Bloqueados) THEN 1 ELSE 0
  BY TipoLugares, VecesUno, DondeEsta DEF Lugares
<1>2. /\ EnTransito(id) <=> id \in IdsDe(Despiertos)
      /\ id \in IdsDe(Listos) => id \notin IdsDe(EnCpu \cup Bloqueados \cup Despiertos)
      /\ id \in IdsDe(EnCpu) => id \notin IdsDe(Bloqueados \cup Despiertos)
      /\ id \in IdsDe(Bloqueados) => id \notin IdsDe(Despiertos)
  BY DondeEsta
<1>3. /\ IdsDe(Vivos) = IdsDe(Listos) \cup IdsDe(EnCpu) \cup IdsDe(Bloqueados) \cup IdsDe(Despiertos)
      /\ IdsDe(EnCpu \cup Bloqueados \cup Despiertos) =
           IdsDe(EnCpu) \cup IdsDe(Bloqueados) \cup IdsDe(Despiertos)
      /\ IdsDe(Bloqueados \cup Despiertos) = IdsDe(Bloqueados) \cup IdsDe(Despiertos)
  BY DEF IdsDe, Vivos
<1>4. id # NingunHilo
  BY CreadosTipo
<1>5. id \in colaExitHilo <=> id \notin IdsDe(Vivos)
  <2>1. id \in IdsDe(Vivos) => id \notin colaExitHilo
    BY DEF Lugares, IdsDe
  <2>2. id \in IdsDe(Vivos) \cup (colaExitHilo \ {NingunHilo})
    BY DEF Lugares
  <2> QED
    BY <2>1, <2>2
<1> DEFINE a == VecesEn(colaReadyHilo, id)
           b == VecesEn(colaExecHilo, id)
           c == VecesEn(colaBlockHilo, id)
           d == IF EnTransito(id) THEN 1 ELSE 0
           f == IF id \in colaExitHilo THEN 1 ELSE 0
<1>6. a \in {0, 1} /\ b \in {0, 1} /\ c \in {0, 1} /\ d \in {0, 1} /\ f \in {0, 1}
  BY <1>1
<1>7. /\ a = 1 => b = 0 /\ c = 0 /\ d = 0
      /\ b = 1 => c = 0 /\ d = 0
      /\ c = 1 => d = 0
      /\ f = 1 <=> a = 0 /\ b = 0 /\ c = 0 /\ d = 0
  BY <1>1, <1>2, <1>3, <1>5
<1> HIDE DEF a, b, c, d, f
<1>8. a + b + c + d + f = 1
  BY <1>6, <1>7
<1> QED
  BY <1>8 DEF a, b, c, d, f

\* The holders of mutexes live, and those who wait for one are blocked.
LEMMA SanoMutex == Sano => MutexConVivos
<1> SUFFICES ASSUME Sano, NEW p \in DOMAIN colaProcesosInicializados,
                    NEW j \in DOMAIN colaProcesosInicializados[p]
             PROVE  LET m == colaProcesosInicializados[p][j]
                    IN /\ m.HiloUsando # -1 => \/ EnColas(<<p, m.HiloUsando>>)
                                               \/ IdDe(saliendo.hilo) = <<p, m.HiloUsando>>
                       /\ \A i \in DOMAIN m.colaBloqueados :
                            EstaEn(colaBlockHilo, IdDe(m.colaBloqueados[i]))
  BY DEF MutexConVivos
<1> USE DEF Sano, HInv, IInv
<1> DEFINE m == colaProcesosInicializados[p][j]
<1>1. MutexSano(p, m)
  BY DEF MutexSanos
<1> HIDE DEF m
<1>2. m.HiloUsando # -1 =>
        EnColas(<<p, m.HiloUsando>>) \/ IdDe(saliendo.hilo) = <<p, m.HiloUsando>>
  BY <1>1, DondeEsta DEF MutexSano
<1>3. ASSUME NEW i \in DOMAIN m.colaBloqueados
      PROVE  EstaEn(colaBlockHilo, IdDe(m.colaBloqueados[i]))
  <2>1. m.colaBloqueados[i] \in Bloqueados
    BY <1>1 DEF MutexSano, Rango
  <2> QED
    BY <2>1, DondeEsta DEF IdsDe
<1> QED
  BY <1>2, <1>3 DEF m

\* Each blocked thread waits for one thing, which is there.
LEMMA SanoDespertador == Sano => BloqueadoConDespertador
<1> SUFFICES ASSUME Sano, NEW k \in DOMAIN colaBlockHilo
             PROVE  LET id == IdDe(colaBlockHilo[k])
                    IN \/ EsperaIo(id) /\ ~EsperaMutex(id) /\ ~EsperaJoin(id)
                       \/ EsperaMutexVivo(id) /\ ~EsperaIo(id) /\ ~EsperaJoin(id)
                       \/ EsperaJoin(id) /\ ~EsperaIo(id) /\ ~EsperaMutex(id)
                       \/ pc \in {"exitProcess", "exitHilo"} /\ salida.pid = id[1]
  BY DEF BloqueadoConDespertador
<1> USE DEF Sano, HInv, IInv
<1> DEFINE t == colaBlockHilo[k]
           id == IdDe(t)
<1>1. t \in Bloqueados /\ t \in Vivos /\ t \in TCBs
  BY TipoLugares DEF Bloqueados, Rango, Vivos
<1>2. \A u \in Vivos : IdDe(u) = id => u = t
  BY <1>1 DEF Lugares, Distintos
<1>3. id[1] = t.Pid /\ id = <<t.Pid, t.Tid>>
  BY DEF IdDe
<1> HIDE DEF t
<1>4. EsperaIo(id) <=> t \in Dormidos
  <2>1. \A e \in esperas : e.paso # "encolar" <=> e.paso \in {"durmiendo", "dump"}
    BY DEF TypeOK, Esperas
  <2>2. EsperaIo(id) <=> \E u \in Dormidos : IdDe(u) = id
    BY <2>1 DEF EsperaIo, Dormidos
  <2>3. Dormidos \subseteq Vivos
    BY DEF Lugares, Vivos
  <2> QED
    BY <1>2, <2>2, <2>3
<1>5. /\ t \in EnMutex <=> EsperaMutex(id)
      /\ t \in EnMutex => EsperaMutexVivo(id)
  <2>1. EnMutex \subseteq Vivos
    BY EnMutexHechos DEF Vivos
  <2>2. ASSUME EsperaMutex(id) PROVE t \in EnMutex
    <3>1. PICK j \in DOMAIN MutexesDe(id[1]) : EstaEn(MutexesDe(id[1])[j].colaBloqueados, id)
      BY <2>2 DEF EsperaMutex
    <3>2. /\ id[1] \in DOMAIN colaProcesosInicializados
          /\ MutexesDe(id[1]) = colaProcesosInicializados[id[1]]
      BY <3>1, EmptySeq DEF MutexesDe
    <3>3. PICK u \in Rango(MutexesDe(id[1])[j].colaBloqueados) : IdDe(u) = id
      BY <3>1 DEF EstaEn, Rango
    <3>4. u \in EnMutex
      BY <3>1, <3>2, <3>3, EnMutexHechos
    <3> QED
      BY <1>2, <2>1, <3>3, <3>4
  <2>3. ASSUME t \in EnMutex PROVE EsperaMutex(id) /\ EsperaMutexVivo(id)
    <3>1. PICK p \in DOMAIN colaProcesosInicializados :
             \E j \in DOMAIN colaProcesosInicializados[p] :
               t \in Rango(colaProcesosInicializados[p][j].colaBloqueados)
      BY <2>3 DEF EnMutex
    <3>2. PICK j \in DOMAIN colaProcesosInicializados[p] :
             t \in Rango(colaProcesosInicializados[p][j].colaBloqueados)
      BY <3>1
    <3> DEFINE m == colaProcesosInicializados[p][j]
    <3>3. MutexSano(p, m) /\ Coherente(m)
      BY <3>1, <3>2 DEF MutexSanos, MutexCoherente
    <3>4. p = id[1] /\ MutexesDe(p) = colaProcesosInicializados[p]
      BY <1>3, <3>1, <3>2, <3>3 DEF MutexSano, MutexesDe
    <3>5. EstaEn(m.colaBloqueados, id)
      BY <3>2 DEF EstaEn, Rango
    <3>6. m.HiloUsando # -1
      <4>1. m.colaBloqueados # <<>>
        BY <3>5, EmptySeq DEF EstaEn
      <4> QED
        BY <3>3, <4>1 DEF Coherente
    <3>7. EnColas(<<p, m.HiloUsando>>) \/ saliendo.luego # "nada"
      <4>1. CASE <<p, m.HiloUsando>> \in IdsDe(Vivos)
        BY <4>1, DondeEsta
      <4>2. CASE IdDe(saliendo.hilo) = <<p, m.HiloUsando>>
        <5>1. p # 0
          <6>1. 0 \notin 1..Len(nextTid)
            BY LenProperties DEF TypeOK, TipoProcesos
          <6> QED
            BY <3>1, <6>1 DEF PidsEnOrden, Pids
        <5>2. saliendo # SinSalir
          BY <4>2, <5>1 DEF IdDe, SinSalir, TCBNulo
        <5> QED
          BY <5>2 DEF Cadena, SaliendoSano
      <4> QED
        BY <3>3, <3>6, <4>1, <4>2 DEF MutexSano
    <3> QED
      BY <3>2, <3>4, <3>5, <3>7 DEF EsperaMutex, EsperaMutexVivo
  <2> QED
    BY <2>2, <2>3
<1>6. EsperaJoin(id) <=> id \in Recordados
  <2>1. \A u : Recuerda(u, id) <=> id \in Recuerdos(u)
    BY <1>3 DEF Recuerda, Recuerdos
  <2>2. (saliendo.pid = id[1] /\ \E i \in DOMAIN saliendo.faltan : saliendo.faltan[i] = id[2])
          <=> id \in Faltan
    BY <1>3 DEF Faltan
  <2>3. /\ (\E i \in DOMAIN colaReadyHilo : Recuerda(colaReadyHilo[i], id))
             <=> \E u \in Listos : id \in Recuerdos(u)
        /\ (\E i \in DOMAIN colaExecHilo : Recuerda(colaExecHilo[i], id))
             <=> \E u \in EnCpu : id \in Recuerdos(u)
        /\ (\E i \in DOMAIN colaBlockHilo : Recuerda(colaBlockHilo[i], id))
             <=> \E u \in Bloqueados : id \in Recuerdos(u)
    BY <2>1 DEF Listos, EnCpu, Bloqueados, Rango
  <2>4. (\E e \in esperas : Recuerda(e.tcb, id))
          <=> \E u \in Dormidos \cup Despiertos : id \in Recuerdos(u)
    BY <2>1 DEF Dormidos, Despiertos
  <2>5. Dormidos \subseteq Bloqueados
    BY DEF Lugares
  <2>6. EsperaJoin(id) <=> id \in Faltan \/ \E u \in Vivos : id \in Recuerdos(u)
    BY <2>2, <2>3, <2>4, <2>5 DEF EsperaJoin, Vivos
  <2> QED
    BY <2>6 DEF Recordados
<1>7. id \in Recordados <=> t \in EnJoin
  <2>1. id \notin colaExitHilo
    BY <1>1 DEF Lugares
  <2>2. id \in IdsDe(EnJoin) <=> t \in EnJoin
    BY <1>2 DEF IdsDe, EnJoin, Vivos
  <2> QED
    BY <2>1, <2>2 DEF Joins
<1>8. Condenado(t) => pc \in {"exitProcess", "exitHilo"} /\ salida.pid = id[1]
  BY DEF Condenado, Cadena, Recorrido
<1>9. t \in Dormidos => t \notin EnMutex
  BY DEF Razones
<1>10. t \in EnJoin <=> t \notin Dormidos /\ t \notin EnMutex /\ ~Condenado(t)
  BY <1>1 DEF EnJoin
<1> HIDE DEF id
<1>11. \/ EsperaIo(id) /\ ~EsperaMutex(id) /\ ~EsperaJoin(id)
       \/ EsperaMutexVivo(id) /\ ~EsperaIo(id) /\ ~EsperaJoin(id)
       \/ EsperaJoin(id) /\ ~EsperaIo(id) /\ ~EsperaMutex(id)
       \/ pc \in {"exitProcess", "exitHilo"} /\ salida.pid = id[1]
  BY <1>4, <1>5, <1>6, <1>7, <1>8, <1>9, <1>10
<1> QED
  BY <1>11 DEF id, t

\* The rest is in the places of the threads and in the chain.
LEMMA SanoColas == Sano => SinHuerfanos /\ ExitEsDefinitivo /\ CpuEjecutaExec
<1> SUFFICES ASSUME Sano PROVE SinHuerfanos /\ ExitEsDefinitivo /\ CpuEjecutaExec
  OBVIOUS
<1> USE DEF Sano, HInv, IInv
<1>1. ASSUME NEW id, EnColas(id)
      PROVE  id[1] \in DOMAIN colaProcesosInicializados /\ id \notin colaExitHilo
  <2>1. PICK t \in Vivos : IdDe(t) = id
    BY <1>1, DondeEsta DEF IdsDe
  <2>2. t.Pid = id[1]
    BY <2>1 DEF IdDe
  <2> QED
    BY <2>1, <2>2 DEF Vidas, Lugares
<1>2. CpuEjecutaExec
  BY DEF CpuEjecutaExec, Cadena, Corre
<1> QED
  BY <1>1, <1>2 DEF SinHuerfanos, ExitEsDefinitivo

-----------------------------------------------------------------------------
(* The safety of the threads, when scripts keep the rules *)

\* No thread that was created is ever lost or in two places (utils.go:394).
THEOREM SiempreUnLugar == ReglasCumplidas => (Spec => []UnLugarPorHilo)
  BY HilosSanos, SanoLugar, PTL

\* The CPU runs the thread of exec, and the scheduler finds exec empty when
\* the calls return to it (utils.go:803): it never stops for good.
THEOREM SiempreEjecutaExec == ReglasCumplidas => (Spec => []CpuEjecutaExec)
<1>1. Sano => CpuEjecutaExec
  BY SanoColas
<1> QED
  BY <1>1, HilosSanos, PTL

\* No wake-up is lost: every blocked thread waits for one thing, and that thing
\* is there to wake it up (utils.go:729, 1105, 1355).
THEOREM SiempreConDespertador == ReglasCumplidas => (Spec => []BloqueadoConDespertador)
  BY HilosSanos, SanoDespertador, PTL

\* The holder of a mutex lives and those who wait for it are blocked.
THEOREM SiempreMutexConVivos == ReglasCumplidas => (Spec => []MutexConVivos)
  BY HilosSanos, SanoMutex, PTL

\* exitProcess (utils.go:382) leaves no thread of the process in a queue.
THEOREM SiempreSinHuerfanos == ReglasCumplidas => (Spec => []SinHuerfanos)
<1>1. Sano => SinHuerfanos
  BY SanoColas
<1> QED
  BY <1>1, HilosSanos, PTL

\* A thread that has finished never comes back to a queue (utils.go:1032).
THEOREM SiempreExitDefinitivo == ReglasCumplidas => (Spec => []ExitEsDefinitivo)
<1>1. Sano => ExitEsDefinitivo
  BY SanoColas
<1> QED
  BY <1>1, HilosSanos, PTL

\* No exitProcess is for a process that is gone, with which the kernel would abort
\* (utils.go:457), and no lockMutex loop is left to be resumed.
THEOREM NuncaCaido ==
  ReglasCumplidas => (Spec => [](NuncaAborta /\ pc # "lockMutex" /\ pendientes = <<>>))
<1>1. Sano => NuncaAborta /\ pc # "lockMutex" /\ pendientes = <<>>
  BY DEF Sano, HInv, Cadena, NuncaAborta
<1> QED
  BY <1>1, HilosSanos, PTL
=============================================================================
