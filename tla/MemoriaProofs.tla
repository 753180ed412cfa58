---------------------------- MODULE MemoriaProofs ----------------------------
(***************************************************************************)
(* Proofs about memory, for any partitions, sizes and search algorithm.    *)
(***************************************************************************)
EXTENDS MemoriaProps, Sumas, SequenceTheorems

-----------------------------------------------------------------------------
(* Tables of partitions: sizes s, marks u, and the place l of each process *)

TablaOK(s, u, l) ==
  /\ s \in Seq(Nat) /\ u \in Seq(BOOLEAN) /\ Len(u) = Len(s)
  /\ l \in [DOMAIN l -> DOMAIN s]
  /\ \A p, q \in DOMAIN l : l[p] = l[q] => p = q
  /\ \A i \in DOMAIN u : u[i] <=> \E p \in DOMAIN l : l[p] = i

Total(s) == Suma(s, DOMAIN s)

\* Any set of places of a table is finite, and its sizes add up to a natural.
LEMMA Lugares ==
  ASSUME NEW s \in Seq(Nat), NEW I \in SUBSET DOMAIN s
  PROVE  IsFiniteSet(I) /\ (\A i \in I : s[i] \in Nat /\ s[i] \in Int) /\ Suma(s, I) \in Nat
<1>1. DOMAIN s = 1..Len(s) /\ Len(s) \in Nat /\ \A i \in I : s[i] \in Nat
  OBVIOUS
<1>2. IsFiniteSet(1..Len(s))
  BY <1>1, FS_Interval
<1>3. IsFiniteSet(I)
  <2>1. I \subseteq 1..Len(s)
    BY <1>1
  <2> QED
    BY <1>2, <2>1, FS_Subset
<1>4. \A i \in I : s[i] \in Int
  BY <1>1
<1>5. Suma(s, I) \in Nat
  BY <1>1, <1>3, SumaNatural DEF Suma
<1> QED
  BY <1>1, <1>3, <1>4, <1>5

\* A place is taken out of a sum.
LEMMA SumaLugar ==
  ASSUME NEW s \in Seq(Nat), NEW I \in SUBSET DOMAIN s, NEW x \in I
  PROVE  Suma(s, I) = s[x] + Suma(s, I \ {x}) /\ s[x] \in Nat /\ Suma(s, I \ {x}) \in Nat
<1>1. IsFiniteSet(I) /\ (\A i \in I : s[i] \in Int) /\ s[x] \in Nat
  BY Lugares
<1>2. Suma(s, I) = s[x] + Suma(s, I \ {x})
  BY <1>1, SumaMenosUno DEF Suma
<1>3. Suma(s, I \ {x}) \in Nat
  BY Lugares, I \ {x} \in SUBSET DOMAIN s
<1> QED
  BY <1>1, <1>2, <1>3

\* A place is taken out of the total.
LEMMA TotalLugar ==
  ASSUME NEW s \in Seq(Nat), NEW x \in DOMAIN s
  PROVE  Total(s) = s[x] + Suma(s, DOMAIN s \ {x}) /\ s[x] \in Nat /\ Suma(s, DOMAIN s \ {x}) \in Nat
BY SumaLugar, DOMAIN s \in SUBSET DOMAIN s DEF Total

\* Tables that agree at some places have the same sum there.
LEMMA SumaMisma ==
  ASSUME NEW s \in Seq(Nat), NEW t, NEW I \in SUBSET DOMAIN s, \A i \in I : t[i] = s[i]
  PROVE  Suma(t, I) = Suma(s, I)
<1>1. IsFiniteSet(I) /\ \A i \in I : s[i] \in Int /\ t[i] = s[i]
  BY Lugares
<1> QED
  BY <1>1, SumaIgual DEF Suma

\* Removing one element of a sequence.
LEMMA SinUno ==
  ASSUME NEW S, NEW s \in Seq(S), NEW k \in DOMAIN s
  PROVE  /\ RemoveAt(s, k) \in Seq(S) /\ Len(RemoveAt(s, k)) = Len(s) - 1
         /\ DOMAIN RemoveAt(s, k) = 1..(Len(s) - 1)
         /\ \A j \in 1..(Len(s) - 1) : RemoveAt(s, k)[j] = IF j < k THEN s[j] ELSE s[j + 1]
<1> DEFINE a == SubSeq(s, 1, k - 1)
           b == SubSeq(s, k + 1, Len(s))
<1>1. k \in 1..Len(s) /\ Len(s) \in Nat /\ \A j \in 1..Len(s) : s[j] \in S
  OBVIOUS
<1>2. a \in Seq(S) /\ Len(a) = k - 1 /\ \A j \in 1..(k - 1) : a[j] = s[j]
  BY <1>1
<1>3. b \in Seq(S) /\ Len(b) = Len(s) - k /\ \A j \in 1..(Len(s) - k) : b[j] = s[k + j]
  BY <1>1
<1>4. RemoveAt(s, k) = a \o b
  BY DEF RemoveAt
<1> HIDE DEF a, b
<1>5. a \o b \in Seq(S) /\ Len(a \o b) = Len(s) - 1
  BY <1>1, <1>2, <1>3
<1>6. \A j \in 1..(Len(s) - 1) : (a \o b)[j] = IF j < k THEN s[j] ELSE s[j + 1]
  <2> TAKE j \in 1..(Len(s) - 1)
  <2>1. CASE j < k
    BY <1>1, <1>2, <1>3, <2>1
  <2>2. CASE ~(j < k)
    <3>1. (a \o b)[j] = b[j - (k - 1)]
      <4>1. j \in 1..(Len(a) + Len(b)) /\ ~(j <= Len(a)) /\ j - Len(a) = j - (k - 1)
        BY <1>1, <1>2, <1>3, <2>2
      <4>2. a \in Seq(S) /\ b \in Seq(S)
        BY <1>2, <1>3
      <4>3. (a \o b)[j] = b[j - Len(a)]
        BY <4>1, <4>2
      <4> QED
        BY <4>1, <4>3
    <3>2. j - (k - 1) \in 1..(Len(s) - k) /\ k + (j - (k - 1)) = j + 1
      BY <1>1, <2>2
    <3> QED
      BY <1>3, <2>2, <3>1, <3>2
  <2> QED
    BY <2>1, <2>2
<1>7. DOMAIN (a \o b) = 1..(Len(s) - 1)
  BY <1>5
<1> QED
  BY <1>4, <1>5, <1>6, <1>7

\* A partition that is divided keeps the total.
LEMMA DividirTotal ==
  ASSUME NEW s \in Seq(Nat), NEW n \in DOMAIN s, NEW size \in Nat, size <= s[n]
  PROVE  LET t == Append([s EXCEPT ![n] = size], s[n] - size)
         IN  /\ t \in Seq(Nat) /\ Len(t) = Len(s) + 1 /\ DOMAIN t = DOMAIN s \cup {Len(s) + 1}
             /\ Total(t) = Total(s)
<1> DEFINE t == Append([s EXCEPT ![n] = size], s[n] - size)
           D == DOMAIN s \ {n}
           m == Len(s) + 1
<1>1. /\ t \in Seq(Nat) /\ Len(t) = m /\ m \in Nat /\ m \notin DOMAIN s
      /\ t[n] = size /\ t[m] = s[n] - size /\ \A i \in D : t[i] = s[i]
      /\ DOMAIN t = DOMAIN s \cup {m} /\ n # m /\ n \in DOMAIN t /\ m \in DOMAIN t
  OBVIOUS
<1> HIDE DEF t
<1>2. Total(s) = s[n] + Suma(s, D) /\ s[n] \in Nat /\ Suma(s, D) \in Nat
  BY TotalLugar
<1>3. Total(t) = t[m] + Suma(t, DOMAIN s)
  <2>1. DOMAIN t \ {m} = DOMAIN s
    BY <1>1
  <2>2. Total(t) = t[m] + Suma(t, DOMAIN t \ {m})
    <3> HIDE DEF m
    <3> QED
      BY <1>1, TotalLugar
  <2> QED
    BY <2>1, <2>2
<1>4. Suma(t, DOMAIN s) = t[n] + Suma(t, D)
  <2>1. DOMAIN s \in SUBSET DOMAIN t
    BY <1>1
  <2> QED
    BY <1>1, <2>1, SumaLugar
<1>5. Suma(t, D) = Suma(s, D)
  BY <1>1, SumaMisma, D \in SUBSET DOMAIN s
<1>6. Total(t) = Total(s)
  <2> HIDE DEF D, m
  <2>1. Suma(t, DOMAIN s) = size + Suma(s, D)
    BY <1>1, <1>4, <1>5
  <2>2. Total(t) = (s[n] - size) + (size + Suma(s, D))
    BY <1>1, <1>3, <2>1
  <2>3. PICK a \in Nat, c \in Nat : a = s[n] /\ c = Suma(s, D)
    BY <1>2
  <2>4. (a - size) + (size + c) = a + c
    OBVIOUS
  <2> QED
    BY <1>2, <2>2, <2>3, <2>4
<1> QED
  BY <1>1, <1>6 DEF t

\* Two neighbours that are joined keep the total.
LEMMA JuntarTotal ==
  ASSUME NEW s \in Seq(Nat), NEW i \in DOMAIN s, i + 1 \in DOMAIN s
  PROVE  LET t == RemoveAt([s EXCEPT ![i] = @ + s[i + 1]], i + 1)
         IN  /\ t \in Seq(Nat) /\ Len(t) = Len(s) - 1 /\ DOMAIN t = 1..(Len(s) - 1)
             /\ Total(t) = Total(s)
<1> DEFINE e == [s EXCEPT ![i] = @ + s[i + 1]]
           t == RemoveAt(e, i + 1)
           D == DOMAIN s \ {i, i + 1}
           E == DOMAIN t \ {i}
           f == [j \in D |-> IF j > i THEN j - 1 ELSE j]
<1>1. /\ e \in Seq(Nat) /\ Len(e) = Len(s) /\ DOMAIN e = DOMAIN s
      /\ e[i] = s[i] + s[i + 1] /\ \A j \in D : e[j] = s[j]
  OBVIOUS
<1> HIDE DEF e
<1>3. DOMAIN s = 1..Len(s) /\ Len(s) \in Nat /\ i \in Nat /\ i >= 1 /\ i + 1 <= Len(s)
  OBVIOUS
<1>2. /\ t \in Seq(Nat) /\ Len(t) = Len(s) - 1 /\ DOMAIN t = 1..(Len(s) - 1)
      /\ \A j \in 1..(Len(s) - 1) : t[j] = IF j < i + 1 THEN e[j] ELSE e[j + 1]
  <2>1. i + 1 \in DOMAIN e
    BY <1>1
  <2>2. /\ RemoveAt(e, i + 1) \in Seq(Nat) /\ Len(RemoveAt(e, i + 1)) = Len(e) - 1
        /\ DOMAIN RemoveAt(e, i + 1) = 1..(Len(e) - 1)
        /\ \A j \in 1..(Len(e) - 1) : RemoveAt(e, i + 1)[j] = IF j < i + 1 THEN e[j] ELSE e[j + 1]
    BY <1>1, <2>1, SinUno
  <2> QED
    BY <1>1, <2>2
<1> HIDE DEF t
<1>4. /\ f \in [D -> E] /\ \A j \in D : t[f[j]] = s[j]
      /\ \A j, k \in D : f[j] = f[k] => j = k
  <2>1. ASSUME NEW j \in D
        PROVE  f[j] \in E /\ t[f[j]] = s[j]
    <3>1. j \in 1..Len(s) /\ j # i /\ j # i + 1
      BY <1>3
    <3>2. CASE j < i
      <4>1. f[j] = j /\ j \in 1..(Len(s) - 1) /\ j < i + 1
        BY <1>3, <3>1, <3>2
      <4> QED
        BY <1>1, <1>2, <3>1, <4>1
    <3>3. CASE j > i
      <4>1. f[j] = j - 1 /\ j - 1 \in 1..(Len(s) - 1) /\ j - 1 # i /\ ~(j - 1 < i + 1) /\ (j - 1) + 1 = j
        BY <1>3, <3>1, <3>3
      <4> QED
        BY <1>1, <1>2, <4>1
    <3> QED
      BY <1>3, <3>1, <3>2, <3>3
  <2>2. \A j, k \in D : f[j] = f[k] => j = k
    <3>1. \A j \in D : j \in Nat /\ j # i /\ j # i + 1
      BY <1>3
    <3>2. \A j \in D : f[j] = IF j > i THEN j - 1 ELSE j
      OBVIOUS
    <3> HIDE DEF f, D
    <3> QED
      BY <1>3, <3>1, <3>2
  <2> QED
    BY <2>1, <2>2
<1>5. ASSUME NEW k \in E PROVE \E j \in D : f[j] = k
  <2>0. k \in 1..(Len(s) - 1) /\ k # i
    BY <1>2
  <2>1. CASE k < i
    <3>1. k \in D /\ f[k] = k
      BY <1>3, <2>0, <2>1
    <3> QED
      BY <3>1
  <2>2. CASE k > i
    <3>1. k + 1 \in D /\ f[k + 1] = k
      BY <1>3, <2>0, <2>2
    <3> QED
      BY <3>1
  <2> QED
    BY <1>3, <2>0, <2>1, <2>2
<1> HIDE DEF f
<1>6. Suma(s, D) = Suma(t, E)
  <2>1. IsFiniteSet(D) /\ (\A j \in D : s[j] \in Int)
    BY Lugares, D \in SUBSET DOMAIN s
  <2>2. IsFiniteSet(E) /\ (\A j \in E : t[j] \in Int)
    BY <1>2, Lugares, E \in SUBSET DOMAIN t
  <2> HIDE DEF D, E
  <2> QED
    BY <1>4, <1>5, <2>1, <2>2, SumaRenombrada DEF Suma
<1>7. Total(t) = t[i] + Suma(t, E)
  <2>1. i \in DOMAIN t /\ DOMAIN t \in SUBSET DOMAIN t
    BY <1>2, <1>3
  <2> QED
    BY <1>2, <2>1, TotalLugar
<1>8. Total(s) = s[i] + (s[i + 1] + Suma(s, D)) /\ s[i] \in Nat /\ s[i + 1] \in Nat /\ Suma(s, D) \in Nat
  <2>1. Suma(s, DOMAIN s) = s[i] + Suma(s, DOMAIN s \ {i}) /\ s[i] \in Nat
    BY SumaLugar
  <2>2. i + 1 \in DOMAIN s \ {i} /\ DOMAIN s \ {i} \in SUBSET DOMAIN s
    BY <1>3
  <2>3. /\ Suma(s, DOMAIN s \ {i}) = s[i + 1] + Suma(s, (DOMAIN s \ {i}) \ {i + 1})
        /\ s[i + 1] \in Nat /\ Suma(s, (DOMAIN s \ {i}) \ {i + 1}) \in Nat
    BY <2>2, SumaLugar
  <2>4. (DOMAIN s \ {i}) \ {i + 1} = D
    OBVIOUS
  <2> QED
    BY <2>1, <2>3, <2>4 DEF Total
<1>9. t[i] = s[i] + s[i + 1]
  BY <1>1, <1>2, <1>3
<1>10. Total(t) = Total(s)
  <2> HIDE DEF D, E
  <2>1. Total(t) = (s[i] + s[i + 1]) + Suma(s, D)
    BY <1>6, <1>7, <1>9
  <2>2. PICK a \in Nat, b \in Nat, c \in Nat : a = s[i] /\ b = s[i + 1] /\ c = Suma(s, D)
    BY <1>8
  <2>3. (a + b) + c = a + (b + c)
    OBVIOUS
  <2> QED
    BY <1>8, <2>1, <2>2, <2>3
<1> QED
  BY <1>2, <1>10 DEF t, e

\* A free partition is given to a process.
LEMMA TablaOcupar ==
  ASSUME NEW s, NEW u, NEW l, TablaOK(s, u, l),
         NEW n \in DOMAIN s, ~u[n], NEW p, p \notin DOMAIN l
  PROVE  TablaOK(s, [u EXCEPT ![n] = TRUE],
                 [q \in DOMAIN l \cup {p} |-> IF q = p THEN n ELSE l[q]])
<1> DEFINE v == [u EXCEPT ![n] = TRUE]
           m == [q \in DOMAIN l \cup {p} |-> IF q = p THEN n ELSE l[q]]
<1>1. /\ s \in Seq(Nat) /\ u \in Seq(BOOLEAN) /\ Len(u) = Len(s)
      /\ l \in [DOMAIN l -> DOMAIN s]
      /\ \A q, r \in DOMAIN l : l[q] = l[r] => q = r
      /\ \A i \in DOMAIN u : u[i] <=> \E q \in DOMAIN l : l[q] = i
  BY DEF TablaOK
<1>2. DOMAIN u = DOMAIN s /\ n \in DOMAIN u
  BY <1>1
<1>3. \A q \in DOMAIN l : l[q] # n
  BY <1>1, <1>2
<1>4. v \in Seq(BOOLEAN) /\ Len(v) = Len(s) /\ DOMAIN v = DOMAIN u
      /\ v[n] = TRUE /\ \A i \in DOMAIN u \ {n} : v[i] = u[i]
  BY <1>1, <1>2
<1>5. DOMAIN m = DOMAIN l \cup {p} /\ m[p] = n /\ \A q \in DOMAIN l : m[q] = l[q]
  OBVIOUS
<1> HIDE DEF v, m
<1>6. m \in [DOMAIN m -> DOMAIN s]
  <2>1. \A q \in DOMAIN m : m[q] \in DOMAIN s
    BY <1>1, <1>5
  <2>2. m = [q \in DOMAIN m |-> m[q]]
    BY DEF m
  <2> QED
    BY <2>1, <2>2
<1>7. \A q, r \in DOMAIN m : m[q] = m[r] => q = r
  BY <1>1, <1>3, <1>5
<1>8. ASSUME NEW i \in DOMAIN v
      PROVE  v[i] <=> \E q \in DOMAIN m : m[q] = i
  <2>1. CASE i = n
    BY <1>4, <1>5, <2>1
  <2>2. CASE i # n
    BY <1>1, <1>4, <1>5, <2>2
  <2> QED
    BY <2>1, <2>2
<1>9. TablaOK(s, v, m)
  BY <1>1, <1>4, <1>6, <1>7, <1>8 DEF TablaOK
<1> QED
  BY <1>9 DEF v, m

\* A free partition is added after the last one, and others change their size.
LEMMA TablaAgregar ==
  ASSUME NEW s, NEW u, NEW l, TablaOK(s, u, l),
         NEW t \in Seq(Nat), Len(t) = Len(s) + 1
  PROVE  TablaOK(t, Append(u, FALSE), l)
<1> DEFINE v == Append(u, FALSE)
           m == Len(s) + 1
<1>1. /\ s \in Seq(Nat) /\ u \in Seq(BOOLEAN) /\ Len(u) = Len(s)
      /\ l \in [DOMAIN l -> DOMAIN s]
      /\ \A q, r \in DOMAIN l : l[q] = l[r] => q = r
      /\ \A i \in DOMAIN u : u[i] <=> \E q \in DOMAIN l : l[q] = i
  BY DEF TablaOK
<1>2. /\ v \in Seq(BOOLEAN) /\ Len(v) = m /\ DOMAIN v = DOMAIN u \cup {m} /\ v[m] = FALSE
      /\ \A i \in DOMAIN u : v[i] = u[i]
      /\ m \notin DOMAIN s /\ DOMAIN s \subseteq DOMAIN t
  <2> DEFINE B == BOOLEAN
             no == FALSE
  <2>4. u \in Seq(B) /\ no \in B
    BY <1>1
  <2> HIDE DEF B, no
  <2>5. /\ Append(u, no) \in Seq(B) /\ Len(Append(u, no)) = Len(u) + 1
        /\ Append(u, no)[Len(u) + 1] = no /\ \A i \in 1..Len(u) : Append(u, no)[i] = u[i]
    BY <2>4, AppendProperties
  <2>1. /\ v \in Seq(BOOLEAN) /\ Len(v) = Len(u) + 1 /\ v[Len(u) + 1] = FALSE
        /\ \A i \in 1..Len(u) : v[i] = u[i]
    BY <2>5, Zenon DEF B, no
  <2>2. Len(s) \in Nat /\ DOMAIN s = 1..Len(s) /\ DOMAIN u = 1..Len(s) /\ DOMAIN t = 1..m
    BY <1>1
  <2>3. DOMAIN v = 1..Len(v)
    BY <2>1
  <2> HIDE DEF v
  <2> QED
    BY <1>1, <2>1, <2>2, <2>3
<1> HIDE DEF v, m
<1>3. \A q \in DOMAIN l : l[q] # m
  BY <1>1, <1>2
<1>4. l \in [DOMAIN l -> DOMAIN t]
  BY <1>1, <1>2
<1>5. \A i \in DOMAIN v : v[i] <=> \E q \in DOMAIN l : l[q] = i
  BY <1>1, <1>2, <1>3
<1>6. TablaOK(t, v, l)
  BY <1>1, <1>2, <1>4, <1>5 DEF TablaOK, m
<1> QED
  BY <1>6 DEF v

\* A process leaves its partition.
LEMMA TablaLiberar ==
  ASSUME NEW s, NEW u, NEW l, TablaOK(s, u, l), NEW p \in DOMAIN l
  PROVE  /\ TablaOK(s, [u EXCEPT ![l[p]] = FALSE], SinClave(l, p))
         /\ DOMAIN SinClave(l, p) = DOMAIN l \ {p}
         /\ \A q \in DOMAIN l \ {p} : SinClave(l, p)[q] = l[q]
<1> DEFINE v == [u EXCEPT ![l[p]] = FALSE]
           m == SinClave(l, p)
           n == l[p]
<1>1. /\ s \in Seq(Nat) /\ u \in Seq(BOOLEAN) /\ Len(u) = Len(s)
      /\ l \in [DOMAIN l -> DOMAIN s]
      /\ \A q, r \in DOMAIN l : l[q] = l[r] => q = r
      /\ \A i \in DOMAIN u : u[i] <=> \E q \in DOMAIN l : l[q] = i
  BY DEF TablaOK
<1>2. /\ v \in Seq(BOOLEAN) /\ Len(v) = Len(s) /\ DOMAIN v = DOMAIN u
      /\ v[n] = FALSE /\ \A i \in DOMAIN u \ {n} : v[i] = u[i]
  <2>1. n \in DOMAIN u
    BY <1>1
  <2> HIDE DEF n
  <2>2. [u EXCEPT ![n] = FALSE] \in Seq(BOOLEAN) /\ Len([u EXCEPT ![n] = FALSE]) = Len(s)
    BY <1>1, <2>1
  <2> QED
    BY <2>1, <2>2 DEF n
<1>3. DOMAIN m = DOMAIN l \ {p} /\ m = [q \in DOMAIN l \ {p} |-> l[q]]
  BY DEF SinClave, Restrict
<1> HIDE DEF v, m, n
<1>4. m \in [DOMAIN m -> DOMAIN s] /\ \A q \in DOMAIN l \ {p} : m[q] = l[q]
  BY <1>1, <1>3
<1>5. \A q, r \in DOMAIN m : m[q] = m[r] => q = r
  BY <1>1, <1>3, <1>4
<1>6. ASSUME NEW i \in DOMAIN v
      PROVE  v[i] <=> \E q \in DOMAIN m : m[q] = i
  <2>1. CASE i = n
    BY <1>1, <1>2, <1>3, <1>4, <2>1 DEF n
  <2>2. CASE i # n
    BY <1>1, <1>2, <1>3, <1>4, <2>2 DEF n
  <2> QED
    BY <2>1, <2>2
<1>7. TablaOK(s, v, m)
  BY <1>1, <1>2, <1>4, <1>5, <1>6 DEF TablaOK
<1> QED
  BY <1>3, <1>4, <1>7 DEF v, m

\* Juntar takes in a free partition: the processes keep theirs, one place
\* before if it was after, and the total does not change.
LEMMA TablaJuntar ==
  ASSUME NEW t, TablaOK(t.sizes, t.usos, t.lugar),
         NEW i \in DOMAIN t.sizes, i + 1 \in DOMAIN t.sizes, ~t.usos[i + 1]
  PROVE  LET r == Juntar(t, i)
         IN  /\ TablaOK(r.sizes, r.usos, r.lugar)
             /\ Total(r.sizes) = Total(t.sizes) /\ DOMAIN r.lugar = DOMAIN t.lugar
             /\ Len(r.sizes) = Len(t.sizes) - 1
<1> DEFINE s == t.sizes
           u == t.usos
           l == t.lugar
           rs == RemoveAt([s EXCEPT ![i] = @ + s[i + 1]], i + 1)
           ru == RemoveAt(u, i + 1)
           rl == [p \in DOMAIN l |-> IF l[p] > i THEN l[p] - 1 ELSE l[p]]
<1>0. Juntar(t, i) = [sizes |-> rs, usos |-> ru, lugar |-> rl]
  BY DEF Juntar
<1>1. /\ s \in Seq(Nat) /\ u \in Seq(BOOLEAN) /\ Len(u) = Len(s)
      /\ l \in [DOMAIN l -> DOMAIN s]
      /\ \A q, r \in DOMAIN l : l[q] = l[r] => q = r
      /\ \A j \in DOMAIN u : u[j] <=> \E q \in DOMAIN l : l[q] = j
      /\ i \in DOMAIN s /\ i + 1 \in DOMAIN s /\ ~u[i + 1]
  BY DEF TablaOK
<1> HIDE DEF s, u, l
<1>2. rs \in Seq(Nat) /\ Len(rs) = Len(s) - 1 /\ DOMAIN rs = 1..(Len(s) - 1) /\ Total(rs) = Total(s)
  BY <1>1, JuntarTotal
<1>3. /\ DOMAIN s = 1..Len(s) /\ DOMAIN u = DOMAIN s /\ Len(s) \in Nat
      /\ i \in Nat /\ i >= 1 /\ i + 1 <= Len(s)
  BY <1>1
<1>4. /\ ru \in Seq(BOOLEAN) /\ Len(ru) = Len(u) - 1 /\ DOMAIN ru = 1..(Len(u) - 1)
      /\ \A j \in 1..(Len(u) - 1) : ru[j] = IF j < i + 1 THEN u[j] ELSE u[j + 1]
  <2>1. i + 1 \in DOMAIN u
    BY <1>1, <1>3
  <2> DEFINE k == i + 1
             B == BOOLEAN
  <2>3. u \in Seq(B) /\ k \in DOMAIN u
    BY <1>1, <2>1
  <2> HIDE DEF k, B
  <2>2. /\ RemoveAt(u, k) \in Seq(B) /\ Len(RemoveAt(u, k)) = Len(u) - 1
        /\ DOMAIN RemoveAt(u, k) = 1..(Len(u) - 1)
        /\ \A j \in 1..(Len(u) - 1) : RemoveAt(u, k)[j] = IF j < k THEN u[j] ELSE u[j + 1]
    BY <2>3, SinUno
  <2> QED
    BY <2>2, Zenon DEF k, B, ru
<1> HIDE DEF rs, ru
<1>5. \A p \in DOMAIN l : l[p] \in 1..Len(s) /\ l[p] # i + 1
  BY <1>1, <1>3
<1>6. ASSUME NEW p \in DOMAIN l
      PROVE  rl[p] \in 1..(Len(s) - 1) /\ l[p] = IF rl[p] < i + 1 THEN rl[p] ELSE rl[p] + 1
  <2>1. CASE l[p] > i
    BY <1>3, <1>5, <2>1
  <2>2. CASE ~(l[p] > i)
    BY <1>3, <1>5, <2>2
  <2> QED
    BY <2>1, <2>2
<1>7. DOMAIN rl = DOMAIN l /\ rl = [p \in DOMAIN l |-> rl[p]]
  OBVIOUS
<1>8. ASSUME NEW p \in DOMAIN l, NEW j \in 1..(Len(s) - 1),
             l[p] = IF j < i + 1 THEN j ELSE j + 1
      PROVE  rl[p] = j
  <2>1. CASE j < i + 1
    BY <1>3, <1>8, <2>1
  <2>2. CASE ~(j < i + 1)
    BY <1>3, <1>8, <2>2
  <2> QED
    BY <2>1, <2>2
<1> HIDE DEF rl
<1>9. rl \in [DOMAIN rl -> DOMAIN rs]
  BY <1>2, <1>6, <1>7
<1>10. \A p, q \in DOMAIN rl : rl[p] = rl[q] => p = q
  BY <1>1, <1>6, <1>7
<1>11. ASSUME NEW j \in DOMAIN ru
       PROVE  ru[j] <=> \E p \in DOMAIN rl : rl[p] = j
  <2> DEFINE k == IF j < i + 1 THEN j ELSE j + 1
  <2>1. j \in 1..(Len(s) - 1) /\ k \in DOMAIN u /\ ru[j] = u[k]
    <3>1. j \in 1..(Len(u) - 1) /\ Len(u) = Len(s)
      BY <1>1, <1>4
    <3>2. CASE j < i + 1
      <4>1. j \in DOMAIN u /\ ru[j] = u[j]
        BY <1>3, <1>4, <3>1, <3>2
      <4> QED
        BY <3>1, <3>2, <4>1
    <3>3. CASE ~(j < i + 1)
      <4>1. j + 1 \in DOMAIN u /\ ru[j] = u[j + 1]
        BY <1>3, <1>4, <3>1, <3>3
      <4> QED
        BY <3>1, <3>3, <4>1
    <3> QED
      BY <3>2, <3>3
  <2>2. \A p \in DOMAIN l : rl[p] = j <=> l[p] = k
    BY <1>6, <1>8, <2>1
  <2> QED
    BY <1>1, <1>7, <2>1, <2>2
<1>12. TablaOK(rs, ru, rl)
  BY <1>1, <1>2, <1>4, <1>9, <1>10, <1>11 DEF TablaOK
<1> QED
  BY <1>0, <1>2, <1>7, <1>12 DEF s, l

\* A finite set has an element that is as good as any other.
LEMMA HayMejor ==
  ASSUME NEW I, IsFiniteSet(I), I # {}, NEW R,
         \A x, y \in I : <<x, y>> \in R \/ <<y, x>> \in R,
         \A x, y, z \in I : <<x, y>> \in R /\ <<y, z>> \in R => <<x, z>> \in R
  PROVE  \E x \in I : \A y \in I : <<x, y>> \in R
<1> DEFINE Q == {n \in Nat : \A K \in SUBSET I : Cardinality(K) = n + 1 =>
                   \E x \in K : \A y \in K : <<x, y>> \in R}
<1>1. \A K \in SUBSET I : IsFiniteSet(K) /\ Cardinality(K) \in Nat
  BY FS_Subset, FS_CardinalityType
<1>2. 0 \in Q
  <2> SUFFICES ASSUME NEW K \in SUBSET I, Cardinality(K) = 0 + 1
               PROVE  \E x \in K : \A y \in K : <<x, y>> \in R
    OBVIOUS
  <2>1. PICK x : K = {x}
    BY <1>1, FS_Singleton, 0 + 1 = 1
  <2> QED
    BY <2>1
<1>3. ASSUME NEW n \in Nat, n \in Q
      PROVE  n + 1 \in Q
  <2> SUFFICES ASSUME NEW K \in SUBSET I, Cardinality(K) = (n + 1) + 1
               PROVE  \E x \in K : \A y \in K : <<x, y>> \in R
    OBVIOUS
  <2>1. K # {}
    BY <1>1, FS_EmptySet
  <2>2. PICK a \in K : TRUE
    BY <2>1
  <2>3. Cardinality(K \ {a}) = n + 1 /\ K \ {a} \in SUBSET I
    BY <1>1, <2>2, FS_RemoveElement
  <2>4. PICK x \in K \ {a} : \A y \in K \ {a} : <<x, y>> \in R
    BY <1>3, <2>3
  <2>5. CASE <<x, a>> \in R
    BY <2>4, <2>5
  <2>6. CASE <<a, x>> \in R
    BY <2>2, <2>4, <2>6
  <2> QED
    BY <2>2, <2>4, <2>5, <2>6
<1>4. Nat \subseteq Q
  <2> HIDE DEF Q
  <2> QED
    BY <1>2, <1>3, InduccionNat
<1>5. Cardinality(I) - 1 \in Nat /\ (Cardinality(I) - 1) + 1 = Cardinality(I)
  BY <1>1, FS_EmptySet
<1> QED
  BY <1>4, <1>5

-----------------------------------------------------------------------------
(* Compaction *)

Rango(O, i) == Cardinality({j \in O : j <= i})

\* The places O of a table, numbered in order, are 1..Cardinality(O).
LEMMA RangoBiyectivo ==
  ASSUME NEW n \in Nat, NEW O \in SUBSET (1..n)
  PROVE  /\ Cardinality(O) \in Nat
         /\ \A i \in O : Rango(O, i) \in 1..Cardinality(O)
         /\ \A i, k \in O : Rango(O, i) = Rango(O, k) => i = k
         /\ \A r \in 1..Cardinality(O) : \E i \in O : Rango(O, i) = r
<1> DEFINE Hasta(i) == {j \in O : j <= i}
           c == Cardinality(O)
<1>1. IsFiniteSet(O) /\ c \in Nat
  <2>1. IsFiniteSet(1..n)
    BY FS_Interval
  <2>2. IsFiniteSet(O)
    BY <2>1, FS_Subset
  <2> QED
    BY <2>2, FS_CardinalityType
<1>0. \A j \in O : j \in Nat
  OBVIOUS
<1>2. ASSUME NEW i \in O
      PROVE  /\ IsFiniteSet(Hasta(i)) /\ Cardinality(Hasta(i)) \in Nat
             /\ Cardinality(Hasta(i)) >= 1 /\ Cardinality(Hasta(i)) <= c
  <2>1. Hasta(i) \in SUBSET O /\ i \in Hasta(i)
    BY <1>0
  <2> HIDE DEF Hasta
  <2>2. IsFiniteSet(Hasta(i)) /\ Cardinality(Hasta(i)) <= c
    BY <1>1, <2>1, FS_Subset
  <2>3. Cardinality(Hasta(i)) \in Nat /\ Cardinality(Hasta(i)) # 0
    BY <2>1, <2>2, FS_CardinalityType, FS_EmptySet
  <2> QED
    BY <2>2, <2>3
<1>3. ASSUME NEW i \in O, NEW k \in O, i < k
      PROVE  Cardinality(Hasta(i)) # Cardinality(Hasta(k))
  <2>1. Hasta(i) \in SUBSET Hasta(k)
    <3>1. \A j \in O : j <= i => j <= k
      BY <1>0, <1>3
    <3> QED
      BY <3>1
  <2>2. k \in Hasta(k) /\ k \notin Hasta(i)
    BY <1>0, <1>3
  <2> HIDE DEF Hasta
  <2> QED
    BY <1>2, <2>1, <2>2, FS_Subset
<1>4. \A i, k \in O : Rango(O, i) = Rango(O, k) => i = k
  <2>1. \A i, k \in O : i < k \/ k < i \/ i = k
    OBVIOUS
  <2> QED
    BY <1>3, <2>1 DEF Rango
<1>5. \A i \in O : Rango(O, i) \in 1..c
  BY <1>1, <1>2 DEF Rango
<1> DEFINE f == [i \in O |-> Rango(O, i)]
<1>6. f \in Injection(O, 1..c)
  <2>1. f \in [O -> 1..c]
    BY <1>5
  <2>2. IsInjective(f)
    BY <1>4 DEF IsInjective
  <2> QED
    BY <2>1, <2>2 DEF Injection
<1>7. IsFiniteSet(1..c) /\ Cardinality(1..c) = c
  BY <1>1, FS_Interval
<1>8. f \in Surjection(O, 1..c)
  <2> HIDE DEF f
  <2> QED
    BY <1>6, <1>7, FS_Injection
<1>9. \A r \in 1..c : \E i \in O : Rango(O, i) = r
  <2>1. \A r \in 1..c : \E i \in O : f[i] = r
    <3> HIDE DEF f
    <3> QED
      BY <1>8 DEF Surjection
  <2> QED
    BY <2>1
<1> QED
  BY <1>1, <1>4, <1>5, <1>9

\* The places before an occupied one, without the free ones, give its number.
LEMMA RangoCorrido ==
  ASSUME NEW n \in Nat, NEW F \in SUBSET (1..n), NEW i \in (1..n) \ F
  PROVE  i - Cardinality({j \in F : j < i}) = Rango((1..n) \ F, i)
<1> DEFINE A == {j \in F : j < i}
           B == {j \in (1..n) \ F : j <= i}
<1>0. i \in Nat /\ i <= n /\ i >= 1 /\ i \notin F /\ \A j \in F : j \in Nat /\ j >= 1 /\ j <= n
  OBVIOUS
<1>1. A \cup B = 1..i /\ A \cap B = {} /\ i \in Nat
  <2>1. ASSUME NEW j
        PROVE  j \in A \cup B <=> j \in 1..i
    <3>1. CASE j \in F
      BY <1>0, <3>1
    <3>2. CASE j \notin F
      BY <1>0, <3>2
    <3> QED
      BY <3>1, <3>2
  <2> QED
    BY <1>0, <2>1
<1>2. A \in SUBSET (1..i) /\ B \in SUBSET (1..i)
  BY <1>1
<1> HIDE DEF A, B
<1>3. IsFiniteSet(1..i) /\ Cardinality(1..i) = i
  BY <1>1, FS_Interval
<1>4. IsFiniteSet(A) /\ IsFiniteSet(B) /\ Cardinality(A) \in Nat /\ Cardinality(B) \in Nat
  BY <1>2, <1>3, FS_Subset, FS_CardinalityType
<1>5. Cardinality(A \cup B) = Cardinality(A) + Cardinality(B) - Cardinality({})
  BY <1>1, <1>4, FS_Union
<1>6. i = Cardinality(A) + Cardinality(B)
  <2>1. Cardinality({}) = 0
    BY FS_EmptySet
  <2>2. i = Cardinality(A) + Cardinality(B) - Cardinality({})
    BY <1>1, <1>3, <1>5
  <2> QED
    BY <1>4, <2>1, <2>2
<1>7. i - Cardinality(A) = Cardinality(B)
  BY <1>1, <1>4, <1>6
<1> QED
  BY <1>7 DEF A, B, Rango

Corresponden(g, t, N, s, O) ==
  /\ g \in [N -> O] /\ (\A i \in O : \E k \in N : g[k] = i)
  /\ (\A i, k \in N : g[i] = g[k] => i = k) /\ \A k \in N : s[g[k]] = t[k]

\* Two tables with the same sizes at places that correspond have the same sum.
LEMMA SumaPorNumero ==
  ASSUME NEW s \in Seq(Nat), NEW t \in Seq(Nat),
         NEW O \in SUBSET DOMAIN s, NEW N \in SUBSET DOMAIN t,
         NEW g, Corresponden(g, t, N, s, O)
  PROVE  Suma(t, N) = Suma(s, O)
<1>0. /\ g \in [N -> O] /\ (\A i \in O : \E k \in N : g[k] = i)
      /\ (\A i, k \in N : g[i] = g[k] => i = k) /\ \A k \in N : s[g[k]] = t[k]
  BY DEF Corresponden
<1>1. IsFiniteSet(O) /\ \A i \in O : s[i] \in Int
  BY Lugares
<1>2. IsFiniteSet(N) /\ \A k \in N : t[k] \in Int
  BY Lugares
<1> QED
  BY <1>0, <1>1, <1>2, SumaRenombrada DEF Suma

\* The sum at two sets of places with nothing in common.
LEMMA SumaPartida ==
  ASSUME NEW s \in Seq(Nat), NEW F \in SUBSET DOMAIN s, NEW O \in SUBSET DOMAIN s, F \cap O = {}
  PROVE  Suma(s, F \cup O) = Suma(s, F) + Suma(s, O)
<1>1. IsFiniteSet(F) /\ IsFiniteSet(O) /\ \A i \in F \cup O : s[i] \in Int
  BY Lugares
<1> QED
  BY <1>1, SumaDisjunta DEF Suma

\* The table t has, after the rest, one place with the sum of the places F of s.
Corrida(s, F, O, n, g, t) ==
  /\ s \in Seq(Nat) /\ F \in SUBSET DOMAIN s /\ O = DOMAIN s \ F
  /\ n \in Nat /\ Corresponden(g, t, 1..n, s, O)
  /\ t \in Seq(Nat) /\ Len(t) = n + 1
  /\ t[n + 1] = Suma(s, F)

\* The free places F of a table become the last one, and the rest keep their
\* sizes: the total does not change.
LEMMA CorrerTotal ==
  ASSUME NEW s, NEW F, NEW O, NEW n, NEW g, NEW t, Corrida(s, F, O, n, g, t)
  PROVE  Total(t) = Total(s)
<1> DEFINE N == 1..n
           x == n + 1
<1>1. s \in Seq(Nat) /\ t \in Seq(Nat) /\ F \in SUBSET DOMAIN s /\ O \in SUBSET DOMAIN s
  BY DEF Corrida
<1>2. F \cap O = {} /\ F \cup O = DOMAIN s
  BY DEF Corrida
<1>3. N \in SUBSET DOMAIN t /\ x \in DOMAIN t /\ DOMAIN t \ {x} = N
  <2>1. n \in Nat /\ DOMAIN t = 1..(n + 1)
    BY DEF Corrida
  <2> QED
    BY <2>1
<1>4. Corresponden(g, t, N, s, O)
  BY DEF Corrida
<1>5. t[x] = Suma(s, F)
  BY DEF Corrida
<1> HIDE DEF N, x
<1>6. Suma(t, N) = Suma(s, O)
  BY <1>1, <1>3, <1>4, SumaPorNumero
<1>7. Total(t) = t[x] + Suma(t, DOMAIN t \ {x})
  BY <1>1, <1>3, TotalLugar
<1>8. Suma(s, F \cup O) = Suma(s, F) + Suma(s, O)
  BY <1>1, <1>2, SumaPartida
<1> QED
  BY <1>2, <1>3, <1>5, <1>6, <1>7, <1>8 DEF Total

\* The occupied places O of a table take the numbers 1..n.
Numeradas(s, u, l, O, n, h, g, t, v, m) ==
  /\ O \in SUBSET DOMAIN s /\ \A i \in DOMAIN s : u[i] <=> i \in O
  /\ n \in Nat /\ h \in [O -> 1..n] /\ g \in [1..n -> O]
  /\ (\A k \in 1..n : h[g[k]] = k) /\ (\A i \in O : g[h[i]] = i)
  /\ t \in Seq(Nat) /\ Len(t) = n + 1 /\ DOMAIN t = 1..(n + 1)
  /\ v \in Seq(BOOLEAN) /\ Len(v) = n + 1 /\ DOMAIN v = 1..(n + 1)
  /\ (\A k \in 1..n : v[k]) /\ ~v[n + 1]
  /\ m \in [DOMAIN l -> Int] /\ DOMAIN m = DOMAIN l /\ \A p \in DOMAIN l : m[p] = h[l[p]]

\* The table with the new numbers, and with a free place after them.
LEMMA TablaCorrer ==
  ASSUME NEW s, NEW u, NEW l, TablaOK(s, u, l),
         NEW O, NEW n, NEW h, NEW g, NEW t, NEW v, NEW m,
         Numeradas(s, u, l, O, n, h, g, t, v, m)
  PROVE  TablaOK(t, v, m)
<1>0. /\ O \in SUBSET DOMAIN s /\ \A i \in DOMAIN s : u[i] <=> i \in O
      /\ n \in Nat /\ h \in [O -> 1..n] /\ g \in [1..n -> O]
      /\ (\A k \in 1..n : h[g[k]] = k) /\ (\A i \in O : g[h[i]] = i)
      /\ t \in Seq(Nat) /\ Len(t) = n + 1 /\ DOMAIN t = 1..(n + 1)
      /\ v \in Seq(BOOLEAN) /\ Len(v) = n + 1 /\ DOMAIN v = 1..(n + 1)
      /\ (\A k \in 1..n : v[k]) /\ ~v[n + 1]
      /\ m \in [DOMAIN l -> Int] /\ DOMAIN m = DOMAIN l /\ \A p \in DOMAIN l : m[p] = h[l[p]]
  BY DEF Numeradas
<1>1. /\ s \in Seq(Nat) /\ u \in Seq(BOOLEAN) /\ Len(u) = Len(s)
      /\ l \in [DOMAIN l -> DOMAIN s]
      /\ \A q, r \in DOMAIN l : l[q] = l[r] => q = r
      /\ \A i \in DOMAIN u : u[i] <=> \E q \in DOMAIN l : l[q] = i
  BY DEF TablaOK
<1>2. DOMAIN u = DOMAIN s
  BY <1>1
<1>3. \A p \in DOMAIN l : l[p] \in O /\ m[p] \in 1..n
  BY <1>0, <1>1, <1>2
<1>4. \A k \in 1..n : k # n + 1 /\ k \in 1..(n + 1)
  BY <1>0
<1>5. n + 1 \in 1..(n + 1) /\ \A k \in 1..(n + 1) : k = n + 1 \/ k \in 1..n
  BY <1>0
<1>6. m \in [DOMAIN m -> DOMAIN t]
  <2>1. \A p \in DOMAIN l : m[p] \in DOMAIN t
    BY <1>0, <1>3, <1>4
  <2> QED
    BY <1>0, <2>1
<1>7. \A p, q \in DOMAIN m : m[p] = m[q] => p = q
  <2>1. \A i, k \in O : h[i] = h[k] => i = k
    BY <1>0
  <2> QED
    BY <1>0, <1>1, <1>3, <2>1
<1>8. ASSUME NEW k \in DOMAIN v
      PROVE  v[k] <=> \E p \in DOMAIN m : m[p] = k
  <2>1. CASE k = n + 1
    BY <1>0, <1>3, <1>4, <2>1
  <2>2. CASE k \in 1..n
    <3>1. g[k] \in O /\ g[k] \in DOMAIN u /\ u[g[k]]
      BY <1>0, <1>2, <2>2
    <3>2. PICK p \in DOMAIN l : l[p] = g[k]
      BY <1>1, <3>1
    <3> QED
      BY <1>0, <2>2, <3>2
  <2> QED
    BY <1>0, <1>5, <2>1, <2>2
<1>9. TablaOK(t, v, m)
  BY <1>0, <1>6, <1>7, <1>8 DEF TablaOK
<1> QED
  BY <1>9

LibresDe(s, u) == {i \in DOMAIN s : ~u[i]}
Lugar(O, k) == CHOOSE i \in O : Cardinality({j \in O : j <= i}) = k

\* The place of each number.
LEMMA LugarDeRango ==
  ASSUME NEW n \in Nat, NEW O \in SUBSET (1..n)
  PROVE  /\ \A k \in 1..Cardinality(O) : Lugar(O, k) \in O /\ Rango(O, Lugar(O, k)) = k
         /\ \A i \in O : Lugar(O, Rango(O, i)) = i
<1>1. ASSUME NEW k \in 1..Cardinality(O)
      PROVE  Lugar(O, k) \in O /\ Rango(O, Lugar(O, k)) = k
  <2>1. \E i \in O : Cardinality({j \in O : j <= i}) = k
    <3>1. \E i \in O : Rango(O, i) = k
      BY RangoBiyectivo, Zenon
    <3> QED
      BY <3>1, Zenon DEF Rango
  <2> QED
    BY <2>1, Zenon DEF Lugar, Rango
<1>2. ASSUME NEW i \in O
      PROVE  Lugar(O, Rango(O, i)) = i
  <2>1. Rango(O, i) \in 1..Cardinality(O)
    BY RangoBiyectivo
  <2>2. Lugar(O, Rango(O, i)) \in O /\ Rango(O, Lugar(O, Rango(O, i))) = Rango(O, i)
    BY <1>1, <2>1
  <2> QED
    BY <2>2, RangoBiyectivo
<1> QED
  BY <1>1, <1>2

\* Compaction keeps the processes in order at the start of the table, and
\* joins all free space after them.
LEMMA TablaCompactar ==
  ASSUME NEW s, NEW u, NEW l, TablaOK(s, u, l)
  PROVE  LET F == LibresDe(s, u)
             O == DOMAIN s \ F
             n == Cardinality(O)
             t == Append([k \in 1..n |-> s[Lugar(O, k)]], Suma(s, F))
             v == Append([k \in 1..n |-> TRUE], FALSE)
             m == [p \in DOMAIN l |-> l[p] - Cardinality({i \in F : i < l[p]})]
         IN  /\ TablaOK(t, v, m) /\ Total(t) = Total(s) /\ DOMAIN m = DOMAIN l
             /\ n + 1 \in DOMAIN t /\ ~v[n + 1] /\ t[n + 1] = Suma(s, F)
<1> DEFINE F == LibresDe(s, u)
           O == DOMAIN s \ F
           n == Cardinality(O)
           g == [k \in 1..n |-> Lugar(O, k)]
           h == [i \in O |-> Rango(O, i)]
           t == Append([k \in 1..n |-> s[Lugar(O, k)]], Suma(s, F))
           v == Append([k \in 1..n |-> TRUE], FALSE)
           m == [p \in DOMAIN l |-> l[p] - Cardinality({i \in F : i < l[p]})]
<1>1. /\ s \in Seq(Nat) /\ u \in Seq(BOOLEAN) /\ Len(u) = Len(s)
      /\ l \in [DOMAIN l -> DOMAIN s]
      /\ \A i \in DOMAIN u : u[i] <=> \E q \in DOMAIN l : l[q] = i
  BY DEF TablaOK
<1>2. DOMAIN s = 1..Len(s) /\ DOMAIN u = DOMAIN s /\ Len(s) \in Nat
  BY <1>1
<1>3. /\ F \in SUBSET DOMAIN s /\ F \in SUBSET (1..Len(s))
      /\ O \in SUBSET DOMAIN s /\ O \in SUBSET (1..Len(s)) /\ O = (1..Len(s)) \ F
      /\ \A i \in DOMAIN s : u[i] <=> i \in O
  BY <1>2 DEF LibresDe
<1> HIDE DEF F, O
<1>4. /\ n \in Nat /\ h \in [O -> 1..n] /\ g \in [1..n -> O]
      /\ \A k \in 1..n : h[g[k]] = k
      /\ \A i \in O : g[h[i]] = i
  <2>1. n \in Nat /\ \A i \in O : Rango(O, i) \in 1..n
    <3>1. PICK c \in Nat : O \in SUBSET (1..c)
      BY <1>2, <1>3
    <3> QED
      BY <3>1, RangoBiyectivo, Zenon DEF n
  <2>2. /\ \A k \in 1..n : Lugar(O, k) \in O /\ Rango(O, Lugar(O, k)) = k
        /\ \A i \in O : Lugar(O, Rango(O, i)) = i
    <3>1. PICK c \in Nat : O \in SUBSET (1..c)
      BY <1>2, <1>3
    <3> QED
      BY <3>1, LugarDeRango, Zenon DEF n
  <2> HIDE DEF n
  <2> QED
    BY <2>1, <2>2
<1>5. [k \in 1..n |-> s[Lugar(O, k)]] = [k \in 1..n |-> s[g[k]]]
  OBVIOUS
<1> HIDE DEF n, g, h
<1>6. Suma(s, F) \in Nat /\ \A k \in 1..n : s[g[k]] \in Nat
  BY <1>1, <1>3, <1>4, Lugares
<1>7. /\ t \in Seq(Nat) /\ Len(t) = n + 1 /\ DOMAIN t = 1..(n + 1)
      /\ t[n + 1] = Suma(s, F) /\ \A k \in 1..n : t[k] = s[g[k]]
  <2> DEFINE a == [k \in 1..n |-> s[g[k]]]
             x == Suma(s, F)
  <2>1. a \in Seq(Nat) /\ Len(a) = n /\ \A k \in 1..n : a[k] = s[g[k]]
    BY <1>4, <1>6
  <2>2. t = Append(a, x) /\ x \in Nat
    BY <1>5, <1>6
  <2> HIDE DEF a, x
  <2>3. /\ Append(a, x) \in Seq(Nat) /\ Len(Append(a, x)) = n + 1
        /\ Append(a, x)[n + 1] = x /\ \A k \in 1..n : Append(a, x)[k] = a[k]
    BY <2>1, <2>2, AppendProperties
  <2>4. DOMAIN Append(a, x) = 1..(n + 1)
    BY <2>3
  <2> HIDE DEF t
  <2> QED
    BY <2>1, <2>2, <2>3, <2>4 DEF x
<1>8. /\ v \in Seq(BOOLEAN) /\ Len(v) = n + 1 /\ DOMAIN v = 1..(n + 1)
      /\ ~v[n + 1] /\ \A k \in 1..n : v[k]
  <2> DEFINE si == TRUE
             no == FALSE
             B == BOOLEAN
  <2>0. si \in B /\ no \in B
    OBVIOUS
  <2> HIDE DEF si, no, B
  <2> DEFINE b == [k \in 1..n |-> si]
  <2>1. b \in Seq(B) /\ Len(b) = n /\ \A k \in 1..n : b[k] = si
    BY <1>4, <2>0
  <2>4. v = Append(b, no)
    BY DEF si, no
  <2> HIDE DEF b
  <2>2. /\ Append(b, no) \in Seq(B) /\ Len(Append(b, no)) = n + 1
        /\ Append(b, no)[n + 1] = no /\ \A k \in 1..n : Append(b, no)[k] = b[k]
    BY <2>0, <2>1, AppendProperties
  <2>3. DOMAIN Append(b, no) = 1..(n + 1)
    BY <2>2
  <2>5. \A k \in 1..n : Append(b, no)[k] = si
    BY <2>1, <2>2
  <2> HIDE DEF v
  <2>6. /\ v \in Seq(BOOLEAN) /\ Len(v) = n + 1 /\ DOMAIN v = 1..(n + 1)
        /\ v[n + 1] = FALSE /\ \A k \in 1..n : v[k] = TRUE
    BY <2>2, <2>3, <2>4, <2>5, Zenon DEF B, si, no
  <2> QED
    BY <2>6, Zenon
<1>9. m \in [DOMAIN l -> Int] /\ DOMAIN m = DOMAIN l /\ \A p \in DOMAIN l : m[p] = h[l[p]]
  <2>1. ASSUME NEW p \in DOMAIN l
        PROVE  l[p] \in O /\ l[p] - Cardinality({i \in F : i < l[p]}) = Rango(O, l[p])
    <3>1. l[p] \in O
      BY <1>1, <1>2, <1>3
    <3>2. l[p] \in (1..Len(s)) \ F
      BY <1>3, <3>1
    <3>3. l[p] - Cardinality({j \in F : j < l[p]}) = Rango((1..Len(s)) \ F, l[p])
      BY <1>2, <1>3, <3>2, RangoCorrido
    <3> QED
      BY <1>3, <3>1, <3>3
  <2>2. \A p \in DOMAIN l : m[p] = h[l[p]]
    BY <2>1 DEF h
  <2>3. \A p \in DOMAIN l : h[l[p]] \in Int
    <3>1. 1..n \subseteq Int
      BY <1>4
    <3>2. \A i \in O : h[i] \in 1..n
      BY <1>4
    <3> QED
      BY <2>1, <3>1, <3>2
  <2>4. DOMAIN m = DOMAIN l /\ m = [p \in DOMAIN l |-> m[p]]
    OBVIOUS
  <2> HIDE DEF m
  <2> QED
    BY <2>2, <2>3, <2>4
<1> HIDE DEF t, v, m
<1>10. TablaOK(t, v, m)
  <2>1. Numeradas(s, u, l, O, n, h, g, t, v, m)
    BY <1>3, <1>4, <1>7, <1>8, <1>9 DEF Numeradas
  <2> QED
    BY <2>1, TablaCorrer
<1>11. Corrida(s, F, O, n, g, t)
  <2>1. \A i \in O : \E k \in 1..n : g[k] = i
    BY <1>4
  <2>2. \A i, k \in 1..n : g[i] = g[k] => i = k
    BY <1>4
  <2>3. O = DOMAIN s \ F
    BY DEF O
  <2>4. Corresponden(g, t, 1..n, s, O)
    BY <1>4, <1>7, <2>1, <2>2 DEF Corresponden
  <2> QED
    BY <1>1, <1>3, <1>4, <1>7, <2>3, <2>4 DEF Corrida
<1>12. Total(t) = Total(s)
  BY <1>11, CorrerTotal
<1>13. n + 1 \in DOMAIN t
  BY <1>4, <1>7
<1> QED
  BY <1>7, <1>8, <1>9, <1>10, <1>12, <1>13 DEF t, v, m, n, O, F

-----------------------------------------------------------------------------
(* The inductive invariant *)

\* The three tables of partitions agree, and add up to the memory.
Tablas ==
  /\ TablaOK(particiones, mapParticiones, mapPCBPorParticion)
  /\ Total(particiones) = Tamanio_Memoria

Contextos == SUBSET [Tid : Tids, nuevo : BOOLEAN]
Pedidos == [pid : 0..MaxPid, size : Tamanios \cup {0},
            paso : {"nada", "pedir", "compactar", "espera"}, compacto : BOOLEAN]

\* The rest of the type invariant.
Resto ==
  /\ mapPIDxBaseLimit \in [DOMAIN mapPCBPorParticion -> BaseLimits]
  /\ DOMAIN mapPCBPorParticion \subseteq 1..pedido.pid
  /\ mapPCBPorTCB \in [DOMAIN mapPCBPorTCB -> Contextos]
  /\ pedido \in Pedidos

\* What is true of the process that waits: memory does not hold it; it is told
\* to compact when the free space is enough; and after that it has its room.
Turno ==
  /\ pedido.paso # "nada" => pedido.pid >= 1 /\ pedido.pid \notin DOMAIN mapPCBPorParticion
  /\ pedido.paso = "compactar" =>
       EsquemaMemoria = "DINAMICAS" /\ espacioLibreSuficiente(pedido.size)
  /\ pedido.compacto => pedido.paso = "pedir" /\ Entran(pedido.size) # {}

IInv == Tablas /\ Resto /\ Turno

\* The invariant implies the properties that the runs check.
LEMMA IInvImplica == IInv => TypeOK /\ OcupacionCoherente /\ SumaConstante
<1> SUFFICES ASSUME IInv PROVE TypeOK /\ OcupacionCoherente /\ SumaConstante
  OBVIOUS
<1>1. TypeOK
  BY DEF IInv, Tablas, Resto, TablaOK, TypeOK, Contextos, Pedidos
<1>2. OcupacionCoherente
  BY DEF IInv, Tablas, TablaOK, OcupacionCoherente, UnDuenio, OcupadasConDuenio
<1>3. SumaConstante
  BY DEF IInv, Tablas, Total, SumaConstante
<1> QED
  BY <1>1, <1>2, <1>3

\* Memory has held nothing yet.
TablasNuevas ==
  /\ particiones = Particiones
  /\ mapParticiones = [i \in DOMAIN Particiones |-> FALSE]
  /\ mapPCBPorParticion = <<>> /\ mapPIDxBaseLimit = <<>> /\ mapPCBPorTCB = <<>>

\* It holds then, whatever the kernel asks for.
LEMMA IInvNuevas ==
  ASSUME TablasNuevas, pedido \in Pedidos, Turno
  PROVE  IInv
<1> USE MemoriaAssumption DEF MemoriaAssumption
<1>1. Particiones \in Seq(Nat)
  <2>1. \A i \in 1..Len(Particiones) : Particiones[i] \in Nat
    OBVIOUS
  <2> QED
    BY <2>1
<1>2. Tablas
  <2>1. particiones \in Seq(Nat) /\ mapParticiones = [i \in DOMAIN particiones |-> FALSE]
        /\ mapPCBPorParticion = <<>>
    BY <1>1 DEF TablasNuevas
  <2>2. mapParticiones \in Seq(BOOLEAN) /\ Len(mapParticiones) = Len(particiones)
    <3> DEFINE no == FALSE
               B == BOOLEAN
    <3>1. no \in B /\ mapParticiones = [i \in 1..Len(particiones) |-> no] /\ Len(particiones) \in Nat
      BY <2>1
    <3> HIDE DEF no, B
    <3>2. mapParticiones \in Seq(B) /\ Len(mapParticiones) = Len(particiones)
      BY <3>1
    <3> QED
      BY <3>2 DEF B
  <2>3. DOMAIN mapPCBPorParticion = {}
    BY <2>1
  <2>4. mapPCBPorParticion \in [DOMAIN mapPCBPorParticion -> DOMAIN particiones]
    BY <2>1, <2>3
  <2>5. \A i \in DOMAIN mapParticiones : ~mapParticiones[i]
    BY <2>1
  <2>6. TablaOK(particiones, mapParticiones, mapPCBPorParticion)
    BY <2>1, <2>2, <2>3, <2>4, <2>5 DEF TablaOK
  <2> QED
    BY <2>6 DEF Tablas, TablasNuevas, Total, Tamanio_Memoria
<1>3. Resto
  <2>1. DOMAIN mapPCBPorParticion = {} /\ DOMAIN mapPIDxBaseLimit = {} /\ DOMAIN mapPCBPorTCB = {}
    BY DEF TablasNuevas
  <2>2. mapPIDxBaseLimit \in [DOMAIN mapPCBPorParticion -> BaseLimits]
    BY <2>1 DEF TablasNuevas
  <2>3. mapPCBPorTCB \in [DOMAIN mapPCBPorTCB -> Contextos]
    BY <2>1 DEF TablasNuevas
  <2> QED
    BY <2>1, <2>2, <2>3 DEF Resto
<1> QED
  BY <1>2, <1>3 DEF IInv

\* It holds at the start.
LEMMA IInvInicial == Init => IInv
  BY IInvNuevas, MemoriaAssumption DEF Init, MemoriaAssumption, TablasNuevas, Turno, Pedidos

\* The search finds a free partition that is large enough, if there is one.
LEMMA AsignarEncuentra ==
  ASSUME particiones \in Seq(Nat), NEW size, Entran(size) # {}
  PROVE  asignarPorAlgoritmo(size) \in Entran(size)
<1> DEFINE I == Entran(size)
           R == {x \in I \X I : EsMejor(x[1], x[2])}
<1>1. IsFiniteSet(I)
  BY Lugares, I \in SUBSET DOMAIN particiones DEF Entran
<1>2. \A i \in I : i \in Nat /\ particiones[i] \in Nat
  BY DEF Entran
<1>3. \A x, y \in I : <<x, y>> \in R <=> EsMejor(x, y)
  OBVIOUS
<1>4. \A x, y \in I : EsMejor(x, y) \/ EsMejor(y, x)
  <2>1. CASE AlgoritmoBusqueda = "FIRST"
    BY <1>2, <2>1 DEF EsMejor
  <2>2. CASE AlgoritmoBusqueda = "BEST"
    BY <1>2, <2>2 DEF EsMejor
  <2>3. CASE AlgoritmoBusqueda = "WORST"
    BY <1>2, <2>3 DEF EsMejor
  <2> QED
    BY <2>1, <2>2, <2>3, MemoriaAssumption DEF MemoriaAssumption
<1>5. \A x, y, z \in I : EsMejor(x, y) /\ EsMejor(y, z) => EsMejor(x, z)
  <2>1. CASE AlgoritmoBusqueda = "FIRST"
    BY <1>2, <2>1 DEF EsMejor
  <2>2. CASE AlgoritmoBusqueda = "BEST"
    BY <1>2, <2>2 DEF EsMejor
  <2>3. CASE AlgoritmoBusqueda = "WORST"
    BY <1>2, <2>3 DEF EsMejor
  <2> QED
    BY <2>1, <2>2, <2>3, MemoriaAssumption DEF MemoriaAssumption
<1> HIDE DEF I, R
<1>6. \E x \in I : \A y \in I : <<x, y>> \in R
  <2>1. I # {}
    BY DEF I
  <2>2. \A x, y \in I : <<x, y>> \in R \/ <<y, x>> \in R
    BY <1>3, <1>4
  <2>3. \A x, y, z \in I : <<x, y>> \in R /\ <<y, z>> \in R => <<x, z>> \in R
    BY <1>3, <1>5
  <2> QED
    BY <1>1, <2>1, <2>2, <2>3, HayMejor
<1>7. \E x \in I : \A y \in I : EsMejor(x, y)
  BY <1>3, <1>6
<1> QED
  BY <1>7, Zenon DEF asignarPorAlgoritmo, I

\* Bases and limits are integers.
LEMMA BaseYLimiteTipo ==
  ASSUME NEW s \in Seq(Nat), NEW n \in DOMAIN s
  PROVE  /\ BaseYLimite(n, s) \in BaseLimits
         /\ BaseYLimite(n, s).Base = Suma(s, 1..(n - 1)) /\ Suma(s, 1..(n - 1)) \in Nat
         /\ BaseYLimite(n, s).Limit = Suma(s, 1..(n - 1)) + s[n] - 1
<1>1. 1..(n - 1) \in SUBSET DOMAIN s /\ s[n] \in Nat
  OBVIOUS
<1> DEFINE b == Suma(s, 1..(n - 1))
<1>2. b \in Nat
  BY <1>1, Lugares
<1>3. BaseYLimite(n, s) = [Base |-> b, Limit |-> b + s[n] - 1]
  BY DEF BaseYLimite
<1> HIDE DEF b
<1>4. b \in Int /\ b + s[n] - 1 \in Int
  BY <1>1, <1>2
<1> QED
  BY <1>2, <1>3, <1>4 DEF BaseLimits, b

-----------------------------------------------------------------------------
(* The actions keep the invariant *)

\* Steps that leave the tables and the request alone.
LEMMA TablasIguales ==
  ASSUME IInv, UNCHANGED <<tabla, mapPIDxBaseLimit, pedido>>,
         mapPCBPorTCB' \in [DOMAIN mapPCBPorTCB' -> Contextos]
  PROVE  IInv'
<1>1. /\ particiones' = particiones /\ mapParticiones' = mapParticiones
      /\ mapPCBPorParticion' = mapPCBPorParticion /\ mapPIDxBaseLimit' = mapPIDxBaseLimit
      /\ pedido' = pedido
  BY DEF tabla
<1>2. Tablas'
  BY <1>1 DEF IInv, Tablas
<1>3. Resto'
  BY <1>1 DEF IInv, Resto
<1>4. Turno'
  BY <1>1 DEF IInv, Turno, Entran, espacioLibreSuficiente
<1> QED
  BY <1>2, <1>3, <1>4 DEF IInv

\* A set of contexts with one more.
LEMMA ContextoNuevo ==
  ASSUME NEW tid \in Tids, NEW cs \in Contextos
  PROVE  /\ cs \cup {[Tid |-> tid, nuevo |-> TRUE]} \in Contextos
         /\ cs \cup {[Tid |-> tid, nuevo |-> FALSE]} \in Contextos
<1>1. ASSUME NEW B, NEW b \in B
      PROVE  [Tid |-> tid, nuevo |-> b] \in [Tid : Tids, nuevo : B]
  OBVIOUS
<1>2. /\ [Tid |-> tid, nuevo |-> TRUE] \in [Tid : Tids, nuevo : BOOLEAN]
      /\ [Tid |-> tid, nuevo |-> FALSE] \in [Tid : Tids, nuevo : BOOLEAN]
  BY <1>1, TRUE \in BOOLEAN, FALSE \in BOOLEAN, Zenon
<1> QED
  BY <1>2, Zenon DEF Contextos

\* The contexts of threads.
LEMMA PasoCreateThread ==
  ASSUME IInv, NEW pid \in Pids, NEW tid \in Tids, CreateThread(pid, tid)
  PROVE  IInv'
<1>1. PICK k \in ClavesDe(pid) :
        mapPCBPorTCB' = [mapPCBPorTCB EXCEPT ![k] = @ \cup {[Tid |-> tid, nuevo |-> TRUE]}]
  BY DEF CreateThread
<1>2. mapPCBPorTCB \in [DOMAIN mapPCBPorTCB -> Contextos] /\ k \in DOMAIN mapPCBPorTCB
  BY <1>1 DEF IInv, Resto, ClavesDe
<1>3. mapPCBPorTCB[k] \cup {[Tid |-> tid, nuevo |-> TRUE]} \in Contextos
  <2>1. mapPCBPorTCB[k] \in Contextos
    BY <1>2
  <2> QED
    BY <2>1, ContextoNuevo
<1>4. mapPCBPorTCB' \in [DOMAIN mapPCBPorTCB' -> Contextos]
  BY <1>1, <1>2, <1>3
<1> QED
  BY <1>4, TablasIguales DEF CreateThread

\* A context that is saved replaces the old one.
LEMMA PasoUpdateExecutionContext ==
  ASSUME IInv, NEW pid \in Pids, NEW tid \in Tids, UpdateExecutionContext(pid, tid)
  PROVE  IInv'
<1> DEFINE k == PCB(pid, mapPIDxBaseLimit[pid])
           cs == {c \in mapPCBPorTCB[k] : c.Tid # tid} \cup {[Tid |-> tid, nuevo |-> FALSE]}
<1>1. k \in DOMAIN mapPCBPorTCB /\ mapPCBPorTCB' = [mapPCBPorTCB EXCEPT ![k] = cs]
  BY DEF UpdateExecutionContext
<1> HIDE DEF k
<1>2. mapPCBPorTCB \in [DOMAIN mapPCBPorTCB -> Contextos]
  BY DEF IInv, Resto
<1>3. cs \in Contextos
  <2>1. mapPCBPorTCB[k] \in Contextos
    BY <1>1, <1>2
  <2>2. {c \in mapPCBPorTCB[k] : c.Tid # tid} \in Contextos
    BY <2>1 DEF Contextos
  <2> QED
    BY <2>2, ContextoNuevo
<1> HIDE DEF cs
<1>4. mapPCBPorTCB' \in [DOMAIN mapPCBPorTCB' -> Contextos]
  BY <1>1, <1>2, <1>3
<1> QED
  BY <1>4, TablasIguales DEF UpdateExecutionContext

\* The end of a thread.
LEMMA PasoTerminateThread ==
  ASSUME IInv, NEW pid \in Pids, NEW tid \in Tids, TerminateThread(pid, tid)
  PROVE  IInv'
<1> DEFINE k == PCB(pid, [Base |-> 0, Limit |-> 0])
           quedan == mapPCBPorTCB[k] \ {[Tid |-> tid, nuevo |-> TRUE]}
<1>1. mapPCBPorTCB' = IF k \notin DOMAIN mapPCBPorTCB THEN mapPCBPorTCB
                      ELSE IF quedan = {} THEN SinClave(mapPCBPorTCB, k)
                      ELSE [mapPCBPorTCB EXCEPT ![k] = quedan]
  BY DEF TerminateThread
<1>2. mapPCBPorTCB \in [DOMAIN mapPCBPorTCB -> Contextos]
  BY DEF IInv, Resto
<1> HIDE DEF k
<1>3. k \in DOMAIN mapPCBPorTCB => quedan \in Contextos
  BY <1>2 DEF Contextos
<1> HIDE DEF quedan
<1>4. mapPCBPorTCB' \in [DOMAIN mapPCBPorTCB' -> Contextos]
  BY <1>1, <1>2, <1>3 DEF SinClave, Restrict
<1> QED
  BY <1>4, TablasIguales DEF TerminateThread

\* A write changes user memory only.
LEMMA PasoWriteMemory ==
  ASSUME IInv, NEW pid, NEW a, WriteMemory(pid, a)
  PROVE  IInv'
<1>1. mapPCBPorTCB' \in [DOMAIN mapPCBPorTCB' -> Contextos]
  BY DEF WriteMemory, IInv, Resto
<1> QED
  BY <1>1, TablasIguales DEF WriteMemory

\* The kernel asks for a process that memory does not hold yet.
LEMMA PasoPedir ==
  ASSUME IInv, NEW size \in Tamanios, Pedir(size)
  PROVE  IInv'
<1>1. pedido \in Pedidos /\ MaxPid \in Nat
  BY MemoriaAssumption DEF IInv, Resto, MemoriaAssumption
<1>2. /\ pedido' = [pid |-> pedido.pid + 1, size |-> size, paso |-> "pedir", compacto |-> FALSE]
      /\ pedido.pid < MaxPid
      /\ particiones' = particiones /\ mapParticiones' = mapParticiones
      /\ mapPCBPorParticion' = mapPCBPorParticion /\ mapPIDxBaseLimit' = mapPIDxBaseLimit
      /\ mapPCBPorTCB' = mapPCBPorTCB
  BY DEF Pedir, tabla
<1>3. pedido.pid \in 0..MaxPid
  BY <1>1 DEF Pedidos
<1>4. pedido.pid + 1 \in 0..MaxPid /\ pedido.pid + 1 >= 1
      /\ pedido.pid + 1 \notin 1..pedido.pid /\ 1..pedido.pid \subseteq 1..(pedido.pid + 1)
  BY <1>1, <1>2, <1>3
<1>5. pedido' \in Pedidos
  BY <1>2, <1>4 DEF Pedidos
<1>6. Tablas'
  BY <1>2 DEF IInv, Tablas
<1>7. Resto'
  BY <1>2, <1>4, <1>5 DEF IInv, Resto
<1>8. Turno'
  BY <1>2, <1>4 DEF IInv, Resto, Turno
<1> QED
  BY <1>6, <1>7, <1>8 DEF IInv

\* No room: the tables stay, and compaction is asked for only if it helps.
LEMMA PasoSinLugar ==
  ASSUME IInv, pedido.paso = "pedir", Entran(pedido.size) = {}, ContestarSinLugar,
         UNCHANGED <<tabla, mapPIDxBaseLimit, mapPCBPorTCB>>
  PROVE  IInv'
<1> DEFINE si == EsquemaMemoria = "DINAMICAS" /\ espacioLibreSuficiente(pedido.size)
<1>1. /\ pedido' = [pedido EXCEPT !.paso = IF si THEN "compactar" ELSE "espera"]
      /\ particiones' = particiones /\ mapParticiones' = mapParticiones
      /\ mapPCBPorParticion' = mapPCBPorParticion /\ mapPIDxBaseLimit' = mapPIDxBaseLimit
      /\ mapPCBPorTCB' = mapPCBPorTCB
  BY DEF ContestarSinLugar, tabla
<1>2. pedido \in Pedidos /\ ~pedido.compacto
  BY DEF IInv, Resto, Turno
<1>3. /\ pedido' \in Pedidos /\ pedido'.pid = pedido.pid /\ pedido'.size = pedido.size
      /\ ~pedido'.compacto
      /\ pedido'.paso = IF si THEN "compactar" ELSE "espera"
  <2> HIDE DEF si
  <2> QED
    BY <1>1, <1>2 DEF Pedidos
<1>4. Tablas'
  BY <1>1 DEF IInv, Tablas
<1>5. Resto'
  BY <1>1, <1>3 DEF IInv, Resto
<1>6. Turno'
  BY <1>1, <1>3 DEF IInv, Turno, espacioLibreSuficiente
<1> QED
  BY <1>4, <1>5, <1>6 DEF IInv

\* The process gets a partition: the tables.
LEMMA InstalarTablas ==
  ASSUME IInv, pedido.paso = "pedir", NEW n \in Entran(pedido.size), Instalar(n)
  PROVE  /\ Tablas'
         /\ DOMAIN mapPCBPorParticion' = DOMAIN mapPCBPorParticion \cup {pedido.pid}
         /\ n \in DOMAIN particiones' /\ particiones' \in Seq(Nat)
<1> DEFINE v == [mapParticiones EXCEPT ![n] = TRUE]
           m == [p \in DOMAIN mapPCBPorParticion \cup {pedido.pid} |->
                   IF p = pedido.pid THEN n ELSE mapPCBPorParticion[p]]
           size == pedido.size
<1>1. /\ TablaOK(particiones, mapParticiones, mapPCBPorParticion)
      /\ Total(particiones) = Tamanio_Memoria
      /\ pedido.pid \notin DOMAIN mapPCBPorParticion
      /\ pedido \in Pedidos
  BY DEF IInv, Tablas, Turno, Resto
<1>2. n \in DOMAIN particiones /\ ~mapParticiones[n] /\ particiones[n] >= size
  BY DEF Entran
<1>3. particiones \in Seq(Nat) /\ size \in Nat
  BY <1>1, MemoriaAssumption DEF TablaOK, Pedidos, MemoriaAssumption
<1>4. TablaOK(particiones, v, m)
  BY <1>1, <1>2, TablaOcupar
<1>5. mapPCBPorParticion' = m
  BY DEF Instalar
<1>6. DOMAIN m = DOMAIN mapPCBPorParticion \cup {pedido.pid}
  OBVIOUS
<1> HIDE DEF m
<1>7. CASE subdividirParticion(n, size) /\ particiones[n] > size
  <2> DEFINE t == Append([particiones EXCEPT ![n] = size], particiones[n] - size)
  <2>1. particiones' = t /\ mapParticiones' = Append(v, FALSE)
    BY <1>7 DEF subdividirParticion
  <2>2. /\ t \in Seq(Nat) /\ Len(t) = Len(particiones) + 1 /\ DOMAIN t = DOMAIN particiones \cup {Len(particiones) + 1}
        /\ Total(t) = Total(particiones)
    <3>1. size <= particiones[n] /\ particiones[n] \in Nat
      BY <1>2, <1>3
    <3> QED
      BY <1>2, <1>3, <3>1, DividirTotal
  <2> HIDE DEF t, v
  <2>3. TablaOK(t, Append(v, FALSE), m)
    BY <1>4, <2>2, TablaAgregar
  <2> QED
    BY <1>1, <1>2, <1>5, <1>6, <2>1, <2>2, <2>3 DEF Tablas
<1>8. CASE mapParticiones' = v /\ UNCHANGED particiones
  <2> HIDE DEF v
  <2> QED
    BY <1>1, <1>2, <1>3, <1>4, <1>5, <1>6, <1>8 DEF Tablas
<1> QED
  BY <1>7, <1>8 DEF Instalar

\* The process gets a partition.
LEMMA PasoInstalar ==
  ASSUME IInv, pedido.paso = "pedir", NEW n \in Entran(pedido.size), Instalar(n)
  PROVE  IInv' /\ pedido'.paso = "nada"
<1> DEFINE v == BaseYLimite(n, particiones')
           k == PCB(pedido.pid, v)
           pid == pedido.pid
<1>1. /\ Tablas' /\ DOMAIN mapPCBPorParticion' = DOMAIN mapPCBPorParticion \cup {pid}
      /\ n \in DOMAIN particiones' /\ particiones' \in Seq(Nat)
  BY InstalarTablas
<1>2. v \in BaseLimits
  BY <1>1, BaseYLimiteTipo
<1>3. /\ mapPIDxBaseLimit' = [p \in DOMAIN mapPIDxBaseLimit \cup {pid} |->
                               IF p = pid THEN v ELSE mapPIDxBaseLimit[p]]
      /\ mapPCBPorTCB' = [c \in DOMAIN mapPCBPorTCB \cup {k} |->
                            IF c = k THEN {} ELSE mapPCBPorTCB[c]]
      /\ pedido' = [pedido EXCEPT !.paso = "nada", !.compacto = FALSE]
  BY DEF Instalar
<1> HIDE DEF v, k
<1>4. /\ mapPIDxBaseLimit \in [DOMAIN mapPCBPorParticion -> BaseLimits]
      /\ DOMAIN mapPCBPorParticion \subseteq 1..pid
      /\ mapPCBPorTCB \in [DOMAIN mapPCBPorTCB -> Contextos]
      /\ pedido \in Pedidos /\ pid >= 1
  BY DEF IInv, Resto, Turno
<1>5. pid \in Nat
  BY <1>4 DEF Pedidos
<1>6. pedido' \in Pedidos /\ pedido'.pid = pid /\ pedido'.paso = "nada" /\ ~pedido'.compacto
  BY <1>3, <1>4 DEF Pedidos
<1>7. mapPIDxBaseLimit' \in [DOMAIN mapPCBPorParticion' -> BaseLimits]
  BY <1>1, <1>2, <1>3, <1>4
<1>8. DOMAIN mapPCBPorParticion' \subseteq 1..pedido'.pid
  BY <1>1, <1>4, <1>5, <1>6
<1>9. mapPCBPorTCB' \in [DOMAIN mapPCBPorTCB' -> Contextos]
  BY <1>3, <1>4 DEF Contextos
<1>10. Resto'
  BY <1>6, <1>7, <1>8, <1>9 DEF Resto
<1>11. Turno'
  BY <1>6 DEF Turno
<1> QED
  BY <1>1, <1>6, <1>10, <1>11 DEF IInv

\* CREATE PROCESS.
LEMMA PasoCreateProcess ==
  ASSUME IInv, CreateProcess
  PROVE  IInv' /\ (pedido.compacto => pedido'.paso = "nada")
<1>1. CASE Entran(pedido.size) # {}
  <2>1. particiones \in Seq(Nat)
    BY DEF IInv, Tablas, TablaOK
  <2>2. asignarPorAlgoritmo(pedido.size) \in Entran(pedido.size)
    BY <1>1, <2>1, AsignarEncuentra
  <2>3. pedido.paso = "pedir" /\ Instalar(asignarPorAlgoritmo(pedido.size))
    BY <1>1 DEF CreateProcess
  <2> QED
    BY <2>2, <2>3, PasoInstalar
<1>2. CASE Entran(pedido.size) = {}
  BY <1>2, PasoSinLugar DEF CreateProcess, IInv, Turno
<1> QED
  BY <1>1, <1>2

\* Compaction, and the room that it makes.
LEMMA PasoCompactacion ==
  ASSUME IInv, Compactacion
  PROVE  IInv'
<1> DEFINE F == LibresDe(particiones, mapParticiones)
           O == DOMAIN particiones \ F
           n == Cardinality(O)
           t == Append([k \in 1..n |-> particiones[Lugar(O, k)]], Suma(particiones, F))
           v == Append([k \in 1..n |-> TRUE], FALSE)
           m == [p \in DOMAIN mapPCBPorParticion |->
                   mapPCBPorParticion[p] - Cardinality({i \in F : i < mapPCBPorParticion[p]})]
<1>1. F = Libres /\ O = Ocupadas
  BY DEF LibresDe, Libres, Ocupadas
<1>2. /\ particiones' = t /\ mapParticiones' = v /\ mapPCBPorParticion' = m
      /\ pedido.paso = "compactar" /\ pedido' = [pedido EXCEPT !.paso = "pedir", !.compacto = TRUE]
      /\ mapPIDxBaseLimit' = mapPIDxBaseLimit /\ mapPCBPorTCB' = mapPCBPorTCB
  <2>1. particiones' = Append([k \in 1..Cardinality(Ocupadas) |-> particiones[Lugar(Ocupadas, k)]],
                              Suma(particiones, Libres))
    BY Zenon DEF Compactacion, Lugar
  <2>2. mapParticiones' = Append([k \in 1..Cardinality(Ocupadas) |-> TRUE], FALSE)
    BY Zenon DEF Compactacion
  <2>3. mapPCBPorParticion' = [p \in DOMAIN mapPCBPorParticion |->
          mapPCBPorParticion[p] - Cardinality({i \in Libres : i < mapPCBPorParticion[p]})]
    BY DEF Compactacion, CorrerPids
  <2>4. /\ pedido.paso = "compactar" /\ pedido' = [pedido EXCEPT !.paso = "pedir", !.compacto = TRUE]
        /\ mapPIDxBaseLimit' = mapPIDxBaseLimit /\ mapPCBPorTCB' = mapPCBPorTCB
    BY DEF Compactacion
  <2>5. particiones' = t /\ mapParticiones' = v /\ mapPCBPorParticion' = m
    <3> HIDE DEF F, O
    <3> QED
      BY <1>1, <2>1, <2>2, <2>3, Zenon
  <2> QED
    BY <2>4, <2>5
<1>3. TablaOK(particiones, mapParticiones, mapPCBPorParticion) /\ Total(particiones) = Tamanio_Memoria
  BY DEF IInv, Tablas
<1>4. /\ TablaOK(t, v, m) /\ Total(t) = Total(particiones) /\ DOMAIN m = DOMAIN mapPCBPorParticion
      /\ n + 1 \in DOMAIN t /\ ~v[n + 1] /\ t[n + 1] = Suma(particiones, F)
  BY <1>3, TablaCompactar
<1> HIDE DEF F, O, n, t, v, m
<1>5. Tablas'
  BY <1>2, <1>3, <1>4 DEF Tablas
<1>6. /\ pedido \in Pedidos /\ pedido.pid >= 1 /\ pedido.pid \notin DOMAIN mapPCBPorParticion
      /\ espacioLibreSuficiente(pedido.size)
  BY <1>2 DEF IInv, Resto, Turno
<1>7. /\ pedido' \in Pedidos /\ pedido'.pid = pedido.pid /\ pedido'.size = pedido.size
      /\ pedido'.paso = "pedir" /\ pedido'.compacto
  BY <1>2, <1>6 DEF Pedidos
<1>8. Resto'
  BY <1>2, <1>4, <1>7 DEF IInv, Resto
<1>9. Suma(particiones, F) >= pedido.size
  BY <1>1, <1>6 DEF espacioLibreSuficiente, Libres
<1>10. n + 1 \in Entran(pedido.size)'
  BY <1>2, <1>4, <1>7, <1>9 DEF Entran
<1>11. Turno'
  BY <1>2, <1>4, <1>6, <1>7, <1>10 DEF Turno
<1> QED
  BY <1>5, <1>8, <1>11 DEF IInv

\* The freed partition and its free neighbours become one.
LEMMA Consolidar ==
  ASSUME NEW t, TablaOK(t.sizes, t.usos, t.lugar), NEW n \in DOMAIN t.sizes, ~t.usos[n]
  PROVE  LET r == Liberar(t, n)
         IN  /\ TablaOK(r.sizes, r.usos, r.lugar)
             /\ Total(r.sizes) = Total(t.sizes) /\ DOMAIN r.lugar = DOMAIN t.lugar
<1> DEFINE r == JuntarIzquierda(t, n)
<1>1. t.sizes \in Seq(Nat) /\ Len(t.sizes) \in Nat /\ DOMAIN t.sizes = 1..Len(t.sizes) /\ n \in Nat
  BY DEF TablaOK
<1>2. /\ TablaOK(r.sizes, r.usos, r.lugar)
      /\ Total(r.sizes) = Total(t.sizes) /\ DOMAIN r.lugar = DOMAIN t.lugar
  <2>1. CASE n > 1 /\ ~t.usos[n - 1]
    <3> DEFINE i == n - 1
    <3>1. i \in DOMAIN t.sizes /\ i + 1 \in DOMAIN t.sizes /\ i + 1 = n
      BY <1>1, <2>1
    <3>2. r = Juntar(t, i)
      BY <2>1 DEF JuntarIzquierda
    <3> HIDE DEF i, r
    <3> QED
      BY <3>1, <3>2, TablaJuntar
  <2>2. CASE ~(n > 1 /\ ~t.usos[n - 1])
    BY <2>2 DEF JuntarIzquierda
  <2> QED
    BY <2>1, <2>2
<1> HIDE DEF r
<1> DEFINE q == JuntarDerecha(r, n)
<1>3. /\ TablaOK(q.sizes, q.usos, q.lugar)
      /\ Total(q.sizes) = Total(r.sizes) /\ DOMAIN q.lugar = DOMAIN r.lugar
  <2>1. CASE n < Len(r.sizes) /\ ~r.usos[n + 1]
    <3>1. r.sizes \in Seq(Nat)
      BY <1>2 DEF TablaOK
    <3>2. n \in DOMAIN r.sizes /\ n + 1 \in DOMAIN r.sizes
      BY <1>1, <2>1, <3>1
    <3>3. q = Juntar(r, n)
      BY <2>1 DEF JuntarDerecha
    <3> HIDE DEF q
    <3> QED
      BY <1>2, <2>1, <3>2, <3>3, TablaJuntar
  <2>2. CASE ~(n < Len(r.sizes) /\ ~r.usos[n + 1])
    BY <1>2, <2>2 DEF JuntarDerecha
  <2> QED
    BY <2>1, <2>2
<1>4. Liberar(t, n) = q \/ Liberar(t, n) = t
  BY DEF Liberar, consolidarParticiones, r
<1> HIDE DEF q
<1> QED
  BY <1>2, <1>3, <1>4

\* TERMINATE PROCESS.
LEMMA PasoTerminateProcess ==
  ASSUME IInv, NEW pid \in DOMAIN mapPCBPorParticion, TerminateProcess(pid)
  PROVE  IInv'
<1> DEFINE n == mapPCBPorParticion[pid]
           s == particiones
           v == [mapParticiones EXCEPT ![n] = FALSE]
           l == SinClave(mapPCBPorParticion, pid)
           t == [sizes |-> s, usos |-> v, lugar |-> l]
           u == Liberar(t, n)
           k == PCB(pid, [Base |-> 0, Limit |-> 0])
<1>1. /\ particiones' = u.sizes /\ mapParticiones' = u.usos /\ mapPCBPorParticion' = u.lugar
      /\ mapPIDxBaseLimit' = SinClave(mapPIDxBaseLimit, pid)
      /\ mapPCBPorTCB' = SinClave(mapPCBPorTCB, k)
      /\ pedido' = Reintentar(pedido) /\ pedido.paso \in {"nada", "espera"}
  BY DEF TerminateProcess
<1>2. /\ TablaOK(particiones, mapParticiones, mapPCBPorParticion)
      /\ Total(particiones) = Tamanio_Memoria
  BY DEF IInv, Tablas
<1>3. TablaOK(s, v, l) /\ DOMAIN l = DOMAIN mapPCBPorParticion \ {pid}
  BY <1>2, TablaLiberar
<1>4. n \in DOMAIN s /\ ~v[n]
  <2>1. n \in DOMAIN s /\ n \in DOMAIN mapParticiones
    BY <1>2 DEF TablaOK
  <2> QED
    BY <2>1
<1>5. t.sizes = s /\ t.usos = v /\ t.lugar = l
  <2> HIDE DEF s, v, l
  <2> QED
    OBVIOUS
<1> HIDE DEF n, v, l, t
<1>6. /\ TablaOK(u.sizes, u.usos, u.lugar)
      /\ Total(u.sizes) = Total(s) /\ DOMAIN u.lugar = DOMAIN l
  BY <1>3, <1>4, <1>5, Consolidar
<1> HIDE DEF u, s, k
<1>7. Tablas'
  BY <1>1, <1>2, <1>6 DEF Tablas, s
<1>8. /\ mapPIDxBaseLimit \in [DOMAIN mapPCBPorParticion -> BaseLimits]
      /\ DOMAIN mapPCBPorParticion \subseteq 1..pedido.pid
      /\ mapPCBPorTCB \in [DOMAIN mapPCBPorTCB -> Contextos]
      /\ pedido \in Pedidos /\ ~pedido.compacto
  BY <1>1 DEF IInv, Resto, Turno
<1>9. /\ pedido' \in Pedidos /\ pedido'.pid = pedido.pid /\ ~pedido'.compacto
      /\ pedido'.paso # "compactar" /\ (pedido'.paso # "nada" => pedido.paso # "nada")
  BY <1>1, <1>8 DEF Reintentar, Pedidos
<1>10. Resto'
  <2>1. mapPIDxBaseLimit' \in [DOMAIN mapPCBPorParticion' -> BaseLimits]
    BY <1>1, <1>3, <1>6, <1>8 DEF SinClave, Restrict
  <2>2. mapPCBPorTCB' \in [DOMAIN mapPCBPorTCB' -> Contextos]
    BY <1>1, <1>8 DEF SinClave, Restrict
  <2> QED
    BY <1>1, <1>3, <1>6, <1>8, <1>9, <2>1, <2>2 DEF Resto
<1>11. Turno'
  BY <1>1, <1>3, <1>6, <1>9 DEF IInv, Turno
<1> QED
  BY <1>7, <1>10, <1>11 DEF IInv

\* Every step keeps the invariant.
LEMMA IInvPaso == IInv /\ [Next]_vars => IInv'
<1> SUFFICES ASSUME IInv, [Next]_vars PROVE IInv'
  OBVIOUS
<1>1. CASE UNCHANGED vars
  <2>1. mapPCBPorTCB' \in [DOMAIN mapPCBPorTCB' -> Contextos]
    BY <1>1 DEF IInv, Resto, vars
  <2> QED
    BY <1>1, <2>1, TablasIguales DEF vars
<1>2. ASSUME NEW size \in Tamanios, Pedir(size) PROVE IInv'
  BY <1>2, PasoPedir
<1>3. CASE CreateProcess
  BY <1>3, PasoCreateProcess
<1>4. CASE Compactacion
  BY <1>4, PasoCompactacion
<1>5. ASSUME NEW pid \in DOMAIN mapPCBPorParticion, TerminateProcess(pid) PROVE IInv'
  BY <1>5, PasoTerminateProcess
<1>6. ASSUME NEW pid \in Pids, NEW tid \in Tids, CreateThread(pid, tid) PROVE IInv'
  BY <1>6, PasoCreateThread
<1>7. ASSUME NEW pid \in Pids, NEW tid \in Tids, UpdateExecutionContext(pid, tid) PROVE IInv'
  BY <1>7, PasoUpdateExecutionContext
<1>8. ASSUME NEW pid \in Pids, NEW tid \in Tids, TerminateThread(pid, tid) PROVE IInv'
  BY <1>8, PasoTerminateThread
<1>9. ASSUME NEW pid, NEW a, WriteMemory(pid, a) PROVE IInv'
  BY <1>9, PasoWriteMemory
<1> QED
  BY <1>1, <1>2, <1>3, <1>4, <1>5, <1>6, <1>7, <1>8, <1>9 DEF Next

\* The invariant holds in every state.
THEOREM Invariante == Spec => []IInv
<1> QED
  BY IInvInicial, IInvPaso, PTL DEF Spec

-----------------------------------------------------------------------------
(* The properties, with any partitions *)

\* Every table has its type, for any partitions and any number of processes.
THEOREM TipoCorrecto == Spec => []TypeOK
  BY Invariante, IInvImplica, PTL

\* The partitions marked as occupied are those of the processes, one each.
THEOREM OcupacionSiempre == Spec => []OcupacionCoherente
  BY Invariante, IInvImplica, PTL

\* No division, join or compaction gains or loses a byte.
THEOREM SumaSiempre == Spec => []SumaConstante
  BY Invariante, IInvImplica, PTL

\* Compaction leaves room for the process that was told to compact.
LEMMA CompactarPaso ==
  ASSUME IInv, [Next]_vars, pedido.paso = "pedir", pedido.compacto
  PROVE  pedido'.paso = "nada" \/ UNCHANGED vars
<1> SUFFICES ASSUME vars' # vars PROVE pedido'.paso = "nada"
  BY Zenon
<1>1. pedido.paso \notin {"nada", "espera"} /\ pedido.paso # "compactar" /\ pedido.paso # "nada"
  OBVIOUS
<1>2. CreateProcess
  BY <1>1 DEF Next, Pedir, Compactacion, TerminateProcess, CreateThread,
              UpdateExecutionContext, TerminateThread, WriteMemory
<1> QED
  BY <1>2, PasoCreateProcess

\* A process that is told to compact has its room right after.
THEOREM CompactarSiempreAlcanza == Spec => CompactarAlcanza
<1> DEFINE A == (pedido.paso = "pedir" /\ pedido.compacto) => pedido'.paso = "nada"
<1>1. IInv /\ [Next]_vars => [A]_vars
  BY CompactarPaso
<1> QED
  BY <1>1, Invariante, PTL DEF Spec, CompactarAlcanza

-----------------------------------------------------------------------------
(* With fixed partitions *)

\* The addresses of two partitions have nothing in common.
LEMMA RangosDisjuntos ==
  ASSUME NEW s \in Seq(Nat), NEW i \in DOMAIN s, NEW j \in DOMAIN s, i < j
  PROVE  BaseYLimite(i, s).Limit < BaseYLimite(j, s).Base
<1> DEFINE I == 1..i
           J == 1..(j - 1)
<1>1. /\ i \in Nat /\ j \in Nat /\ I \in SUBSET DOMAIN s /\ J \in SUBSET DOMAIN s
      /\ I \in SUBSET J /\ i \in I /\ I \ {i} = 1..(i - 1)
  OBVIOUS
<1> HIDE DEF I, J
<1>2. Suma(s, I) = s[i] + Suma(s, I \ {i}) /\ s[i] \in Nat /\ Suma(s, I \ {i}) \in Nat
  BY <1>1, SumaLugar
<1>3. Suma(s, I) <= Suma(s, J)
  <2>1. IsFiniteSet(J) /\ \A k \in J : s[k] \in Nat
    BY <1>1, Lugares
  <2> QED
    BY <1>1, <2>1, SumaCrece DEF Suma
<1>4. Suma(s, J) \in Nat
  BY <1>1, Lugares
<1>5. /\ BaseYLimite(i, s).Limit = Suma(s, I \ {i}) + s[i] - 1
      /\ BaseYLimite(j, s).Base = Suma(s, J)
  BY <1>1, BaseYLimiteTipo DEF J
<1>6. PICK a \in Nat, b \in Nat, c \in Nat : a = Suma(s, I \ {i}) /\ b = s[i] /\ c = Suma(s, J)
  BY <1>2, <1>4
<1>7. b + a <= c
  BY <1>2, <1>3, <1>6
<1>8. a + b - 1 < c
  BY <1>7
<1> QED
  BY <1>5, <1>6, <1>8

\* With fixed partitions their sizes do not change, and no request compacts.
LEMMA FijasIguales ==
  ASSUME EsquemaMemoria = "FIJAS", IInv, [Next]_vars
  PROVE  particiones' = particiones
<1>1. ~Compactacion
  BY DEF Compactacion, IInv, Turno
<1>2. CASE UNCHANGED vars
  BY <1>2 DEF vars, tabla
<1>3. CASE CreateProcess
  BY <1>3 DEF CreateProcess, Instalar, tabla
<1>4. ASSUME NEW pid \in DOMAIN mapPCBPorParticion, TerminateProcess(pid)
      PROVE  particiones' = particiones
  BY <1>4 DEF TerminateProcess, Liberar
<1> QED
  BY <1>1, <1>2, <1>3, <1>4
     DEF Next, Pedir, CreateThread, UpdateExecutionContext, TerminateThread, WriteMemory, tabla

\* The tables of a process that ends, with fixed partitions.
LEMMA TerminateFijas ==
  ASSUME EsquemaMemoria = "FIJAS", NEW pid \in DOMAIN mapPCBPorParticion, TerminateProcess(pid)
  PROVE  /\ mapParticiones' = [mapParticiones EXCEPT ![mapPCBPorParticion[pid]] = FALSE]
         /\ mapPCBPorParticion' = SinClave(mapPCBPorParticion, pid)
         /\ mapPIDxBaseLimit' = SinClave(mapPIDxBaseLimit, pid)
         /\ particiones' = particiones
BY DEF TerminateProcess, Liberar

\* The table of a new process, with fixed partitions.
LEMMA CreateFijas ==
  ASSUME EsquemaMemoria = "FIJAS", IInv, CreateProcess
  PROVE  \/ UNCHANGED <<tabla, mapPIDxBaseLimit>>
         \/ \E n \in Entran(pedido.size) :
              /\ mapPCBPorParticion' = [p \in DOMAIN mapPCBPorParticion \cup {pedido.pid} |->
                                          IF p = pedido.pid THEN n ELSE mapPCBPorParticion[p]]
              /\ mapPIDxBaseLimit' = [p \in DOMAIN mapPIDxBaseLimit \cup {pedido.pid} |->
                    IF p = pedido.pid THEN BaseYLimite(n, particiones') ELSE mapPIDxBaseLimit[p]]
<1>1. CASE Entran(pedido.size) # {}
  <2>1. particiones \in Seq(Nat)
    BY DEF IInv, Tablas, TablaOK
  <2>2. asignarPorAlgoritmo(pedido.size) \in Entran(pedido.size)
    BY <1>1, <2>1, AsignarEncuentra
  <2> DEFINE n == asignarPorAlgoritmo(pedido.size)
  <2>3. Instalar(n)
    BY <1>1 DEF CreateProcess
  <2> HIDE DEF n
  <2>4. /\ mapPCBPorParticion' = [p \in DOMAIN mapPCBPorParticion \cup {pedido.pid} |->
                                    IF p = pedido.pid THEN n ELSE mapPCBPorParticion[p]]
        /\ mapPIDxBaseLimit' = [p \in DOMAIN mapPIDxBaseLimit \cup {pedido.pid} |->
              IF p = pedido.pid THEN BaseYLimite(n, particiones') ELSE mapPIDxBaseLimit[p]]
    BY <2>3, Zenon DEF Instalar
  <2>5. n \in Entran(pedido.size)
    BY <2>2 DEF n
  <2> QED
    BY <2>4, <2>5
<1>2. CASE Entran(pedido.size) = {}
  BY <1>2 DEF CreateProcess, ContestarSinLugar
<1> QED
  BY <1>1, <1>2

\* The steps that change the table of a process, with fixed partitions.
LEMMA PasosFijas ==
  ASSUME EsquemaMemoria = "FIJAS", IInv, [Next]_vars
  PROVE  \/ UNCHANGED <<tabla, mapPIDxBaseLimit>>
         \/ CreateProcess
         \/ \E pid \in DOMAIN mapPCBPorParticion : TerminateProcess(pid)
<1>1. ~Compactacion
  BY DEF Compactacion, IInv, Turno
<1> QED
  BY <1>1 DEF Next, vars, Pedir, CreateThread, UpdateExecutionContext, TerminateThread, WriteMemory

\* The base and limit of a process stay those of its partition.
LEMMA SuParticionPaso ==
  ASSUME EsquemaMemoria = "FIJAS", IInv, SuParticion, [Next]_vars
  PROVE  SuParticion'
<1>0. /\ particiones' = particiones
      /\ mapPIDxBaseLimit \in [DOMAIN mapPCBPorParticion -> BaseLimits]
      /\ DOMAIN mapPIDxBaseLimit = DOMAIN mapPCBPorParticion
  BY FijasIguales DEF IInv, Resto
<1>1. CASE UNCHANGED <<tabla, mapPIDxBaseLimit>>
  BY <1>1 DEF SuParticion, tabla
<1>2. CASE CreateProcess
  <2>1. CASE UNCHANGED <<tabla, mapPIDxBaseLimit>>
    BY <1>1, <2>1
  <2>2. ASSUME NEW n \in Entran(pedido.size),
               mapPCBPorParticion' = [p \in DOMAIN mapPCBPorParticion \cup {pedido.pid} |->
                                        IF p = pedido.pid THEN n ELSE mapPCBPorParticion[p]],
               mapPIDxBaseLimit' = [p \in DOMAIN mapPIDxBaseLimit \cup {pedido.pid} |->
                    IF p = pedido.pid THEN BaseYLimite(n, particiones') ELSE mapPIDxBaseLimit[p]]
        PROVE  SuParticion'
    <3> SUFFICES ASSUME NEW p \in DOMAIN mapPCBPorParticion'
                 PROVE  mapPIDxBaseLimit'[p] = BaseYLimite(mapPCBPorParticion'[p], particiones')
      BY DEF SuParticion
    <3>1. CASE p = pedido.pid
      <4>1. mapPCBPorParticion'[p] = n /\ mapPIDxBaseLimit'[p] = BaseYLimite(n, particiones')
        BY <1>0, <2>2, <3>1
      <4> QED
        BY <4>1
    <3>2. CASE p # pedido.pid
      <4>1. /\ p \in DOMAIN mapPCBPorParticion /\ mapPCBPorParticion'[p] = mapPCBPorParticion[p]
            /\ mapPIDxBaseLimit'[p] = mapPIDxBaseLimit[p]
        BY <1>0, <2>2, <3>2
      <4> QED
        BY <1>0, <4>1 DEF SuParticion
    <3> QED
      BY <3>1, <3>2
  <2> QED
    BY <1>2, <2>1, <2>2, CreateFijas
<1>3. ASSUME NEW pid \in DOMAIN mapPCBPorParticion, TerminateProcess(pid)
      PROVE  SuParticion'
  <2>1. /\ mapPCBPorParticion' = SinClave(mapPCBPorParticion, pid)
        /\ mapPIDxBaseLimit' = SinClave(mapPIDxBaseLimit, pid)
    BY <1>3, TerminateFijas
  <2>2. /\ DOMAIN mapPCBPorParticion' = DOMAIN mapPCBPorParticion \ {pid}
        /\ \A p \in DOMAIN mapPCBPorParticion \ {pid} :
             /\ mapPCBPorParticion'[p] = mapPCBPorParticion[p]
             /\ mapPIDxBaseLimit'[p] = mapPIDxBaseLimit[p]
    BY <1>0, <2>1 DEF SinClave, Restrict
  <2> QED
    BY <1>0, <2>2 DEF SuParticion
<1> QED
  BY <1>1, <1>2, <1>3, PasosFijas

\* With fixed partitions, the base and limit of a process are those of its partition.
THEOREM FijasSuParticion ==
  ASSUME EsquemaMemoria = "FIJAS"
  PROVE  Spec => []SuParticion
<1>1. Init => SuParticion
  BY DEF Init, SuParticion
<1>2. IInv /\ SuParticion /\ [Next]_vars => SuParticion'
  BY SuParticionPaso
<1> QED
  BY <1>1, <1>2, Invariante, PTL DEF Spec

\* With fixed partitions, a process that ends gives back its partition and
\* nothing else changes.
THEOREM FijasLiberaSuEspacio ==
  ASSUME EsquemaMemoria = "FIJAS"
  PROVE  Spec => LiberaSuEspacio
<1> DEFINE A == \A p \in DOMAIN mapPCBPorParticion :
                  p \notin DOMAIN mapPCBPorParticion' =>
                    EspacioLibre' = EspacioLibre + particiones[mapPCBPorParticion[p]]
<1>1. IInv /\ [Next]_vars => [A]_vars
  <2> SUFFICES ASSUME IInv, [Next]_vars, NEW p \in DOMAIN mapPCBPorParticion,
                      p \notin DOMAIN mapPCBPorParticion'
               PROVE  EspacioLibre' = EspacioLibre + particiones[mapPCBPorParticion[p]]
    BY Zenon
  <2> DEFINE n == mapPCBPorParticion[p]
  <2>1. TerminateProcess(p)
    <3>1. ~UNCHANGED <<tabla, mapPIDxBaseLimit>>
      BY DEF tabla
    <3>2. ~CreateProcess
      <4> SUFFICES ASSUME CreateProcess PROVE FALSE
        OBVIOUS
      <4> QED
        BY <3>1, CreateFijas
    <3>3. PICK pid \in DOMAIN mapPCBPorParticion : TerminateProcess(pid)
      BY <3>1, <3>2, PasosFijas
    <3>4. mapPCBPorParticion' = SinClave(mapPCBPorParticion, pid)
      BY <3>3, TerminateFijas
    <3>5. DOMAIN mapPCBPorParticion' = DOMAIN mapPCBPorParticion \ {pid}
      BY <3>4 DEF SinClave, Restrict
    <3>6. p = pid
      BY <3>5
    <3> QED
      BY <3>3, <3>6
  <2>2. particiones' = particiones /\ mapParticiones' = [mapParticiones EXCEPT ![n] = FALSE]
    BY <2>1, TerminateFijas
  <2>3. /\ particiones \in Seq(Nat) /\ mapParticiones \in Seq(BOOLEAN)
        /\ n \in DOMAIN particiones /\ DOMAIN mapParticiones = DOMAIN particiones /\ mapParticiones[n]
    <3>1. TablaOK(particiones, mapParticiones, mapPCBPorParticion)
      BY DEF IInv, Tablas
    <3>2. particiones \in Seq(Nat) /\ mapParticiones \in Seq(BOOLEAN) /\ Len(mapParticiones) = Len(particiones)
      BY <3>1 DEF TablaOK
    <3>3. DOMAIN mapParticiones = DOMAIN particiones
      BY <3>2
    <3> QED
      BY <3>1, <3>2, <3>3 DEF TablaOK
  <2> HIDE DEF n
  <2>4. Libres' \in SUBSET DOMAIN particiones /\ n \in Libres' /\ Libres' \ {n} = Libres
    BY <2>2, <2>3 DEF Libres
  <2>5. /\ Suma(particiones, Libres') = particiones[n] + Suma(particiones, Libres' \ {n})
        /\ particiones[n] \in Nat /\ Suma(particiones, Libres' \ {n}) \in Nat
    BY <2>3, <2>4, SumaLugar
  <2>6. EspacioLibre' = Suma(particiones, Libres')
    BY <2>2 DEF EspacioLibre
  <2>7. PICK x \in Nat, y \in Nat : x = particiones[n] /\ y = Suma(particiones, Libres' \ {n})
    BY <2>5
  <2>8. EspacioLibre' = x + y /\ EspacioLibre = y
    BY <2>4, <2>5, <2>6, <2>7 DEF EspacioLibre
  <2>9. x + y = y + x
    OBVIOUS
  <2> QED
    BY <2>7, <2>8, <2>9 DEF n
<1> QED
  BY <1>1, Invariante, PTL DEF Spec, LiberaSuEspacio

\* The bytes that a process writes are in its range.
LEMMA PalabraEnRango ==
  ASSUME mapPIDxBaseLimit \in [DOMAIN mapPCBPorParticion -> BaseLimits],
         NEW pid, NEW a \in Int, EnRango(pid, a), NEW b \in Palabra(pid, a)
  PROVE  /\ pid \in DOMAIN mapPCBPorParticion /\ b \in Int
         /\ mapPIDxBaseLimit[pid].Base <= b /\ b <= mapPIDxBaseLimit[pid].Limit
<1> DEFINE lo == mapPIDxBaseLimit[pid].Base
           hi == mapPIDxBaseLimit[pid].Limit
<1>1. pid \in DOMAIN mapPCBPorParticion /\ lo <= a /\ a <= hi
  BY DEF EnRango
<1>2. lo \in Int /\ hi \in Int
  BY <1>1 DEF BaseLimits
<1>3. b \in a..(a + (IF hi - a >= 4 THEN 4 ELSE hi - a) - 1)
  BY DEF Palabra
<1> HIDE DEF lo, hi
<1>4. b \in Int /\ lo <= b /\ b <= hi
  BY <1>1, <1>2, <1>3
<1> QED
  BY <1>1, <1>4 DEF lo, hi

\* With fixed partitions, nobody changes what a process wrote while it lives.
THEOREM FijasLoEscritoQueda ==
  ASSUME EsquemaMemoria = "FIJAS"
  PROVE  Spec => LoEscritoQueda
<1> DEFINE A == \A b \in DOMAIN MemoriaUsuario :
                  LET p == MemoriaUsuario[b]
                  IN (p \in DOMAIN mapPCBPorParticion /\ b \in mapPIDxBaseLimit[p].Base..mapPIDxBaseLimit[p].Limit)
                       => MemoriaUsuario'[b] = p
<1>1. IInv /\ SuParticion /\ [Next]_vars => [A]_vars
  <2> SUFFICES ASSUME IInv, SuParticion, [Next]_vars, NEW b \in DOMAIN MemoriaUsuario,
                      NEW p, p = MemoriaUsuario[b], p \in DOMAIN mapPCBPorParticion,
                      b \in mapPIDxBaseLimit[p].Base..mapPIDxBaseLimit[p].Limit
               PROVE  MemoriaUsuario'[b] = p
    BY Zenon
  <2>0. /\ mapPIDxBaseLimit \in [DOMAIN mapPCBPorParticion -> BaseLimits]
        /\ TablaOK(particiones, mapParticiones, mapPCBPorParticion)
    BY DEF IInv, Resto, Tablas
  <2>1. CASE MemoriaUsuario' = MemoriaUsuario
    BY <2>1
  <2>2. ASSUME NEW pid \in DOMAIN mapPIDxBaseLimit, NEW d \in Direcciones,
               WriteMemory(pid, mapPIDxBaseLimit[pid].Base + d)
        PROVE  MemoriaUsuario'[b] = p
    <3> DEFINE a == mapPIDxBaseLimit[pid].Base + d
    <3>1. EnRango(pid, a) /\ MemoriaUsuario' = [x \in DOMAIN MemoriaUsuario |->
                               IF x \in Palabra(pid, a) THEN pid ELSE MemoriaUsuario[x]]
      BY <2>2 DEF WriteMemory
    <3>2. a \in Int
      <4>1. mapPIDxBaseLimit[pid].Base \in Int /\ d \in Int
        BY <2>0, MemoriaAssumption DEF BaseLimits, MemoriaAssumption
      <4> QED
        BY <4>1
    <3> HIDE DEF a
    <3>3. CASE b \notin Palabra(pid, a)
      BY <3>1, <3>3
    <3>4. CASE b \in Palabra(pid, a)
      <4>1. /\ pid \in DOMAIN mapPCBPorParticion /\ b \in Int
            /\ mapPIDxBaseLimit[pid].Base <= b /\ b <= mapPIDxBaseLimit[pid].Limit
        BY <2>0, <3>1, <3>2, <3>4, PalabraEnRango
      <4>2. pid = p
        <5> SUFFICES ASSUME pid # p PROVE FALSE
          OBVIOUS
        <5> DEFINE i == mapPCBPorParticion[pid]
                   j == mapPCBPorParticion[p]
                   s == particiones
        <5>1. s \in Seq(Nat) /\ i \in DOMAIN s /\ j \in DOMAIN s /\ i # j
          BY <2>0, <4>1 DEF TablaOK
        <5>2. mapPIDxBaseLimit[pid] = BaseYLimite(i, s) /\ mapPIDxBaseLimit[p] = BaseYLimite(j, s)
          BY <4>1 DEF SuParticion
        <5> HIDE DEF i, j, s
        <5>3. /\ BaseYLimite(i, s) \in BaseLimits /\ BaseYLimite(j, s) \in BaseLimits
          BY <5>1, BaseYLimiteTipo
        <5>4. /\ BaseYLimite(i, s).Base <= b /\ b <= BaseYLimite(i, s).Limit
              /\ BaseYLimite(j, s).Base <= b /\ b <= BaseYLimite(j, s).Limit
          <6>1. b \in BaseYLimite(j, s).Base..BaseYLimite(j, s).Limit
            BY <5>2
          <6>2. BaseYLimite(j, s).Base \in Int /\ BaseYLimite(j, s).Limit \in Int
            BY <5>3 DEF BaseLimits
          <6> QED
            BY <4>1, <5>2, <6>1, <6>2
        <5>5. i < j \/ j < i
          BY <5>1
        <5>6. BaseYLimite(i, s).Limit < BaseYLimite(j, s).Base \/ BaseYLimite(j, s).Limit < BaseYLimite(i, s).Base
          BY <5>1, <5>5, RangosDisjuntos
        <5>7. /\ BaseYLimite(i, s).Base \in Int /\ BaseYLimite(i, s).Limit \in Int
              /\ BaseYLimite(j, s).Base \in Int /\ BaseYLimite(j, s).Limit \in Int
          BY <5>3 DEF BaseLimits
        <5> QED
          BY <4>1, <5>4, <5>6, <5>7
      <4> QED
        BY <3>1, <3>4, <4>2
    <3> QED
      BY <3>3, <3>4
  <2> QED
    BY <2>1, <2>2 DEF Next, vars, Pedir, CreateProcess, Compactacion, TerminateProcess,
                      CreateThread, UpdateExecutionContext, TerminateThread
<1> QED
  BY <1>1, FijasSuParticion, Invariante, PTL DEF Spec, LoEscritoQueda
==============================================================================
