-------------------------------- MODULE Sumas --------------------------------
(***************************************************************************)
(* Facts about the sum of a function over a finite set of indices          *)
(* (SumFunctionOnSet of the module Functions).  The sum is defined by      *)
(* recursion over the set; its equation is proved by induction on the      *)
(* number of indices, with a set in the place of the predicate.            *)
(***************************************************************************)
EXTENDS Integers, Functions, FiniteSets, FiniteSetTheorems, WellFoundedInduction, TLAPS

-----------------------------------------------------------------------------
(* Induction *)

\* A set of naturals with 0 and the successor of each of its members has all.
LEMMA InduccionNat ==
  ASSUME NEW P, 0 \in P, \A n \in Nat : n \in P => n + 1 \in P
  PROVE  Nat \subseteq P
<1> DEFINE T == Nat \ P
           R == {pq \in Nat \X Nat : pq[1] < pq[2]}
<1>1. IsWellFoundedOn(R, Nat)
  BY NatLessThanWellFounded DEF OpToRel
<1>2. SUFFICES ASSUME T # {} PROVE FALSE
  OBVIOUS
<1>3. PICK x \in T : \A y \in T : ~ (<<y, x>> \in R)
  <2> HIDE DEF R
  <2> QED
    BY <1>1, <1>2, WFMin
<1>4. x - 1 \in Nat /\ x = (x - 1) + 1
  BY <1>3
<1>5. x - 1 \notin T
  <2>1. <<x - 1, x>> \in R
    BY <1>4
  <2> QED
    BY <1>3, <2>1
<1> QED
  BY <1>3, <1>4, <1>5

-----------------------------------------------------------------------------
(* The equation of a sum *)

Elegido(t) == CHOOSE x \in t : TRUE
EsSuma(s, I, g) == g = [t \in SUBSET I |-> IF t = {} THEN 0 ELSE s[Elegido(t)] + g[t \ {Elegido(t)}]]

\* The definition, unfolded.
LEMMA SumaDef ==
  ASSUME NEW s, NEW I
  PROVE  SumFunctionOnSet(s, I) = (CHOOSE g : EsSuma(s, I, g))[I]
BY DEF SumFunctionOnSet, FoldFunctionOnSet, MapThenFoldSet, EsSuma, Elegido

\* One element less.
LEMMA UnoMenos ==
  ASSUME NEW t, IsFiniteSet(t), t # {}
  PROVE  /\ Elegido(t) \in t
         /\ IsFiniteSet(t \ {Elegido(t)})
         /\ Cardinality(t) \in Nat
         /\ Cardinality(t \ {Elegido(t)}) = Cardinality(t) - 1
<1>1. Elegido(t) \in t
  BY DEF Elegido
<1> QED
  BY <1>1, FS_RemoveElement, FS_CardinalityType

\* Partial sums, of the sets of at most n indices.
Parcial(s, I, n, g) ==
  g = [t \in {u \in SUBSET I : Cardinality(u) <= n} |->
         IF t = {} THEN 0 ELSE s[Elegido(t)] + g[t \ {Elegido(t)}]]

\* There is a function that satisfies the equation.
LEMMA SumaExiste ==
  ASSUME NEW s, NEW I, IsFiniteSet(I)
  PROVE  \E g : EsSuma(s, I, g)
<1> DEFINE P == {n \in Nat : \E g : Parcial(s, I, n, g)}
<1>0. \A t \in SUBSET I : IsFiniteSet(t) /\ Cardinality(t) \in Nat /\ Cardinality(t) <= Cardinality(I)
  BY FS_Subset, FS_CardinalityType
<1>1. 0 \in P
  <2> DEFINE g == [t \in {u \in SUBSET I : Cardinality(u) <= 0} |-> 0]
  <2>1. \A t \in SUBSET I : Cardinality(t) <= 0 => t = {}
    BY <1>0, FS_EmptySet
  <2>2. Parcial(s, I, 0, g)
    BY <2>1 DEF Parcial
  <2> QED
    BY <2>2
<1>2. ASSUME NEW n \in Nat, n \in P PROVE n + 1 \in P
  <2>1. PICK g : Parcial(s, I, n, g)
    BY <1>2
  <2> DEFINE A == {u \in SUBSET I : Cardinality(u) <= n}
             B == {u \in SUBSET I : Cardinality(u) <= n + 1}
             h == [t \in B |-> IF t \in A THEN g[t] ELSE s[Elegido(t)] + g[t \ {Elegido(t)}]]
  <2>2. \A t \in B : t # {} => t \ {Elegido(t)} \in A
    BY <1>0, UnoMenos
  <2>3. A \subseteq B
    BY <1>0
  <2>4. \A t \in A : g[t] = IF t = {} THEN 0 ELSE s[Elegido(t)] + g[t \ {Elegido(t)}]
    BY <2>1 DEF Parcial
  <2>5. {} \in A
    BY <1>0, FS_EmptySet
  <2>6. h = [t \in B |-> IF t = {} THEN 0 ELSE s[Elegido(t)] + h[t \ {Elegido(t)}]]
    <3>1. ASSUME NEW t \in B
          PROVE  h[t] = IF t = {} THEN 0 ELSE s[Elegido(t)] + h[t \ {Elegido(t)}]
      <4> HIDE DEF A, B
      <4> QED
        BY <2>2, <2>3, <2>4, <2>5
    <3> HIDE DEF A, B
    <3> QED
      BY <3>1, Zenon
  <2>7. Parcial(s, I, n + 1, h)
    BY <2>6 DEF Parcial
  <2> QED
    BY <2>7
<1>3. Cardinality(I) \in P
  BY <1>0, <1>1, <1>2, InduccionNat
<1>4. PICK g : Parcial(s, I, Cardinality(I), g)
  BY <1>3
<1>5. {u \in SUBSET I : Cardinality(u) <= Cardinality(I)} = SUBSET I
  BY <1>0
<1> QED
  BY <1>4, <1>5 DEF Parcial, EsSuma

\* Two functions that satisfy it agree where both are defined.
LEMMA SumaUnica ==
  ASSUME NEW s, NEW I, NEW J, IsFiniteSet(I), J \subseteq I, NEW g, NEW h, EsSuma(s, I, g), EsSuma(s, J, h)
  PROVE  \A t \in SUBSET J : g[t] = h[t]
<1> DEFINE P == {n \in Nat : \A t \in SUBSET J : Cardinality(t) = n => g[t] = h[t]}
<1>0. \A t \in SUBSET J : t \in SUBSET I /\ IsFiniteSet(t) /\ Cardinality(t) \in Nat
  BY FS_Subset, FS_CardinalityType
<1>1. \A t \in SUBSET J : /\ g[t] = IF t = {} THEN 0 ELSE s[Elegido(t)] + g[t \ {Elegido(t)}]
                          /\ h[t] = IF t = {} THEN 0 ELSE s[Elegido(t)] + h[t \ {Elegido(t)}]
  BY <1>0 DEF EsSuma
<1>2. 0 \in P
  BY <1>0, <1>1, FS_EmptySet
<1>3. ASSUME NEW n \in Nat, n \in P PROVE n + 1 \in P
  <2>1. ASSUME NEW t \in SUBSET J, Cardinality(t) = n + 1 PROVE g[t] = h[t]
    <3>1. t # {}
      BY <2>1, FS_EmptySet
    <3>2. t \ {Elegido(t)} \in SUBSET J /\ Cardinality(t \ {Elegido(t)}) = n
      BY <1>0, <2>1, <3>1, UnoMenos
    <3>3. g[t \ {Elegido(t)}] = h[t \ {Elegido(t)}]
      BY <1>3, <3>2
    <3> QED
      BY <1>1, <3>1, <3>3
  <2> QED
    BY <2>1
<1>4. Nat \subseteq P
  <2> HIDE DEF P
  <2> QED
    BY <1>2, <1>3, InduccionNat
<1> QED
  BY <1>0, <1>4

\* The sum over no indices, and over some.
LEMMA SumaEcuacion ==
  ASSUME NEW s, NEW I, IsFiniteSet(I)
  PROVE  /\ I = {} => SumFunctionOnSet(s, I) = 0
         /\ I # {} => SumFunctionOnSet(s, I) = s[Elegido(I)] + SumFunctionOnSet(s, I \ {Elegido(I)})
<1> DEFINE g == CHOOSE f : EsSuma(s, I, f)
           J == I \ {Elegido(I)}
           h == CHOOSE f : EsSuma(s, J, f)
<1>1. EsSuma(s, I, g) /\ SumFunctionOnSet(s, I) = g[I]
  BY SumaExiste, SumaDef
<1>2. IsFiniteSet(J) /\ J \subseteq I
  BY FS_Subset
<1>3. EsSuma(s, J, h) /\ SumFunctionOnSet(s, J) = h[J]
  <2> HIDE DEF J
  <2> QED
    BY <1>2, SumaExiste, SumaDef
<1>4. g[J] = h[J]
  <2> HIDE DEF g, h, J
  <2> QED
    BY <1>1, <1>2, <1>3, SumaUnica
<1>5. g[I] = IF I = {} THEN 0 ELSE s[Elegido(I)] + g[J]
  <2> HIDE DEF g
  <2> QED
    BY <1>1 DEF EsSuma
<1> QED
  BY <1>1, <1>3, <1>4, <1>5

-----------------------------------------------------------------------------
(* Properties of sums *)

\* The sum over no indices.
LEMMA SumaVacia == ASSUME NEW s PROVE SumFunctionOnSet(s, {}) = 0
  BY SumaEcuacion, FS_EmptySet

\* A sum of integers is an integer.
LEMMA SumaEntera ==
  ASSUME NEW s, NEW I, IsFiniteSet(I), \A i \in I : s[i] \in Int
  PROVE  SumFunctionOnSet(s, I) \in Int
<1> DEFINE P == {n \in Nat : \A J \in SUBSET I : Cardinality(J) = n => SumFunctionOnSet(s, J) \in Int}
<1>0. \A J \in SUBSET I : IsFiniteSet(J) /\ Cardinality(J) \in Nat
  BY FS_Subset, FS_CardinalityType
<1>1. 0 \in P
  BY <1>0, FS_EmptySet, SumaVacia
<1>2. ASSUME NEW n \in Nat, n \in P PROVE n + 1 \in P
  <2>1. ASSUME NEW J \in SUBSET I, Cardinality(J) = n + 1 PROVE SumFunctionOnSet(s, J) \in Int
    <3>1. J # {}
      BY <2>1, FS_EmptySet
    <3>2. Elegido(J) \in I /\ J \ {Elegido(J)} \in SUBSET I /\ Cardinality(J \ {Elegido(J)}) = n
      BY <1>0, <2>1, <3>1, UnoMenos
    <3>3. SumFunctionOnSet(s, J) = s[Elegido(J)] + SumFunctionOnSet(s, J \ {Elegido(J)})
      BY <1>0, <3>1, SumaEcuacion
    <3> QED
      BY <1>2, <3>2, <3>3
  <2> QED
    BY <2>1
<1>3. Nat \subseteq P
  <2> HIDE DEF P
  <2> QED
    BY <1>1, <1>2, InduccionNat
<1> QED
  BY <1>0, <1>3

\* Any index may be taken first.
LEMMA SumaMenosUno ==
  ASSUME NEW s, NEW I, IsFiniteSet(I), \A i \in I : s[i] \in Int, NEW x \in I
  PROVE  SumFunctionOnSet(s, I) = s[x] + SumFunctionOnSet(s, I \ {x})
<1> DEFINE P == {n \in Nat : \A J \in SUBSET I : Cardinality(J) = n =>
                   \A y \in J : SumFunctionOnSet(s, J) = s[y] + SumFunctionOnSet(s, J \ {y})}
<1>0. \A J \in SUBSET I : /\ IsFiniteSet(J) /\ Cardinality(J) \in Nat
                          /\ SumFunctionOnSet(s, J) \in Int
  BY FS_Subset, FS_CardinalityType, SumaEntera
<1>1. 0 \in P
  BY <1>0, FS_EmptySet
<1>2. ASSUME NEW n \in Nat, n \in P PROVE n + 1 \in P
  <2>1. ASSUME NEW J \in SUBSET I, Cardinality(J) = n + 1, NEW y \in J
        PROVE  SumFunctionOnSet(s, J) = s[y] + SumFunctionOnSet(s, J \ {y})
    <3>e. PICK e : e = Elegido(J)
      OBVIOUS
    <3>1. e \in J /\ J \ {e} \in SUBSET I /\ Cardinality(J \ {e}) = n
      BY <1>0, <2>1, <3>e, UnoMenos
    <3>2. SumFunctionOnSet(s, J) = s[e] + SumFunctionOnSet(s, J \ {e})
      BY <1>0, <2>1, <3>e, SumaEcuacion
    <3>3. CASE y = e
      BY <3>2, <3>3
    <3>4. CASE y # e
      <4>1. SumFunctionOnSet(s, J \ {e}) = s[y] + SumFunctionOnSet(s, (J \ {e}) \ {y})
        BY <1>2, <3>1, <3>4
      <4>2. J \ {y} \in SUBSET I /\ Cardinality(J \ {y}) = n /\ e \in J \ {y}
        BY <1>0, <2>1, <3>1, <3>4, FS_RemoveElement
      <4>3. SumFunctionOnSet(s, J \ {y}) = s[e] + SumFunctionOnSet(s, (J \ {y}) \ {e})
        BY <1>2, <4>2
      <4>4. (J \ {e}) \ {y} = (J \ {y}) \ {e} /\ (J \ {y}) \ {e} \in SUBSET I
        OBVIOUS
      <4>5. /\ SumFunctionOnSet(s, J \ {e}) \in Int /\ SumFunctionOnSet(s, J \ {y}) \in Int
            /\ SumFunctionOnSet(s, (J \ {y}) \ {e}) \in Int /\ s[e] \in Int /\ s[y] \in Int
        BY <1>0, <3>1, <4>2, <4>4
      <4>6. SumFunctionOnSet(s, J \ {e}) = s[y] + SumFunctionOnSet(s, (J \ {y}) \ {e})
        BY <4>1, <4>4, Zenon
      <4>7. SumFunctionOnSet(s, J) = s[e] + (s[y] + SumFunctionOnSet(s, (J \ {y}) \ {e}))
        BY <3>2, <4>6, Zenon
      <4>8. PICK a, b, c \in Int : a = s[e] /\ b = s[y] /\ c = SumFunctionOnSet(s, (J \ {y}) \ {e})
        BY <4>5
      <4>9. SumFunctionOnSet(s, J) = a + (b + c) /\ SumFunctionOnSet(s, J \ {y}) = a + c
        BY <4>3, <4>7, <4>8, Zenon
      <4>10. a + (b + c) = b + (a + c)
        BY <4>8
      <4> QED
        BY <4>8, <4>9, <4>10, Zenon
    <3> QED
      BY <3>3, <3>4
  <2> QED
    BY <2>1
<1>3. Nat \subseteq P
  <2> HIDE DEF P
  <2> QED
    BY <1>1, <1>2, InduccionNat
<1> QED
  BY <1>0, <1>3

\* Functions with the same values, taken at other indices, have the same sum.
LEMMA SumaRenombrada ==
  ASSUME NEW s, NEW I, IsFiniteSet(I), \A i \in I : s[i] \in Int,
         NEW t, NEW J, IsFiniteSet(J), \A j \in J : t[j] \in Int,
         NEW f \in [I -> J], \A j \in J : \E i \in I : f[i] = j,
         \A i, k \in I : f[i] = f[k] => i = k,
         \A i \in I : t[f[i]] = s[i]
  PROVE  SumFunctionOnSet(s, I) = SumFunctionOnSet(t, J)
<1> DEFINE Im(K) == {f[i] : i \in K}
           P == {n \in Nat : \A K \in SUBSET I : Cardinality(K) = n =>
                   SumFunctionOnSet(s, K) = SumFunctionOnSet(t, Im(K))}
<1>0. \A K \in SUBSET I : /\ IsFiniteSet(K) /\ Cardinality(K) \in Nat
                          /\ Im(K) \in SUBSET J /\ IsFiniteSet(Im(K))
  BY FS_Subset, FS_CardinalityType
<1>1. 0 \in P
  BY <1>0, FS_EmptySet, SumaVacia
<1>2. ASSUME NEW n \in Nat, n \in P PROVE n + 1 \in P
  <2>1. ASSUME NEW K \in SUBSET I, Cardinality(K) = n + 1
        PROVE  SumFunctionOnSet(s, K) = SumFunctionOnSet(t, Im(K))
    <3>1. PICK e : e = Elegido(K)
      OBVIOUS
    <3>k. IsFiniteSet(K) /\ K # {} /\ K \subseteq I /\ \A i \in K : s[i] \in Int
      <4> HIDE DEF P, Im
      <4> QED
        BY <1>0, <2>1, FS_EmptySet
    <3>2. e \in K /\ K \ {e} \in SUBSET I /\ Cardinality(K \ {e}) = n
      <4>1. Cardinality(K) = n + 1
        BY <2>1
      <4>2. e \in K /\ Cardinality(K \ {e}) = Cardinality(K) - 1
        BY <3>1, <3>k, UnoMenos, Zenon
      <4> HIDE DEF P, Im
      <4> QED
        BY <4>1, <4>2, <3>k
    <3>3. SumFunctionOnSet(s, K) = s[e] + SumFunctionOnSet(s, K \ {e})
      <4> HIDE DEF P, Im
      <4> QED
        BY <3>2, <3>k, SumaMenosUno
    <3>4. Im(K \ {e}) = Im(K) \ {f[e]} /\ f[e] \in Im(K)
      BY <3>2
    <3>5. SumFunctionOnSet(t, Im(K)) = t[f[e]] + SumFunctionOnSet(t, Im(K) \ {f[e]})
      <4>1. Im(K) \in SUBSET J /\ IsFiniteSet(Im(K))
        BY <1>0
      <4> HIDE DEF Im
      <4> QED
        BY <3>4, <4>1, SumaMenosUno
    <3>6. SumFunctionOnSet(s, K \ {e}) = SumFunctionOnSet(t, Im(K \ {e}))
      BY <1>2, <3>2
    <3> HIDE DEF Im
    <3> QED
      BY <3>2, <3>3, <3>4, <3>5, <3>6
  <2> QED
    BY <2>1
<1>3. Nat \subseteq P
  <2> HIDE DEF P
  <2> QED
    BY <1>1, <1>2, InduccionNat
<1>4. Im(I) = J
  OBVIOUS
<1> QED
  BY <1>0, <1>3, <1>4

\* Functions that agree on the indices have the same sum.
LEMMA SumaIgual ==
  ASSUME NEW s, NEW t, NEW I, IsFiniteSet(I), \A i \in I : s[i] \in Int /\ t[i] = s[i]
  PROVE  SumFunctionOnSet(s, I) = SumFunctionOnSet(t, I)
<1> DEFINE f == [i \in I |-> i]
<1>1. f \in [I -> I] /\ \A i \in I : f[i] = i
  OBVIOUS
<1> HIDE DEF f
<1> QED
  BY <1>1, SumaRenombrada

\* The sum over two sets with nothing in common.
LEMMA SumaDisjunta ==
  ASSUME NEW s, NEW I, NEW J, IsFiniteSet(I), IsFiniteSet(J), I \cap J = {},
         \A i \in I \cup J : s[i] \in Int
  PROVE  SumFunctionOnSet(s, I \cup J) = SumFunctionOnSet(s, I) + SumFunctionOnSet(s, J)
<1> DEFINE P == {n \in Nat : \A K \in SUBSET I : Cardinality(K) = n =>
                   SumFunctionOnSet(s, K \cup J) = SumFunctionOnSet(s, K) + SumFunctionOnSet(s, J)}
<1>0. \A K \in SUBSET I : /\ IsFiniteSet(K) /\ Cardinality(K) \in Nat /\ IsFiniteSet(K \cup J)
                          /\ SumFunctionOnSet(s, K) \in Int /\ SumFunctionOnSet(s, K \cup J) \in Int
  BY FS_Subset, FS_CardinalityType, FS_Union, SumaEntera
<1>j. SumFunctionOnSet(s, J) \in Int
  BY SumaEntera
<1>1. 0 \in P
  <2>1. \A K \in SUBSET I : Cardinality(K) = 0 => K = {} /\ K \cup J = J
    BY <1>0, FS_EmptySet
  <2> QED
    BY <1>j, <2>1, SumaVacia
<1>2. ASSUME NEW n \in Nat, n \in P PROVE n + 1 \in P
  <2>1. ASSUME NEW K \in SUBSET I, Cardinality(K) = n + 1
        PROVE  SumFunctionOnSet(s, K \cup J) = SumFunctionOnSet(s, K) + SumFunctionOnSet(s, J)
    <3>1. PICK e : e = Elegido(K)
      OBVIOUS
    <3>k. /\ IsFiniteSet(K) /\ K # {} /\ K \subseteq I /\ \A i \in K : s[i] \in Int
          /\ IsFiniteSet(K \cup J) /\ \A i \in K \cup J : s[i] \in Int
      BY <1>0, <2>1, FS_EmptySet
    <3>2. e \in K /\ K \ {e} \in SUBSET I /\ Cardinality(K \ {e}) = n /\ s[e] \in Int
      BY <2>1, <3>1, <3>k, UnoMenos
    <3>3. SumFunctionOnSet(s, K) = s[e] + SumFunctionOnSet(s, K \ {e})
      <4> HIDE DEF P
      <4> QED
        BY <3>2, <3>k, SumaMenosUno
    <3>4. (K \cup J) \ {e} = (K \ {e}) \cup J
      BY <3>2
    <3>5. SumFunctionOnSet(s, K \cup J) = s[e] + SumFunctionOnSet(s, (K \cup J) \ {e})
      <4> HIDE DEF P
      <4> QED
        BY <3>2, <3>k, SumaMenosUno
    <3>6. SumFunctionOnSet(s, (K \ {e}) \cup J) = SumFunctionOnSet(s, K \ {e}) + SumFunctionOnSet(s, J)
      BY <1>2, <3>2
    <3>7. SumFunctionOnSet(s, K \ {e}) \in Int
      BY <1>0, <3>2
    <3>8. SumFunctionOnSet(s, K \cup J) = s[e] + (SumFunctionOnSet(s, K \ {e}) + SumFunctionOnSet(s, J))
      BY <3>4, <3>5, <3>6
    <3> HIDE DEF P
    <3> QED
      BY <1>j, <3>2, <3>3, <3>7, <3>8
  <2> QED
    BY <2>1
<1>3. Nat \subseteq P
  <2> HIDE DEF P
  <2> QED
    BY <1>1, <1>2, InduccionNat
<1> QED
  BY <1>0, <1>3

\* A sum of naturals is a natural.
LEMMA SumaNatural ==
  ASSUME NEW s, NEW I, IsFiniteSet(I), \A i \in I : s[i] \in Nat
  PROVE  SumFunctionOnSet(s, I) \in Nat
<1> DEFINE P == {n \in Nat : \A K \in SUBSET I : Cardinality(K) = n => SumFunctionOnSet(s, K) \in Nat}
<1>0. \A K \in SUBSET I : IsFiniteSet(K) /\ Cardinality(K) \in Nat
  BY FS_Subset, FS_CardinalityType
<1>1. 0 \in P
  BY <1>0, FS_EmptySet, SumaVacia
<1>2. ASSUME NEW n \in Nat, n \in P PROVE n + 1 \in P
  <2>1. ASSUME NEW K \in SUBSET I, Cardinality(K) = n + 1 PROVE SumFunctionOnSet(s, K) \in Nat
    <3>1. K # {}
      BY <2>1, FS_EmptySet
    <3>2. Elegido(K) \in I /\ K \ {Elegido(K)} \in SUBSET I /\ Cardinality(K \ {Elegido(K)}) = n
      BY <1>0, <2>1, <3>1, UnoMenos
    <3>3. SumFunctionOnSet(s, K) = s[Elegido(K)] + SumFunctionOnSet(s, K \ {Elegido(K)})
      BY <1>0, <3>1, SumaEcuacion
    <3> QED
      BY <1>2, <3>2, <3>3
  <2> QED
    BY <2>1
<1>3. Nat \subseteq P
  <2> HIDE DEF P
  <2> QED
    BY <1>1, <1>2, InduccionNat
<1> QED
  BY <1>0, <1>3

\* A sum over fewer indices is not larger.
LEMMA SumaCrece ==
  ASSUME NEW s, NEW I, IsFiniteSet(I), \A i \in I : s[i] \in Nat, NEW J \in SUBSET I
  PROVE  SumFunctionOnSet(s, J) <= SumFunctionOnSet(s, I)
<1>1. IsFiniteSet(J) /\ IsFiniteSet(I \ J) /\ I = J \cup (I \ J)
  BY FS_Subset
<1>2. SumFunctionOnSet(s, J) \in Nat /\ SumFunctionOnSet(s, I \ J) \in Nat
  BY <1>1, SumaNatural
<1>3. SumFunctionOnSet(s, J \cup (I \ J)) = SumFunctionOnSet(s, J) + SumFunctionOnSet(s, I \ J)
  BY <1>1, SumaDisjunta
<1>4. SumFunctionOnSet(s, I) = SumFunctionOnSet(s, J) + SumFunctionOnSet(s, I \ J)
  BY <1>1, <1>3
<1> QED
  BY <1>2, <1>4
==============================================================================
