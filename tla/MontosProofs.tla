--------------------------- MODULE MontosProofs ---------------------------
(* The two components that add amounts up: payments and their allocations    *)
(* (Cobranzas), for any number of payments, charges and requests, and the    *)
(* distribution of the gastos (Distribucion), for any number of units,       *)
(* conceptos and gastos.                                                     *)
(*                                                                           *)
(* Sums.  Suma folds a sum over a set in no fixed order: Sobre names the sum *)
(* over part of the domain, and the lemmas say that it is well defined and   *)
(* may be taken apart in any order.  Each is proved by a least, or minimal,  *)
(* counterexample.                                                           *)
(*                                                                           *)
(* Cobranzas, the FIFO plan.  The loop of buildFIFOAllocations has paid,     *)
(* after charge c, the lesser of the payment and of all that is due up to c. *)
(*                                                                           *)
(* Cobranzas, the transactions.  CInv holds with any number of them: a       *)
(* payment that has left pendiente_revision never comes back, so what a      *)
(* transaction saw of its estado still excludes the two in which allocations *)
(* are forbidden when it commits.  The handlers lock no payment, so what a    *)
(* transaction read of the estado and deleted of the allocations is still    *)
(* true at its commit only if no other one has committed meanwhile (its      *)
(* reading is fresca); FInv says so, and follows the payments on which one   *)
(* has committed on a stale reading (desfasados) until they are repaired.    *)
(*                                                                           *)
(* Distribucion.  The conceptos are what folding the gastos one by one makes *)
(* (EsAgrupado); the sorted units are 1, 2, ... (CrecienteEs); and in the    *)
(* loop, DInv keeps the books: what was given out and what is left add up to *)
(* the amounts (Cuadra), and after k units the shares are at most k half     *)
(* cents and the errors of the quotients away from the exact ones, above     *)
(* them only while something was always left, for the clamp leaves nothing   *)
(* (Parcial).                                                                *)
EXTENDS Cobranzas, Distribucion, FiniteSetTheorems, WellFoundedInduction, TLAPS

-----------------------------------------------------------------------------
(* Sums *)

\* The sum of f over the finite set s, as FoldFunction computes it: Iter is its
\* equation, one function over the subsets of the set it sums over.
Sobre(f, T) == FoldFunctionOnSet(+, 0, f, T)
Escoge(s) == CHOOSE x \in s : TRUE
Iter(f, T, g) ==
    g = [s \in SUBSET T |-> IF s = {} THEN 0 ELSE f[Escoge(s)] + g[s \ {Escoge(s)}]]

\* A set of naturals has a least element.
LEMMA MinimoNat ==
  ASSUME NEW B \in SUBSET Nat, B # {}
  PROVE  \E n \in B : \A k \in B : n <= k
<1>1. \E n \in B : \A k \in B : ~(<<k, n>> \in OpToRel(<, Nat))
  BY WFMin, NatLessThanWellFounded
<1>2. \A n, k \in B : ~(<<k, n>> \in OpToRel(<, Nat)) => n <= k
  BY DEF OpToRel
<1> QED BY <1>1, <1>2

\* A set of finite sets has a minimal element.
LEMMA MinimoSub ==
  ASSUME NEW B, \A s \in B : IsFiniteSet(s), B # {}
  PROVE  \E s \in B : \A t \in B : t \subseteq s => t = s
<1>1. \A s \in B : Cardinality(s) \in Nat
  BY FS_CardinalityType
<1>2. PICK N : N = {Cardinality(s) : s \in B}
  OBVIOUS
<1>3. N \in SUBSET Nat /\ N # {}
  BY <1>1, <1>2
<1>4. PICK n \in N : \A k \in N : n <= k
  BY <1>3, MinimoNat
<1>5. PICK s \in B : n = Cardinality(s)
  BY <1>2
<1>6. ASSUME NEW t \in B, t \subseteq s PROVE t = s
  <2>1. Cardinality(t) <= Cardinality(s) /\ (Cardinality(s) = Cardinality(t) => s = t)
    BY <1>6, FS_Subset
  <2>2. Cardinality(s) <= Cardinality(t)
    BY <1>2, <1>4, <1>5
  <2> QED BY <1>1, <2>1, <2>2
<1> QED BY <1>6

\* No set holds only non-empty finite sets and, with each, what is left of it.
LEMMA Descenso ==
  ASSUME NEW B, \A s \in B : IsFiniteSet(s) /\ s # {} /\ s \ {Escoge(s)} \in B
  PROVE  B = {}
<1>1. \A s : s # {} => Escoge(s) \in s
  BY DEF Escoge
<1>2. ASSUME B # {} PROVE FALSE
  <2>1. \A s \in B : IsFiniteSet(s)
    OBVIOUS
  <2>2. PICK s \in B : \A t \in B : t \subseteq s => t = s
    BY <1>2, <2>1, MinimoSub
  <2>3. s # {} /\ s \ {Escoge(s)} \in B
    OBVIOUS
  <2>4. s \ {Escoge(s)} = s
    BY <2>2, <2>3
  <2> QED BY <1>1, <2>3, <2>4
<1> QED BY <1>2

\* Two solutions of the equation agree where both are defined.
LEMMA IterUnica ==
  ASSUME NEW f, NEW T, NEW U, NEW g, NEW h, Iter(f, T, g), Iter(f, U, h),
         NEW s \in SUBSET (T \cap U), IsFiniteSet(s)
  PROVE  g[s] = h[s]
<1>1. \A t : t # {} => Escoge(t) \in t
  BY DEF Escoge
<1>2. PICK B : B = {t \in SUBSET (T \cap U) : IsFiniteSet(t) /\ g[t] # h[t]}
  OBVIOUS
<1>3. ASSUME NEW t \in B PROVE IsFiniteSet(t) /\ t # {} /\ t \ {Escoge(t)} \in B
  <2>1. /\ g[t] = IF t = {} THEN 0 ELSE f[Escoge(t)] + g[t \ {Escoge(t)}]
        /\ h[t] = IF t = {} THEN 0 ELSE f[Escoge(t)] + h[t \ {Escoge(t)}]
    BY <1>2 DEF Iter
  <2>2. IsFiniteSet(t \ {Escoge(t)})
    BY <1>2, FS_RemoveElement
  <2> QED BY <1>2, <2>1, <2>2
<1>4. B = {}
  BY <1>3, Descenso
<1> QED BY <1>2, <1>4

\* The sum over T is the value at T of any solution of its equation.
LEMMA SobreEs ==
  ASSUME NEW f, NEW T, IsFiniteSet(T), NEW g, Iter(f, T, g)
  PROVE  Sobre(f, T) = g[T]
<1>1. Sobre(f, T) = (CHOOSE h : Iter(f, T, h))[T]
  BY DEF Sobre, FoldFunctionOnSet, MapThenFoldSet, Iter, Escoge
<1>2. Iter(f, T, CHOOSE h : Iter(f, T, h))
  OBVIOUS
<1> QED BY <1>1, <1>2, IterUnica

\* The equation has a solution over every finite set.
LEMMA IterExiste ==
  ASSUME NEW f, NEW T, IsFiniteSet(T)
  PROVE  \E g : Iter(f, T, g)
<1>1. \A t : t # {} => Escoge(t) \in t
  BY DEF Escoge
<1>2. PICK B : B = {t \in SUBSET T : ~\E g : Iter(f, t, g)}
  OBVIOUS
<1>3. \A t \in B : IsFiniteSet(t)
  BY <1>2, FS_Subset
<1>4. ASSUME NEW s \in B, \A t \in B : t \subseteq s => t = s PROVE FALSE
  <2>1. ASSUME NEW t \in SUBSET s, t # s
        PROVE  Sobre(f, t) = IF t = {} THEN 0 ELSE f[Escoge(t)] + Sobre(f, t \ {Escoge(t)})
    <3>1. PICK g : Iter(f, t, g)
      BY <1>2, <1>4, <2>1
    <3>2. IsFiniteSet(t) /\ IsFiniteSet(t \ {Escoge(t)})
      BY <1>2, <2>1, FS_Subset
    <3>3. g[t] = IF t = {} THEN 0 ELSE f[Escoge(t)] + g[t \ {Escoge(t)}]
      BY <3>1 DEF Iter
    <3>4. Sobre(f, t) = g[t]
      BY <3>1, <3>2, SobreEs
    <3>5. CASE t # {}
      <4>1. t \ {Escoge(t)} \in SUBSET s /\ t \ {Escoge(t)} # s
        BY <1>1, <2>1, <3>5
      <4>2. PICK h : Iter(f, t \ {Escoge(t)}, h)
        BY <1>2, <1>4, <4>1
      <4>3. Sobre(f, t \ {Escoge(t)}) = h[t \ {Escoge(t)}]
        BY <3>2, <4>2, SobreEs
      <4>4. g[t \ {Escoge(t)}] = h[t \ {Escoge(t)}]
        BY <3>1, <3>2, <4>2, IterUnica
      <4> QED BY <3>3, <3>4, <4>3, <4>4
    <3> QED BY <3>3, <3>4, <3>5
  <2>2. PICK g : g = [t \in SUBSET s |-> IF t = {} THEN 0
                                         ELSE f[Escoge(t)] + Sobre(f, t \ {Escoge(t)})]
    OBVIOUS
  <2>3. ASSUME NEW t \in SUBSET s, t # {}
        PROVE  g[t \ {Escoge(t)}] = Sobre(f, t \ {Escoge(t)})
    BY <1>1, <2>1, <2>2, <2>3
  <2>4. Iter(f, s, g)
    BY <2>2, <2>3 DEF Iter
  <2> QED BY <1>2, <2>4
<1>5. B = {}
  BY <1>3, <1>4, MinimoSub
<1> QED BY <1>2, <1>5

\* The sum over nothing, and over a set without one of its elements.
LEMMA SobrePaso ==
  ASSUME NEW f, NEW T, IsFiniteSet(T)
  PROVE  Sobre(f, T) = IF T = {} THEN 0 ELSE f[Escoge(T)] + Sobre(f, T \ {Escoge(T)})
<1>1. PICK g, h : Iter(f, T, g) /\ Iter(f, T \ {Escoge(T)}, h)
  BY IterExiste, FS_RemoveElement
<1>2. IsFiniteSet(T \ {Escoge(T)})
  BY FS_RemoveElement
<1>3. Sobre(f, T) = g[T] /\ Sobre(f, T \ {Escoge(T)}) = h[T \ {Escoge(T)}]
  BY <1>1, <1>2, SobreEs
<1>4. g[T \ {Escoge(T)}] = h[T \ {Escoge(T)}]
  BY <1>1, <1>2, IterUnica
<1>5. g[T] = IF T = {} THEN 0 ELSE f[Escoge(T)] + g[T \ {Escoge(T)}]
  BY <1>1 DEF Iter
<1> QED BY <1>3, <1>4, <1>5

\* The sum of naturals is a natural.
LEMMA SobreNat ==
  ASSUME NEW f, NEW T, IsFiniteSet(T), \A x \in T : f[x] \in Nat
  PROVE  Sobre(f, T) \in Nat
<1>1. \A t : t # {} => Escoge(t) \in t
  BY DEF Escoge
<1>2. PICK B : B = {t \in SUBSET T : Sobre(f, t) \notin Nat}
  OBVIOUS
<1>3. ASSUME NEW t \in B PROVE IsFiniteSet(t) /\ t # {} /\ t \ {Escoge(t)} \in B
  <2>1. IsFiniteSet(t)
    BY <1>2, FS_Subset
  <2>2. Sobre(f, t) = IF t = {} THEN 0 ELSE f[Escoge(t)] + Sobre(f, t \ {Escoge(t)})
    BY <2>1, SobrePaso
  <2>3. Sobre(f, t) \notin Nat /\ t \subseteq T
    BY <1>2
  <2>4. t # {}
    BY <2>2, <2>3
  <2>5. Sobre(f, t \ {Escoge(t)}) \notin Nat
    BY <1>1, <2>2, <2>3, <2>4
  <2> QED BY <1>2, <2>1, <2>3, <2>4, <2>5
<1>4. B = {}
  BY <1>3, Descenso
<1> QED BY <1>2, <1>4

\* Any element may be taken out of the sum.
LEMMA SobreSin ==
  ASSUME NEW f, NEW T, IsFiniteSet(T), \A x \in T : f[x] \in Nat, NEW x \in T
  PROVE  Sobre(f, T) = f[x] + Sobre(f, T \ {x})
<1>1. \A t : t # {} => Escoge(t) \in t
  BY DEF Escoge
<1>2. PICK B : B = {t \in SUBSET T : \E y \in t : Sobre(f, t) # f[y] + Sobre(f, t \ {y})}
  OBVIOUS
<1>3. \A t \in SUBSET T : IsFiniteSet(t) /\ Sobre(f, t) \in Nat
  <2>1. ASSUME NEW t \in SUBSET T PROVE IsFiniteSet(t)
    BY FS_Subset
  <2> QED BY <2>1, SobreNat
<1>4. ASSUME NEW s \in B, \A t \in B : t \subseteq s => t = s PROVE FALSE
  <2>1. PICK y \in s : Sobre(f, s) # f[y] + Sobre(f, s \ {y})
    BY <1>2
  <2>2. PICK e : e = Escoge(s) /\ e \in s
    BY <1>1
  <2>3. Sobre(f, s) = f[e] + Sobre(f, s \ {e})
    BY <1>2, <1>3, <2>2, SobrePaso
  <2>4. y # e /\ s \subseteq T
    BY <1>2, <2>1, <2>3
  <2>5. s \ {y} \notin B /\ s \ {e} \notin B
    BY <1>4, <2>1, <2>2
  <2>6. Sobre(f, s \ {e}) = f[y] + Sobre(f, (s \ {e}) \ {y})
    BY <1>2, <2>4, <2>5
  <2>7. Sobre(f, s \ {y}) = f[e] + Sobre(f, (s \ {y}) \ {e})
    BY <1>2, <2>2, <2>4, <2>5
  <2>8. (s \ {y}) \ {e} = (s \ {e}) \ {y}
    OBVIOUS
  <2>9. /\ f[e] \in Nat /\ f[y] \in Nat /\ Sobre(f, (s \ {e}) \ {y}) \in Nat
    BY <1>3, <2>2, <2>4
  <2> QED BY <2>1, <2>3, <2>6, <2>7, <2>8, <2>9
<1>5. \A t \in B : IsFiniteSet(t)
  BY <1>2, <1>3
<1>6. B = {}
  BY <1>4, <1>5, MinimoSub
<1> QED BY <1>2, <1>6

\* A sum is at most that of a function above it; equal ones have equal sums.
LEMMA SobreMonotona ==
  ASSUME NEW f, NEW g, NEW T, IsFiniteSet(T),
         \A x \in T : f[x] \in Nat /\ g[x] \in Nat /\ f[x] <= g[x]
  PROVE  Sobre(f, T) <= Sobre(g, T)
<1>1. \A t : t # {} => Escoge(t) \in t
  BY DEF Escoge
<1>2. PICK B : B = {t \in SUBSET T : ~(Sobre(f, t) <= Sobre(g, t))}
  OBVIOUS
<1>3. ASSUME NEW t \in B PROVE IsFiniteSet(t) /\ t # {} /\ t \ {Escoge(t)} \in B
  <2>1. IsFiniteSet(t) /\ IsFiniteSet(t \ {Escoge(t)}) /\ t \in SUBSET T
    BY <1>2, FS_Subset
  <2>2. /\ Sobre(f, t) = IF t = {} THEN 0 ELSE f[Escoge(t)] + Sobre(f, t \ {Escoge(t)})
        /\ Sobre(g, t) = IF t = {} THEN 0 ELSE g[Escoge(t)] + Sobre(g, t \ {Escoge(t)})
    BY <2>1, SobrePaso
  <2>3. Sobre(f, t \ {Escoge(t)}) \in Nat /\ Sobre(g, t \ {Escoge(t)}) \in Nat
    BY <2>1, SobreNat
  <2>4. t # {} /\ ~(Sobre(f, t) <= Sobre(g, t))
    BY <1>2, <2>2
  <2>5. ~(Sobre(f, t \ {Escoge(t)}) <= Sobre(g, t \ {Escoge(t)}))
    BY <1>1, <2>1, <2>2, <2>3, <2>4
  <2> QED BY <1>2, <2>1, <2>4, <2>5
<1>4. B = {}
  BY <1>3, Descenso
<1> QED BY <1>2, <1>4

LEMMA SobreIgual ==
  ASSUME NEW f, NEW g, NEW T, IsFiniteSet(T), \A x \in T : f[x] \in Nat /\ f[x] = g[x]
  PROVE  Sobre(f, T) = Sobre(g, T)
<1>1. Sobre(f, T) <= Sobre(g, T) /\ Sobre(g, T) <= Sobre(f, T)
  BY SobreMonotona
<1>2. Sobre(f, T) \in Nat /\ Sobre(g, T) \in Nat
  BY SobreNat
<1> QED BY <1>1, <1>2

\* Nothing adds up to nothing.
LEMMA SobreCero ==
  ASSUME NEW f, NEW T, IsFiniteSet(T), \A x \in T : f[x] = 0
  PROVE  Sobre(f, T) = 0
<1>1. \A t : t # {} => Escoge(t) \in t
  BY DEF Escoge
<1>2. PICK B : B = {t \in SUBSET T : Sobre(f, t) # 0}
  OBVIOUS
<1>3. ASSUME NEW t \in B PROVE IsFiniteSet(t) /\ t # {} /\ t \ {Escoge(t)} \in B
  <2>1. IsFiniteSet(t) /\ t \subseteq T /\ Sobre(f, t) # 0
    BY <1>2, FS_Subset
  <2>2. Sobre(f, t) = IF t = {} THEN 0 ELSE f[Escoge(t)] + Sobre(f, t \ {Escoge(t)})
    BY <2>1, SobrePaso
  <2>3. t # {}
    BY <2>1, <2>2
  <2>4. Sobre(f, t \ {Escoge(t)}) # 0
    BY <1>1, <2>1, <2>2, <2>3
  <2> QED BY <1>2, <2>1, <2>3, <2>4
<1>4. B = {}
  BY <1>3, Descenso
<1> QED BY <1>2, <1>4

\* The sum over a prefix of the naturals.
LEMMA SobrePrefijo ==
  ASSUME NEW f, NEW n \in Nat, \A k \in 1..n : f[k] \in Nat
  PROVE  /\ Sobre(f, 1..0) = 0
         /\ \A c \in 0..n : Sobre(f, 1..c) \in Nat
         /\ \A c \in 1..n : Sobre(f, 1..c) = Sobre(f, 1..(c-1)) + f[c]
<1>1. \A c \in 0..n : IsFiniteSet(1..c) /\ \A k \in 1..c : f[k] \in Nat
  BY FS_Interval
<1>2. ASSUME NEW c \in 0..n PROVE Sobre(f, 1..c) \in Nat
  BY <1>1, SobreNat
<1>3. ASSUME NEW c \in 1..n PROVE Sobre(f, 1..c) = Sobre(f, 1..(c-1)) + f[c]
  <2>1. Sobre(f, 1..c) = f[c] + Sobre(f, (1..c) \ {c})
    BY <1>1, SobreSin
  <2>2. (1..c) \ {c} = 1..(c-1) /\ c-1 \in 0..n
    OBVIOUS
  <2>3. f[c] \in Nat /\ Sobre(f, 1..(c-1)) \in Nat
    BY <1>2, <2>2
  <2>4. Sobre(f, 1..c) = f[c] + Sobre(f, 1..(c-1))
    BY <2>1, <2>2
  <2> QED BY <2>3, <2>4
<1>4. Sobre(f, 1..0) = 0
  <2>1. 1..0 = {} /\ IsFiniteSet({})
    BY FS_EmptySet
  <2> QED BY <2>1, SobreCero
<1> QED BY <1>2, <1>3, <1>4

\* A longer prefix has a larger sum.
LEMMA PrefijoCrece ==
  ASSUME NEW f, NEW n \in Nat, \A k \in 1..n : f[k] \in Nat, NEW c \in 0..n, NEW d \in c..n
  PROVE  Sobre(f, 1..c) <= Sobre(f, 1..d)
<1>1. PICK B : B = {e \in c..n : ~(Sobre(f, 1..c) <= Sobre(f, 1..e))}
  OBVIOUS
<1>2. \A e \in c..n : Sobre(f, 1..e) \in Nat
  <2>1. \A e \in 0..n : Sobre(f, 1..e) \in Nat
    BY SobrePrefijo
  <2>2. \A e \in c..n : e \in 0..n
    OBVIOUS
  <2> QED BY <2>1, <2>2
<1>3. ASSUME B # {} PROVE FALSE
  <2>1. B \in SUBSET Nat
    BY <1>1
  <2>2. PICK e \in B : \A k \in B : e <= k
    BY <1>3, <2>1, MinimoNat
  <2>3. e \in c..n /\ ~(Sobre(f, 1..c) <= Sobre(f, 1..e))
    BY <1>1
  <2>4. e # c
    BY <1>2, <2>3
  <2>5. e-1 \in c..n /\ e \in 1..n
    BY <2>3, <2>4
  <2>6. e-1 \notin B
    BY <2>2, <2>5
  <2>7. Sobre(f, 1..c) <= Sobre(f, 1..(e-1))
    BY <1>1, <2>5, <2>6
  <2>8. Sobre(f, 1..e) = Sobre(f, 1..(e-1)) + f[e] /\ f[e] \in Nat
    BY <2>5, SobrePrefijo
  <2>9. Sobre(f, 1..c) \in Nat /\ Sobre(f, 1..(e-1)) \in Nat
    BY <1>2, <2>5
  <2> QED BY <2>3, <2>7, <2>8, <2>9
<1> QED BY <1>1, <1>3

\* The sums of the first values of f, up to the one at c and before it.
LEMMA HastaUno ==
  ASSUME NEW f, NEW n \in Nat, \A m \in 1..n : f[m] \in Nat, NEW c \in 1..n
  PROVE  /\ Sobre(f, 1..c) = Sobre(f, 1..(c-1)) + f[c]
         /\ Sobre(f, 1..c) \in Nat /\ Sobre(f, 1..(c-1)) \in Nat
<1>1. /\ \A d \in 0..n : Sobre(f, 1..d) \in Nat
      /\ \A d \in 1..n : Sobre(f, 1..d) = Sobre(f, 1..(d-1)) + f[d]
  BY SobrePrefijo
<1>2. c \in 0..n /\ c-1 \in 0..n
  OBVIOUS
<1> QED BY <1>1, <1>2

\* One value of the sum changes.
LEMMA SobreCambia ==
  ASSUME NEW f, NEW g, NEW T, IsFiniteSet(T), NEW x \in T,
         \A y \in T : f[y] \in Nat /\ g[y] \in Nat,
         \A y \in T \ {x} : f[y] = g[y]
  PROVE  Sobre(g, T) + f[x] = Sobre(f, T) + g[x]
<1>1. Sobre(f, T) = f[x] + Sobre(f, T \ {x}) /\ Sobre(g, T) = g[x] + Sobre(g, T \ {x})
  BY SobreSin
<1>2. IsFiniteSet(T \ {x})
  BY FS_RemoveElement
<1>3. Sobre(f, T \ {x}) = Sobre(g, T \ {x})
  BY <1>2, SobreIgual
<1>4. Sobre(f, T \ {x}) \in Nat
  BY <1>2, SobreNat
<1> QED BY <1>1, <1>3, <1>4

-----------------------------------------------------------------------------
(* The FIFO plan *)

\* What payment p may pay of each charge, and the equation of the loop that pays it.
Abierto(p) == [c \in Cargos |-> IF c <= Corte[p] THEN SaldoDe(c) ELSE 0]
EsAplicado(p, g) ==
    g = [c \in 0..NCargos |->
           IF c = 0 THEN 0
           ELSE g[c-1] + Menor(IF c <= Corte[p] THEN SaldoDe(c) ELSE 0, Importe[p] - g[c-1])]
Aplicado(p) == CHOOSE g : EsAplicado(p, g)
Debido(p, c) == Sobre(Abierto(p), 1..c)

LEMMA FifoEs == \A p : Fifo(p) = [c \in Cargos |-> Aplicado(p)[c] - Aplicado(p)[c-1]]
  BY DEF Fifo, Aplicado, EsAplicado

\* What is due is a natural, prefix by prefix.
LEMMA DebidoNat ==
  ASSUME NEW p \in Pagos
  PROVE  /\ Importe[p] \in Nat /\ NCargos \in Nat
         /\ \A c \in Cargos : Abierto(p)[c] \in Nat
         /\ \A c \in Cargos : Abierto(p)[c] = IF c <= Corte[p] THEN SaldoDe(c) ELSE 0
         /\ Debido(p, 0) = 0
         /\ \A c \in 0..NCargos : Debido(p, c) \in Nat
         /\ \A c \in Cargos : Debido(p, c) = Debido(p, c-1) + Abierto(p)[c]
         /\ \A c \in 0..NCargos : \A d \in c..NCargos : Debido(p, c) <= Debido(p, d)
<1>1. Importe[p] \in Nat /\ NCargos \in Nat
  BY MontosAssumption, NCargosAssumption
<1>2. \A c \in Cargos : /\ Abierto(p)[c] = IF c <= Corte[p] THEN SaldoDe(c) ELSE 0
                        /\ Abierto(p)[c] \in Nat
  BY MontosAssumption DEF Abierto, SaldoDe
<1>3. \A k \in 1..NCargos : Abierto(p)[k] \in Nat
  BY <1>2 DEF Cargos
<1>4. /\ Debido(p, 0) = 0
      /\ \A c \in 0..NCargos : Debido(p, c) \in Nat
      /\ \A c \in Cargos : Debido(p, c) = Debido(p, c-1) + Abierto(p)[c]
  BY <1>1, <1>3, SobrePrefijo DEF Debido, Cargos
<1>5. \A c \in 0..NCargos : \A d \in c..NCargos : Debido(p, c) <= Debido(p, d)
  BY <1>1, <1>3, PrefijoCrece DEF Debido
<1> QED BY <1>1, <1>2, <1>4, <1>5

\* The loop has paid, after charge c, all that is due up to c or the whole payment.
LEMMA AplicadoCerrado ==
  ASSUME NEW p \in Pagos, NEW g, EsAplicado(p, g), NEW c \in 0..NCargos
  PROVE  g[c] = Menor(Importe[p], Debido(p, c))
<1>1. /\ Importe[p] \in Nat /\ NCargos \in Nat /\ Debido(p, 0) = 0
      /\ \A d \in 0..NCargos : Debido(p, d) \in Nat
      /\ \A d \in Cargos : /\ Debido(p, d) = Debido(p, d-1) + Abierto(p)[d]
                           /\ Abierto(p)[d] = IF d <= Corte[p] THEN SaldoDe(d) ELSE 0
                           /\ Abierto(p)[d] \in Nat
  BY DebidoNat
<1>2. PICK B : B = {d \in 0..NCargos : g[d] # Menor(Importe[p], Debido(p, d))}
  OBVIOUS
<1>3. ASSUME B # {} PROVE FALSE
  <2>1. B \in SUBSET Nat
    BY <1>1, <1>2
  <2>2. PICK d \in B : \A k \in B : d <= k
    BY <1>3, <2>1, MinimoNat
  <2>3. d \in 0..NCargos /\ g[d] # Menor(Importe[p], Debido(p, d))
    BY <1>2
  <2>4. d # 0
    BY <1>1, <2>3 DEF EsAplicado, Menor
  <2>5. d-1 \in 0..NCargos /\ d \in Cargos
    BY <1>1, <2>3, <2>4 DEF Cargos
  <2>6. g[d-1] = Menor(Importe[p], Debido(p, d-1))
    BY <1>1, <1>2, <2>2, <2>5
  <2>7. g[d] = g[d-1] + Menor(Abierto(p)[d], Importe[p] - g[d-1])
    BY <1>1, <2>3, <2>4, <2>5 DEF EsAplicado
  <2>8. /\ Debido(p, d) = Debido(p, d-1) + Abierto(p)[d]
        /\ Debido(p, d-1) \in Nat /\ Abierto(p)[d] \in Nat
    BY <1>1, <2>5
  <2> QED BY <1>1, <2>3, <2>6, <2>7, <2>8 DEF Menor
<1> QED BY <1>2, <1>3

\* The loop ends: its equation has a solution.
LEMMA AplicadoExiste ==
  ASSUME NEW p \in Pagos
  PROVE  EsAplicado(p, Aplicado(p))
<1>1. /\ Importe[p] \in Nat /\ NCargos \in Nat /\ Debido(p, 0) = 0
      /\ \A d \in 0..NCargos : Debido(p, d) \in Nat
      /\ \A d \in Cargos : /\ Debido(p, d) = Debido(p, d-1) + Abierto(p)[d]
                           /\ Abierto(p)[d] = IF d <= Corte[p] THEN SaldoDe(d) ELSE 0
                           /\ Abierto(p)[d] \in Nat
  BY DebidoNat
<1>2. PICK g : g = [c \in 0..NCargos |-> Menor(Importe[p], Debido(p, c))]
  OBVIOUS
<1>3. ASSUME NEW c \in 0..NCargos, c # 0
      PROVE  g[c] = g[c-1] + Menor(IF c <= Corte[p] THEN SaldoDe(c) ELSE 0,
                                   Importe[p] - g[c-1])
  <2>1. c-1 \in 0..NCargos /\ c \in Cargos
    BY <1>1, <1>3 DEF Cargos
  <2>2. g[c] = Menor(Importe[p], Debido(p, c)) /\ g[c-1] = Menor(Importe[p], Debido(p, c-1))
    BY <1>2, <2>1
  <2>3. PICK a : a = (IF c <= Corte[p] THEN SaldoDe(c) ELSE 0) /\ a \in Nat
                 /\ Debido(p, c) = Debido(p, c-1) + a /\ Debido(p, c-1) \in Nat
    BY <1>1, <2>1
  <2>4. g[c] = g[c-1] + Menor(a, Importe[p] - g[c-1])
    BY <1>1, <2>2, <2>3 DEF Menor
  <2> QED BY <2>3, <2>4
<1>4. 0 \in 0..NCargos /\ Menor(Importe[p], Debido(p, 0)) = 0
  BY <1>1 DEF Menor
<1>5. g[0] = 0
  BY <1>2, <1>4
<1>6. EsAplicado(p, g)
  BY <1>2, <1>3, <1>5 DEF EsAplicado
<1> QED BY <1>6 DEF Aplicado

\* What buildFIFOAllocations pays of each charge.
LEMMA FifoPaga ==
  ASSUME NEW p \in Pagos
  PROVE  /\ Fifo(p) \in [Cargos -> Nat]
         /\ \A c \in Cargos : Fifo(p)[c] = Menor(Importe[p], Debido(p, c))
                                         - Menor(Importe[p], Debido(p, c-1))
<1>1. /\ Importe[p] \in Nat /\ NCargos \in Nat /\ Debido(p, 0) = 0
      /\ \A d \in 0..NCargos : Debido(p, d) \in Nat
      /\ \A d \in Cargos : /\ Debido(p, d) = Debido(p, d-1) + Abierto(p)[d]
                           /\ Abierto(p)[d] \in Nat
  BY DebidoNat
<1>2. \A c \in 0..NCargos : Aplicado(p)[c] = Menor(Importe[p], Debido(p, c))
  BY AplicadoExiste, AplicadoCerrado
<1>3. ASSUME NEW c \in Cargos
      PROVE  /\ Fifo(p)[c] = Menor(Importe[p], Debido(p, c))
                              - Menor(Importe[p], Debido(p, c-1))
             /\ Fifo(p)[c] \in Nat
  <2>1. c \in 0..NCargos /\ c-1 \in 0..NCargos
    BY <1>1 DEF Cargos
  <2>2. Fifo(p)[c] = Menor(Importe[p], Debido(p, c)) - Menor(Importe[p], Debido(p, c-1))
    BY <1>2, <2>1, FifoEs
  <2>3. Debido(p, c) = Debido(p, c-1) + Abierto(p)[c] /\ Debido(p, c-1) \in Nat
        /\ Abierto(p)[c] \in Nat
    BY <1>1, <2>1
  <2> QED BY <1>1, <2>2, <2>3 DEF Menor
<1>4. Fifo(p) = [c \in Cargos |-> Fifo(p)[c]]
  BY FifoEs
<1> QED BY <1>3, <1>4

\* The sum of an allocation is a sum over the charges in their order.
LEMMA SumaPrefijo ==
  ASSUME NEW f \in [Cargos -> Nat]
  PROVE  /\ Suma(f) = Sobre(f, 1..NCargos) /\ Suma(f) \in Nat
<1>1. IsFiniteSet(1..NCargos) /\ DOMAIN f = 1..NCargos
  BY NCargosAssumption, FS_Interval DEF Cargos
<1>2. Suma(f) = Sobre(f, 1..NCargos)
  BY <1>1 DEF Suma, FoldFunction, Sobre
<1>3. Sobre(f, 1..NCargos) \in Nat
  BY <1>1, SobreNat DEF Cargos
<1> QED BY <1>2, <1>3

\* In all, it pays what is due or the whole payment.
LEMMA FifoSuma ==
  ASSUME NEW p \in Pagos
  PROVE  Suma(Fifo(p)) = Menor(Importe[p], Debido(p, NCargos))
<1>1. /\ Importe[p] \in Nat /\ NCargos \in Nat /\ Debido(p, 0) = 0
      /\ \A d \in 0..NCargos : Debido(p, d) \in Nat
  BY DebidoNat
<1>2. PICK f : f = Fifo(p) /\ f \in [Cargos -> Nat]
               /\ \A c \in Cargos : f[c] = Menor(Importe[p], Debido(p, c))
                                         - Menor(Importe[p], Debido(p, c-1))
  BY FifoPaga
<1>3. /\ Sobre(f, 1..0) = 0
      /\ \A c \in Cargos : Sobre(f, 1..c) = Sobre(f, 1..(c-1)) + f[c]
  BY <1>1, <1>2, SobrePrefijo DEF Cargos
<1>4. PICK B : B = {c \in 0..NCargos : Sobre(f, 1..c) # Menor(Importe[p], Debido(p, c))}
  OBVIOUS
<1>5. ASSUME B # {} PROVE FALSE
  <2>1. B \in SUBSET Nat
    BY <1>1, <1>4
  <2>2. PICK d \in B : \A k \in B : d <= k
    BY <1>5, <2>1, MinimoNat
  <2>3. d \in 0..NCargos /\ Sobre(f, 1..d) # Menor(Importe[p], Debido(p, d))
    BY <1>4
  <2>4. d # 0
    BY <1>1, <1>3, <2>3 DEF Menor
  <2>5. d-1 \in 0..NCargos /\ d \in Cargos
    BY <1>1, <2>3, <2>4 DEF Cargos
  <2>6. Sobre(f, 1..(d-1)) = Menor(Importe[p], Debido(p, d-1))
    BY <1>1, <1>4, <2>2, <2>5
  <2>7. Sobre(f, 1..d) = Sobre(f, 1..(d-1)) + f[d]
        /\ f[d] = Menor(Importe[p], Debido(p, d)) - Menor(Importe[p], Debido(p, d-1))
    BY <1>2, <1>3, <2>5
  <2>8. Debido(p, d) \in Nat /\ Debido(p, d-1) \in Nat
    BY <1>1, <2>3, <2>5
  <2> QED BY <1>1, <2>3, <2>6, <2>7, <2>8 DEF Menor
<1>6. NCargos \in 0..NCargos
  BY <1>1
<1>7. Suma(f) = Sobre(f, 1..NCargos)
  BY <1>2, SumaPrefijo
<1> QED BY <1>2, <1>4, <1>5, <1>6, <1>7

\* The plan pays the oldest charges first.
LEMMA FifoEnOrden ==
  ASSUME NEW p \in Pagos
  PROVE  AntiguosPrimero(p, Fifo(p))
<1>1. /\ Importe[p] \in Nat /\ NCargos \in Nat
      /\ \A d \in 0..NCargos : Debido(p, d) \in Nat
      /\ \A d \in Cargos : /\ Debido(p, d) = Debido(p, d-1) + Abierto(p)[d]
                           /\ Abierto(p)[d] \in Nat
      /\ \A c \in 0..NCargos : \A d \in c..NCargos : Debido(p, c) <= Debido(p, d)
  BY DebidoNat
<1>2. PICK f : f = Fifo(p) /\ \A c \in Cargos : f[c] = Menor(Importe[p], Debido(p, c))
                                                     - Menor(Importe[p], Debido(p, c-1))
  BY FifoPaga
<1>3. \A c \in Cargos : c-1 \in 0..NCargos /\ c \in 0..NCargos
  BY <1>1 DEF Cargos
<1>4. \A c \in Cargos : f[c] <= Abierto(p)[c]
  BY <1>1, <1>2, <1>3 DEF Menor
<1>5. ASSUME NEW c \in Cargos, NEW d \in Cargos, c < d, f[d] > 0 PROVE f[c] = Abierto(p)[c]
  <2>1. d-1 \in c..NCargos /\ c \in 0..NCargos /\ c-1 \in 0..NCargos /\ d \in 0..NCargos
    BY <1>1, <1>5 DEF Cargos
  <2>2. Debido(p, c) <= Debido(p, d-1) /\ Debido(p, d-1) \in Nat /\ Debido(p, d) \in Nat
    BY <1>1, <1>3, <2>1
  <2>3. Debido(p, d) = Debido(p, d-1) + Abierto(p)[d] /\ Abierto(p)[d] \in Nat
    BY <1>1
  <2>4. Debido(p, d-1) < Importe[p]
    BY <1>1, <1>2, <1>5, <2>2, <2>3 DEF Menor
  <2>5. Debido(p, c) = Debido(p, c-1) + Abierto(p)[c] /\ Abierto(p)[c] \in Nat
        /\ Debido(p, c-1) \in Nat /\ Debido(p, c) \in Nat
    BY <1>1, <2>1
  <2>6. f[c] = Menor(Importe[p], Debido(p, c)) - Menor(Importe[p], Debido(p, c-1))
    BY <1>2
  <2> QED BY <1>1, <2>2, <2>4, <2>5, <2>6 DEF Menor
<1>6. Suma(f) = Menor(Importe[p], Suma(Abierto(p)))
  <2>1. Abierto(p) \in [Cargos -> Nat]
    BY <1>1 DEF Abierto
  <2>2. Suma(Abierto(p)) = Debido(p, NCargos)
    BY <2>1, SumaPrefijo DEF Debido
  <2> QED BY <1>2, <2>2, FifoSuma
<1> QED BY <1>2, <1>4, <1>5, <1>6 DEF AntiguosPrimero, Abierto

-----------------------------------------------------------------------------
(* The invariants *)

Abiertos == {"acreditado", "revertido"}

\* What an open transaction knows of its payment.
SesionOK(s) ==
    s.paso # "libre" =>
         /\ s.pedido \in Pedidos
         /\ pago[s.pedido.pago] # "inexistente"
         /\ s.visto = "acreditado" => pago[s.pedido.pago] \in Abiertos

CInv == TypeOK /\ (\A w \in Sesiones : SesionOK(ses[w])) /\ PendienteSinAsignaciones

\* Where a transaction may be, what its plan adds up to, and, as long as what it
\* read is fresh, what it knows of its payment and has deleted of the allocations.
FrescaOK(s) ==
    LET op == s.pedido.op
        p  == s.pedido.pago
    IN  /\ s.paso # "confirmar" => s.plan = SinAsignar
        /\ s.paso \in {"libre", "leer"} => s.borra = {}
        /\ s.paso \notin {"libre", "leer"} =>
             /\ op = "revertir" => s.paso # "asignar" /\ s.plan = SinAsignar
             /\ Suma(s.plan) <= Importe[p]
             /\ s.fresca =>
                  /\ s.visto = pago[p]
                  /\ op \in {"acreditar", "webhook"} =>
                       /\ s.paso \in {"asignar", "confirmar"} /\ s.borra = {}
                       /\ s.visto \in {"pendiente_revision", "revertido"}
                  /\ op \in {"ajustar", "revertir"} /\ s.paso # "borrar" => s.borra = Filas(asig[p])

FInv ==
    /\ CInv
    /\ \A w \in Sesiones : FrescaOK(ses[w])
    /\ SumaConLecturaFresca
    /\ RevertidoSinAsignaciones

-----------------------------------------------------------------------------
(* The invariant of any number of transactions *)

LEMMA SesionLibreOK == SesionLibre \in Sesion
  BY DEF SesionLibre, Sesion, Pasos, Estados, SinAsignar

\* The steps of one transaction, as what they write of its record.
LEMMA Recibida ==
  \A r \in Pedidos :
     LET a == [SesionLibre EXCEPT !.paso = "leer", !.pedido = r]
     IN  /\ a \in Sesion /\ a.paso = "leer" /\ a.pedido = r /\ a.visto = "inexistente"
         /\ a.borra = {} /\ a.plan = SinAsignar /\ a.fresca = TRUE
  BY DEF SesionLibre, Sesion, Pasos, Estados, SinAsignar

\* What a transaction writes as its plan is an allocation.
LEMMA PropuestaTipo ==
  ASSUME NEW r \in Pedidos
  PROVE  r.pago \in Pagos /\ r.op \in Ops /\ Propuesta(r) \in [Cargos -> Nat]
<1>1. r.pago \in Pagos /\ r.op \in Ops /\ (r.plan = Ninguno \/ r.plan \in [Cargos -> Nat])
  BY PedidosAssumption
<1>2. Fifo(r.pago) \in [Cargos -> Nat]
  BY <1>1, FifoPaga
<1> QED BY <1>1, <1>2 DEF Propuesta

\* What each step of w leaves in its record.  The first component says that w goes
\* on with the same request.
Sigue(s, a) == a \in Sesion /\ s.paso # "libre" /\ a.pedido = s.pedido /\ a.fresca = s.fresca

LEMMA LeerSigue ==
  ASSUME CInv, NEW w \in Sesiones, Leer(w), ~Terminar(w)
  PROVE  \E a : /\ Seguir(w, a) /\ Sigue(ses[w], a)
                /\ a.visto = pago[ses[w].pedido.pago]
                /\ ~NadaQueHacer(a.pedido.op, a.visto)
                /\ a.paso = IF a.pedido.op \in {"ajustar", "revertir"}
                            THEN "borrar" ELSE "asignar"
                /\ a.borra = ses[w].borra /\ a.plan = ses[w].plan
<1>1. PICK s, v, q, a :
         /\ s = ses[w] /\ v = pago[s.pedido.pago]
         /\ q = (IF s.pedido.op \in {"ajustar", "revertir"} THEN "borrar" ELSE "asignar")
         /\ a = [s EXCEPT !.visto = v, !.paso = q]
         /\ Seguir(w, a) /\ s.paso = "leer" /\ ~NadaQueHacer(s.pedido.op, v)
  BY DEF Leer
<1>2. s \in Sesion /\ s.pedido \in Pedidos
  BY <1>1 DEF CInv, SesionOK, TypeOK
<1>3. v \in Estados
  BY <1>1, <1>2, PedidosAssumption DEF CInv, TypeOK
<1>4. q \in Pasos
  BY <1>1 DEF Pasos
<1>5. /\ a \in Sesion /\ a.pedido = s.pedido /\ a.fresca = s.fresca /\ a.visto = v /\ a.paso = q
      /\ a.borra = s.borra /\ a.plan = s.plan
  BY <1>1, <1>2, <1>3, <1>4 DEF Sesion
<1> QED BY <1>1, <1>5 DEF Sigue

LEMMA VerBorrablesSigue ==
  ASSUME CInv, NEW w \in Sesiones, VerBorrables(w)
  PROVE  \E a : /\ Seguir(w, a) /\ Sigue(ses[w], a) /\ a.visto = ses[w].visto
                /\ a.paso = "borrando" /\ a.borra = Filas(asig[ses[w].pedido.pago])
                /\ a.plan = ses[w].plan
<1>1. PICK s, b, a : /\ s = ses[w] /\ b = Filas(asig[s.pedido.pago])
                     /\ a = [s EXCEPT !.paso = "borrando", !.borra = b]
                     /\ Seguir(w, a) /\ s.paso = "borrar"
  BY DEF VerBorrables, FilasVisibles
<1>2. s \in Sesion /\ b \in SUBSET Cargos
  BY <1>1 DEF CInv, TypeOK, Filas
<1>3. /\ a \in Sesion /\ a.pedido = s.pedido /\ a.fresca = s.fresca /\ a.visto = s.visto /\ a.paso = "borrando"
      /\ a.borra = b /\ a.plan = s.plan
  BY <1>1, <1>2 DEF Sesion, Pasos
<1> QED BY <1>1, <1>3 DEF Sigue

LEMMA BorrarSigue ==
  ASSUME CInv, NEW w \in Sesiones, Borrar(w)
  PROVE  \E a : /\ Seguir(w, a) /\ Sigue(ses[w], a) /\ a.visto = ses[w].visto
                /\ ses[w].paso = "borrando"
                /\ a.paso = IF a.pedido.op = "revertir" THEN "confirmar" ELSE "asignar"
                /\ a.borra = ses[w].borra /\ a.plan = ses[w].plan
<1>1. PICK s, q, a : /\ s = ses[w]
                     /\ q = (IF s.pedido.op = "revertir" THEN "confirmar" ELSE "asignar")
                     /\ a = [s EXCEPT !.paso = q] /\ Seguir(w, a) /\ s.paso = "borrando"
  BY DEF Borrar
<1>2. s \in Sesion /\ q \in Pasos
  BY <1>1 DEF CInv, TypeOK, Pasos
<1>3. /\ a \in Sesion /\ a.pedido = s.pedido /\ a.fresca = s.fresca /\ a.visto = s.visto /\ a.paso = q
      /\ a.borra = s.borra /\ a.plan = s.plan
  BY <1>1, <1>2 DEF Sesion
<1> QED BY <1>1, <1>3 DEF Sigue

LEMMA AsignarSigue ==
  ASSUME CInv, NEW w \in Sesiones, Asignar(w), ~Terminar(w)
  PROVE  \E a : /\ Seguir(w, a) /\ Sigue(ses[w], a) /\ a.visto = ses[w].visto
                /\ ses[w].paso = "asignar" /\ a.paso = "confirmar"
                /\ Valido(ses[w].pedido) /\ a.plan = Propuesta(ses[w].pedido)
                /\ a.borra = ses[w].borra
<1>1. PICK s, l, a : /\ s = ses[w] /\ l = Propuesta(s.pedido)
                     /\ a = [s EXCEPT !.paso = "confirmar", !.plan = l]
                     /\ Seguir(w, a) /\ s.paso = "asignar" /\ Valido(s.pedido)
  BY DEF Asignar
<1>2. s \in Sesion /\ s.pedido \in Pedidos
  BY <1>1 DEF CInv, SesionOK, TypeOK
<1>3. l \in [Cargos -> Nat]
  BY <1>1, <1>2, PropuestaTipo
<1>4. /\ a \in Sesion /\ a.pedido = s.pedido /\ a.fresca = s.fresca /\ a.visto = s.visto /\ a.paso = "confirmar"
      /\ a.borra = s.borra /\ a.plan = l
  BY <1>1, <1>2, <1>3 DEF Sesion, Pasos
<1> QED BY <1>1, <1>4 DEF Sigue

\* What a commit writes: the estado and the allocations of one payment.
LEMMA ConfirmarEscribe ==
  ASSUME CInv, NEW w \in Sesiones, Confirmar(w)
  PROVE  LET s == ses[w]
             p == s.pedido.pago
         IN  /\ s.paso = "confirmar" /\ p \in Pagos /\ s.pedido.op \in Ops
             /\ s.plan \in [Cargos -> Nat]
             /\ pago' \in [Pagos -> Estados] /\ asig' \in [Pagos -> [Cargos -> Nat]]
             /\ pago'[p] = EstadoFinal(s) /\ pago'[p] \in Abiertos
             /\ asig'[p] = [c \in Cargos |-> IF s.plan[c] > 0 THEN s.plan[c]
                                             ELSE IF c \in s.borra THEN 0 ELSE asig[p][c]]
             /\ \A x \in Pagos : x # p => pago'[x] = pago[x] /\ asig'[x] = asig[x]
<1>1. PICK s, p : s = ses[w] /\ p = s.pedido.pago
  OBVIOUS
<1>2. /\ s \in Sesion /\ s.paso = "confirmar" /\ s.pedido \in Pedidos
      /\ s.visto = "acreditado" => pago[p] \in Abiertos
  BY <1>1 DEF Confirmar, CInv, SesionOK, TypeOK
<1>3. p \in Pagos /\ s.pedido.op \in Ops /\ s.plan \in [Cargos -> Nat]
  BY <1>1, <1>2, PedidosAssumption DEF Sesion
<1>4. EstadoFinal(s) \in Abiertos
  <2>1. CASE s.pedido.op = "ajustar"
    BY <1>1, <1>2, <2>1 DEF EstadoFinal, Abiertos
  <2>2. CASE s.pedido.op = "revertir"
    BY <2>2 DEF EstadoFinal, Abiertos
  <2>3. CASE s.pedido.op \in {"acreditar", "webhook"}
    BY <2>3 DEF EstadoFinal, Abiertos
  <2> QED BY <1>3, <2>1, <2>2, <2>3 DEF Ops
<1>5. PICK f : f = [c \in Cargos |-> IF s.plan[c] > 0 THEN s.plan[c]
                                     ELSE IF c \in s.borra THEN 0 ELSE asig[p][c]]
  OBVIOUS
<1>6. f \in [Cargos -> Nat]
  BY <1>3, <1>5 DEF CInv, TypeOK
<1>7. pago' = [pago EXCEPT ![p] = EstadoFinal(s)] /\ asig' = [asig EXCEPT ![p] = f]
  BY <1>1, <1>5 DEF Confirmar
<1>8. pago \in [Pagos -> Estados] /\ asig \in [Pagos -> [Cargos -> Nat]]
      /\ EstadoFinal(s) \in Estados
  BY <1>4 DEF CInv, TypeOK, Abiertos, Estados
<1>9. /\ pago' \in [Pagos -> Estados] /\ pago'[p] = EstadoFinal(s)
      /\ \A x \in Pagos : x # p => pago'[x] = pago[x]
  BY <1>3, <1>7, <1>8
<1>10. /\ asig' \in [Pagos -> [Cargos -> Nat]] /\ asig'[p] = f
       /\ \A x \in Pagos : x # p => asig'[x] = asig[x]
  BY <1>3, <1>6, <1>7, <1>8
<1> QED BY <1>1, <1>2, <1>3, <1>4, <1>5, <1>9, <1>10

\* And what it leaves of the transactions: those that have read the same payment
\* no longer know it.
LEMMA ConfirmarSesiones ==
  ASSUME CInv, NEW w \in Sesiones, Confirmar(w)
  PROVE  /\ ses' \in [Sesiones -> Sesion] /\ ses'[w] = SesionLibre
         /\ \A x \in Sesiones : x # w =>
              /\ ses'[x].paso = ses[x].paso /\ ses'[x].pedido = ses[x].pedido
              /\ ses'[x].visto = ses[x].visto /\ ses'[x].plan = ses[x].plan
              /\ \/ ses'[x] = ses[x]
                    /\ (ses[x].paso \in {"libre", "leer"}
                        \/ ses[x].pedido.pago # ses[w].pedido.pago)
                 \/ ses'[x].fresca = FALSE /\ ses[x].paso \notin {"libre", "leer"}
<1>1. /\ ses' = [x \in Sesiones |-> IF x = w THEN SesionLibre ELSE Alcanza(ses[x], ses[w])]
      /\ ses'[w] = SesionLibre
  BY DEF Confirmar
<1>2. ASSUME NEW x \in Sesiones, x # w
      PROVE  /\ ses'[x] \in Sesion
             /\ ses'[x].paso = ses[x].paso /\ ses'[x].pedido = ses[x].pedido
             /\ ses'[x].visto = ses[x].visto /\ ses'[x].plan = ses[x].plan
             /\ \/ ses'[x] = ses[x]
                   /\ (ses[x].paso \in {"libre", "leer"}
                       \/ ses[x].pedido.pago # ses[w].pedido.pago)
                \/ ses'[x].fresca = FALSE /\ ses[x].paso \notin {"libre", "leer"}
  <2>1. PICK s, d : s = ses[x] /\ d = IF s.paso = "borrando" THEN s.borra \ ses[w].borra
                                      ELSE s.borra
    OBVIOUS
  <2>2. s \in Sesion /\ d \in SUBSET Cargos
    BY <2>1 DEF CInv, TypeOK, Sesion
  <2>3. CASE s.paso \in {"libre", "leer"} \/ s.pedido.pago # ses[w].pedido.pago
    BY <1>1, <1>2, <2>1, <2>2, <2>3 DEF Alcanza
  <2>4. CASE ~(s.paso \in {"libre", "leer"} \/ s.pedido.pago # ses[w].pedido.pago)
    <3>1. ses'[x] = [s EXCEPT !.fresca = FALSE, !.borra = d]
      BY <1>1, <1>2, <2>1, <2>2, <2>4 DEF Alcanza, Sesion
    <3>2. /\ ses'[x] \in Sesion /\ ses'[x].paso = s.paso /\ ses'[x].pedido = s.pedido
          /\ ses'[x].visto = s.visto /\ ses'[x].plan = s.plan /\ ses'[x].fresca = FALSE
      BY <2>2, <3>1 DEF Sesion
    <3> QED BY <2>1, <2>4, <3>2
  <2> QED BY <2>3, <2>4
<1> QED BY <1>1, <1>2, SesionLibreOK

\* A step of one transaction that writes no table.
LEMMA PasoCobranzas ==
  ASSUME CInv, NEW w \in Sesiones, NEW a \in Sesion, Seguir(w, a), SesionOK(a),
         UNCHANGED <<pago, asig, emitidos, anulados, desfasados>>
  PROVE  CInv'
<1>1. /\ ses' \in [Sesiones -> Sesion] /\ ses'[w] = a
      /\ \A x \in Sesiones : x # w => ses'[x] = ses[x]
  BY DEF CInv, TypeOK, Seguir
<1>2. \A x \in Sesiones : SesionOK(ses[x])'
  BY <1>1 DEF CInv, SesionOK
<1>3. PendienteSinAsignaciones'
  BY DEF CInv, PendienteSinAsignaciones
<1>4. TypeOK'
  BY <1>1 DEF CInv, TypeOK
<1> QED BY <1>2, <1>3, <1>4 DEF CInv

LEMMA SesionSigue ==
  ASSUME NEW s, SesionOK(s), NEW a, Sigue(s, a),
         a.visto = s.visto \/ a.visto = pago[s.pedido.pago]
  PROVE  SesionOK(a)
  BY DEF SesionOK, Sigue, Abiertos

\* CInv through every step, one case per operation.
LEMMA CobranzasInv == CInv /\ [Next]_vars => CInv'
<1> SUFFICES ASSUME CInv, [Next]_vars PROVE CInv'
  OBVIOUS
<1>0. \A w \in Sesiones : SesionOK(ses[w])
  BY DEF CInv
<1>1. CASE UNCHANGED vars \/ \E c \in Cargos : Emitir(c) \/ Anular(c)
  <2>1. /\ UNCHANGED <<pago, asig, ses, desfasados>>
        /\ emitidos' \subseteq Cargos /\ anulados' \subseteq emitidos'
    BY <1>1 DEF vars, Emitir, Anular, CInv, TypeOK
  <2> QED BY <2>1 DEF CInv, TypeOK, SesionOK, PendienteSinAsignaciones
<1>2. ASSUME NEW p \in Pagos, CrearPago(p) PROVE CInv'
  <2>1. /\ pago' \in [Pagos -> Estados] /\ UNCHANGED <<asig, ses, emitidos, anulados, desfasados>>
        /\ \A x \in Pagos : x # p => pago'[x] = pago[x]
        /\ pago[p] = "inexistente" /\ pago'[p] = "pendiente_revision"
    BY <1>2 DEF CrearPago, CInv, TypeOK, Estados
  <2>2. ASSUME NEW w \in Sesiones PROVE SesionOK(ses[w])'
    BY <1>0, <2>1, PedidosAssumption DEF SesionOK, Abiertos
  <2> QED BY <2>1, <2>2 DEF CInv, TypeOK, PendienteSinAsignaciones
<1>3. ASSUME NEW w \in Sesiones, NEW r \in Pedidos, Recibir(w, r) PROVE CInv'
  <2>1. PICK a : a = [SesionLibre EXCEPT !.paso = "leer", !.pedido = r]
    OBVIOUS
  <2>2. a \in Sesion /\ a.pedido = r /\ a.visto = "inexistente"
    BY <2>1, Recibida
  <2>3. SesionOK(a)
    BY <1>3, <2>2 DEF Recibir, SesionOK
  <2> QED BY <1>3, <2>1, <2>2, <2>3, PasoCobranzas DEF Recibir
<1>4. ASSUME NEW w \in Sesiones, Terminar(w), UNCHANGED <<pago, asig, emitidos, anulados, desfasados>>
      PROVE  CInv'
  <2>1. SesionOK(SesionLibre) /\ Seguir(w, SesionLibre)
    BY <1>4 DEF Terminar, Seguir, SesionOK, SesionLibre
  <2> QED BY <1>4, <2>1, SesionLibreOK, PasoCobranzas
<1>5. ASSUME NEW w \in Sesiones, NEW a, Seguir(w, a), Sigue(ses[w], a),
             a.visto = ses[w].visto \/ a.visto = pago[ses[w].pedido.pago],
             UNCHANGED <<pago, asig, emitidos, anulados, desfasados>>
      PROVE  CInv'
  <2>1. SesionOK(a)
    BY <1>0, <1>5, SesionSigue
  <2>2. a \in Sesion
    BY <1>5 DEF Sigue
  <2> QED BY <1>5, <2>1, <2>2, PasoCobranzas
<1>6. ASSUME NEW w \in Sesiones, Leer(w) PROVE CInv'
  <2>1. UNCHANGED <<pago, asig, emitidos, anulados, desfasados>>
    BY <1>6 DEF Leer
  <2> QED BY <1>4, <1>5, <1>6, <2>1, LeerSigue
<1>7. ASSUME NEW w \in Sesiones, VerBorrables(w) PROVE CInv'
  <2>1. UNCHANGED <<pago, asig, emitidos, anulados, desfasados>>
    BY <1>7 DEF VerBorrables
  <2> QED BY <1>5, <1>7, <2>1, VerBorrablesSigue
<1>8. ASSUME NEW w \in Sesiones, Borrar(w) PROVE CInv'
  <2>1. UNCHANGED <<pago, asig, emitidos, anulados, desfasados>>
    BY <1>8 DEF Borrar
  <2> QED BY <1>5, <1>8, <2>1, BorrarSigue
<1>9. ASSUME NEW w \in Sesiones, Asignar(w) PROVE CInv'
  <2>1. UNCHANGED <<pago, asig, emitidos, anulados, desfasados>>
    BY <1>9 DEF Asignar
  <2> QED BY <1>4, <1>5, <1>9, <2>1, AsignarSigue
<1>10. ASSUME NEW w \in Sesiones, Confirmar(w) PROVE CInv'
  <2>1. PICK p : p = ses[w].pedido.pago
    OBVIOUS
  <2>2. /\ p \in Pagos /\ pago' \in [Pagos -> Estados] /\ asig' \in [Pagos -> [Cargos -> Nat]]
        /\ pago'[p] \in Abiertos
        /\ \A x \in Pagos : x # p => pago'[x] = pago[x] /\ asig'[x] = asig[x]
    BY <1>10, <2>1, ConfirmarEscribe
  <2>3. /\ ses' \in [Sesiones -> Sesion] /\ ses'[w] = SesionLibre
        /\ \A x \in Sesiones : x # w =>
             /\ ses'[x].paso = ses[x].paso /\ ses'[x].pedido = ses[x].pedido
             /\ ses'[x].visto = ses[x].visto
    BY <1>10, ConfirmarSesiones
  <2>4. ASSUME NEW x \in Sesiones PROVE SesionOK(ses[x])'
    <3>1. CASE x = w
      BY <2>3, <3>1 DEF SesionOK, SesionLibre
    <3>2. CASE x # w
      <4>1. ses[x].paso # "libre" => ses[x].pedido \in Pedidos /\ ses[x].pedido.pago \in Pagos
        BY <1>0, PedidosAssumption DEF SesionOK
      <4> QED BY <1>0, <2>2, <2>3, <3>2, <4>1 DEF SesionOK, Abiertos
    <3> QED BY <3>1, <3>2
  <2>5. PendienteSinAsignaciones'
    BY <2>2 DEF CInv, PendienteSinAsignaciones, Abiertos
  <2>6. TypeOK'
    BY <1>10, <2>2, <2>3 DEF CInv, TypeOK, Confirmar
  <2> QED BY <2>4, <2>5, <2>6 DEF CInv
<1>11. ASSUME NEW w \in Sesiones, Abortar(w) PROVE CInv'
  BY <1>4, <1>11 DEF Abortar
<1> QED BY <1>1, <1>2, <1>3, <1>6, <1>7, <1>8, <1>9, <1>10, <1>11 DEF Next

LEMMA CobranzasInicial == Init => CInv
<1> SUFFICES ASSUME Init PROVE CInv
  OBVIOUS
<1>1. TypeOK
  BY SesionLibreOK DEF Init, TypeOK, Estados, SinAsignar
<1>2. \A w \in Sesiones : SesionOK(ses[w])
  BY DEF Init, SesionOK, SesionLibre
<1>3. PendienteSinAsignaciones
  BY DEF Init, PendienteSinAsignaciones
<1> QED BY <1>1, <1>2, <1>3 DEF CInv

\* Every reachable state of payments, allocations and transactions is well typed.
THEOREM Tipos == Spec => []TypeOK
<1>1. CInv => TypeOK
  BY DEF CInv
<1> QED BY <1>1, CobranzasInicial, CobranzasInv, PTL DEF Spec

\* A payment that waits for review has no allocations (AcreditarCobranza and the
\* webhook write the estado in the transaction that allocates).
THEOREM SinAsignarAntesDeAcreditar == Spec => []PendienteSinAsignaciones
<1>1. CInv => PendienteSinAsignaciones
  BY DEF CInv
<1> QED BY <1>1, CobranzasInicial, CobranzasInv, PTL DEF Spec

\* The plans of buildFIFOAllocations pay the oldest charges first.
THEOREM SiempreLoMasAntiguo == Spec => FifoPagaLoMasAntiguo
<1>1. ASSUME CInv, [Next]_vars
      PROVE  [\A w \in Sesiones :
                 /\ ses[w].paso = "asignar" /\ ses'[w].paso = "confirmar"
                 /\ ses[w].pedido.plan = Ninguno
                 => AntiguosPrimero(ses[w].pedido.pago, ses'[w].plan)]_vars
  <2>1. ASSUME NEW w \in Sesiones, ses[w].paso = "asignar", ses'[w].paso = "confirmar",
               ses[w].pedido.plan = Ninguno
        PROVE  AntiguosPrimero(ses[w].pedido.pago, ses'[w].plan)
    <3>1. ses \in [Sesiones -> Sesion] /\ SesionLibre.paso = "libre"
      BY <1>1 DEF CInv, TypeOK, SesionLibre
    <3>2. ASSUME NEW x \in Sesiones, NEW a, Seguir(x, a),
                 a.paso # "confirmar" \/ ses[x].paso # "asignar"
          PROVE  FALSE
      BY <2>1, <3>1, <3>2 DEF Seguir
    <3>3. \A x \in Sesiones : ~Terminar(x)
      BY <3>1, <3>2 DEF Terminar, Seguir
    <3>4. ~UNCHANGED ses
      BY <2>1
    <3>5. \A x \in Sesiones, r \in Pedidos : ~Recibir(x, r)
      BY <3>2, Recibida DEF Recibir
    <3>6. ASSUME NEW x \in Sesiones, Leer(x) PROVE FALSE
      <4>1. \E a : Seguir(x, a) /\ a.paso # "confirmar"
        BY <1>1, <3>3, <3>6, LeerSigue
      <4> QED BY <3>2, <4>1
    <3>7. ASSUME NEW x \in Sesiones, VerBorrables(x) PROVE FALSE
      <4>1. \E a : Seguir(x, a) /\ a.paso # "confirmar"
        BY <1>1, <3>7, VerBorrablesSigue
      <4> QED BY <3>2, <4>1
    <3>8. ASSUME NEW x \in Sesiones, Borrar(x) PROVE FALSE
      <4>1. \E a : Seguir(x, a) /\ ses[x].paso # "asignar"
        BY <1>1, <3>8, BorrarSigue
      <4> QED BY <3>2, <4>1
    <3>9. ASSUME NEW x \in Sesiones, Confirmar(x) PROVE FALSE
      BY <1>1, <2>1, <3>1, <3>9, ConfirmarSesiones
    <3>10. PICK x \in Sesiones : Asignar(x)
      BY <1>1, <3>3, <3>4, <3>5, <3>6, <3>7, <3>8, <3>9
      DEF Next, vars, Emitir, Anular, CrearPago, Abortar
    <3>11. PICK a : Seguir(x, a) /\ a.plan = Propuesta(ses[x].pedido)
      BY <1>1, <3>3, <3>10, AsignarSigue
    <3>12. x = w /\ ses'[w] = a
      BY <2>1, <3>1, <3>11 DEF Seguir
    <3>13. ses[w].pedido.pago \in Pagos
      BY <1>1, <2>1, PedidosAssumption DEF CInv, SesionOK
    <3>14. ses'[w].plan = Fifo(ses[w].pedido.pago)
      BY <2>1, <3>11, <3>12 DEF Propuesta
    <3> QED BY <3>13, <3>14, FifoEnOrden
  <2> QED BY <2>1
<1> QED BY <1>1, CobranzasInicial, CobranzasInv, PTL DEF Spec, FifoPagaLoMasAntiguo

-----------------------------------------------------------------------------
(* What is fresh *)

\* What a transaction that is not libre or leyendo proposes.
LEMMA SumaPropuesta ==
  ASSUME NEW r \in Pedidos, Valido(r)
  PROVE  Suma(Propuesta(r)) <= Importe[r.pago]
<1>1. r.pago \in Pagos
  BY PropuestaTipo
<1>2. CASE Propuesta(r) = Fifo(r.pago)
  <2>1. /\ Importe[r.pago] \in Nat /\ Debido(r.pago, NCargos) \in Nat
    BY <1>1, DebidoNat
  <2> QED BY <1>1, <1>2, <2>1, FifoSuma DEF Menor
<1>3. CASE Propuesta(r) # Fifo(r.pago)
  BY <1>3 DEF Propuesta, Valido
<1> QED BY <1>2, <1>3

LEMMA SumaSinAsignar == \A p \in Pagos : Suma(SinAsignar) <= Importe[p]
<1>1. SinAsignar \in [Cargos -> Nat] /\ IsFiniteSet(1..NCargos)
  BY NCargosAssumption, FS_Interval DEF SinAsignar
<1>2. Sobre(SinAsignar, 1..NCargos) = 0
  BY <1>1, SobreCero DEF SinAsignar, Cargos
<1>3. Suma(SinAsignar) = 0
  BY <1>1, <1>2, SumaPrefijo
<1> QED BY <1>3, MontosAssumption

\* A step of one transaction that writes no table.
LEMMA PasoFresca ==
  ASSUME FInv, CInv', NEW w \in Sesiones, NEW a, Seguir(w, a), FrescaOK(a),
         UNCHANGED <<pago, asig, desfasados>>
  PROVE  FInv'
<1>1. /\ ses'[w] = a
      /\ \A x \in Sesiones : x # w => ses'[x] = ses[x]
  BY DEF FInv, CInv, TypeOK, Seguir
<1>2. \A x \in Sesiones : FrescaOK(ses[x])'
  BY <1>1 DEF FInv, FrescaOK
<1>3. SumaConLecturaFresca' /\ RevertidoSinAsignaciones'
  BY DEF FInv, SumaConLecturaFresca, RevertidoSinAsignaciones
<1> QED BY <1>2, <1>3 DEF FInv

\* FInv through every step, one case per operation.
LEMMA FrescaInv == FInv /\ [Next]_vars => FInv'
<1> SUFFICES ASSUME FInv, [Next]_vars PROVE FInv'
  OBVIOUS
<1>0. CInv /\ CInv' /\ \A w \in Sesiones : FrescaOK(ses[w])
  BY CobranzasInv DEF FInv
<1>1. CASE UNCHANGED vars \/ \E c \in Cargos : Emitir(c) \/ Anular(c)
  <2>1. UNCHANGED <<pago, asig, ses, desfasados>>
    BY <1>1 DEF vars, Emitir, Anular
  <2> QED BY <1>0, <2>1 DEF FInv, FrescaOK, SumaConLecturaFresca, RevertidoSinAsignaciones
<1>2. ASSUME NEW p \in Pagos, CrearPago(p) PROVE FInv'
  <2>1. /\ UNCHANGED <<asig, ses, desfasados>>
        /\ \A x \in Pagos : x # p => pago'[x] = pago[x]
        /\ pago[p] = "inexistente" /\ pago'[p] = "pendiente_revision"
    BY <1>0, <1>2 DEF CrearPago, CInv, TypeOK
  <2>2. ASSUME NEW w \in Sesiones PROVE FrescaOK(ses[w])'
    <3>1. PICK s : s = ses[w]
      OBVIOUS
    <3>2. s.paso # "libre" => pago'[s.pedido.pago] = pago[s.pedido.pago]
      BY <1>0, <2>1, <3>1, PedidosAssumption DEF CInv, SesionOK
    <3>3. FrescaOK(s) /\ ses'[w] = s /\ asig' = asig
      BY <1>0, <2>1, <3>1
    <3> QED BY <3>2, <3>3 DEF FrescaOK
  <2>3. SumaConLecturaFresca' /\ RevertidoSinAsignaciones'
    BY <2>1 DEF FInv, SumaConLecturaFresca, RevertidoSinAsignaciones
  <2> QED BY <1>0, <2>2, <2>3 DEF FInv
<1>3. ASSUME NEW w \in Sesiones, NEW r \in Pedidos, Recibir(w, r) PROVE FInv'
  <2>1. PICK a : a = [SesionLibre EXCEPT !.paso = "leer", !.pedido = r]
    OBVIOUS
  <2>2. a.paso = "leer" /\ a.plan = SinAsignar /\ a.borra = {}
    BY <2>1, Recibida
  <2>3. FrescaOK(a)
    BY <2>2 DEF FrescaOK
  <2> QED BY <1>0, <1>3, <2>1, <2>3, PasoFresca DEF Recibir
<1>4. ASSUME NEW w \in Sesiones, Terminar(w), UNCHANGED <<pago, asig, desfasados>> PROVE FInv'
  <2>1. FrescaOK(SesionLibre) /\ Seguir(w, SesionLibre)
    BY <1>4 DEF Terminar, Seguir, FrescaOK, SesionLibre
  <2> QED BY <1>0, <1>4, <2>1, PasoFresca
<1>5. ASSUME NEW w \in Sesiones, Leer(w) PROVE FInv'
  <2>1. UNCHANGED <<pago, asig, desfasados>>
    BY <1>5 DEF Leer
  <2>2. CASE Terminar(w)
    BY <1>4, <2>1, <2>2
  <2>3. CASE ~Terminar(w)
    <3>1. PICK s : s = ses[w]
      OBVIOUS
    <3>2. PICK a : /\ Seguir(w, a) /\ Sigue(s, a) /\ a.visto = pago[s.pedido.pago]
                   /\ ~NadaQueHacer(a.pedido.op, a.visto)
                   /\ a.paso = IF a.pedido.op \in {"ajustar", "revertir"}
                               THEN "borrar" ELSE "asignar"
                   /\ a.borra = s.borra /\ a.plan = s.plan
      BY <1>0, <1>5, <2>3, <3>1, LeerSigue
    <3>3. /\ s.paso = "leer" /\ s.pedido \in Pedidos /\ s.plan = SinAsignar
      BY <1>0, <1>5, <3>1 DEF Leer, CInv, SesionOK, FrescaOK
    <3>4. a.pedido = s.pedido /\ a.pedido.pago \in Pagos /\ a.pedido.op \in Ops
      BY <3>2, <3>3, PedidosAssumption DEF Sigue
    <3>5. Suma(a.plan) <= Importe[a.pedido.pago]
      BY <3>2, <3>3, <3>4, SumaSinAsignar
    <3>6. pago[s.pedido.pago] \in Estados \ {"inexistente"}
      BY <1>0, <3>1, <3>3, <3>4 DEF CInv, TypeOK, SesionOK
    <3>7. s.borra = {}
      BY <1>0, <3>1, <3>3 DEF FrescaOK
    <3>8. a.pedido.op \in {"acreditar", "webhook"} =>
             a.paso = "asignar" /\ a.visto \in {"pendiente_revision", "revertido"}
      BY <3>2, <3>4, <3>6 DEF NadaQueHacer, Estados
    <3>9. FrescaOK(a)
      BY <3>2, <3>3, <3>4, <3>5, <3>7, <3>8 DEF FrescaOK
    <3> QED BY <1>0, <2>1, <3>2, <3>9, PasoFresca
  <2> QED BY <2>2, <2>3
<1>6. ASSUME NEW w \in Sesiones, VerBorrables(w) PROVE FInv'
  <2>1. PICK s : s = ses[w] /\ s.paso = "borrar" /\ FrescaOK(s)
    BY <1>0, <1>6 DEF VerBorrables
  <2>2. PICK a : /\ Seguir(w, a) /\ Sigue(s, a) /\ a.visto = s.visto
                 /\ a.paso = "borrando" /\ a.borra = Filas(asig[s.pedido.pago])
                 /\ a.plan = s.plan
    BY <1>0, <1>6, <2>1, VerBorrablesSigue
  <2>3. FrescaOK(a)
    BY <2>1, <2>2 DEF FrescaOK, Sigue
  <2> QED BY <1>0, <1>6, <2>2, <2>3, PasoFresca DEF VerBorrables
<1>7. ASSUME NEW w \in Sesiones, Borrar(w) PROVE FInv'
  <2>1. PICK s : s = ses[w] /\ s.paso = "borrando" /\ FrescaOK(s)
    BY <1>0, <1>7 DEF Borrar
  <2>2. PICK a : /\ Seguir(w, a) /\ Sigue(s, a) /\ a.visto = s.visto
                 /\ a.paso = IF a.pedido.op = "revertir" THEN "confirmar" ELSE "asignar"
                 /\ a.borra = s.borra /\ a.plan = s.plan
    BY <1>0, <1>7, <2>1, BorrarSigue
  <2>3. FrescaOK(a)
    BY <2>1, <2>2 DEF FrescaOK, Sigue
  <2> QED BY <1>0, <1>7, <2>2, <2>3, PasoFresca DEF Borrar
<1>8. ASSUME NEW w \in Sesiones, Asignar(w) PROVE FInv'
  <2>1. UNCHANGED <<pago, asig, desfasados>>
    BY <1>8 DEF Asignar
  <2>2. CASE Terminar(w)
    BY <1>4, <2>1, <2>2
  <2>3. CASE ~Terminar(w)
    <3>1. PICK s : s = ses[w] /\ s.paso = "asignar" /\ FrescaOK(s) /\ s.pedido \in Pedidos
      BY <1>0, <1>8 DEF Asignar, CInv, SesionOK
    <3>2. PICK a : /\ Seguir(w, a) /\ Sigue(s, a) /\ a.visto = s.visto
                   /\ a.paso = "confirmar" /\ Valido(s.pedido)
                   /\ a.plan = Propuesta(s.pedido) /\ a.borra = s.borra
      BY <1>0, <1>8, <2>3, <3>1, AsignarSigue
    <3>3. Suma(a.plan) <= Importe[s.pedido.pago]
      BY <3>1, <3>2, SumaPropuesta
    <3>4. FrescaOK(a)
      BY <3>1, <3>2, <3>3 DEF FrescaOK, Sigue
    <3> QED BY <1>0, <2>1, <3>2, <3>4, PasoFresca
  <2> QED BY <2>2, <2>3
<1>9. ASSUME NEW w \in Sesiones, Confirmar(w) PROVE FInv'
  <2>1. PICK s, p : s = ses[w] /\ p = s.pedido.pago
    OBVIOUS
  <2>2. /\ s.paso = "confirmar" /\ p \in Pagos /\ s.pedido.op \in Ops
        /\ s.plan \in [Cargos -> Nat]
        /\ pago'[p] = EstadoFinal(s) /\ pago'[p] \in Abiertos
        /\ asig'[p] = [c \in Cargos |-> IF s.plan[c] > 0 THEN s.plan[c]
                                        ELSE IF c \in s.borra THEN 0 ELSE asig[p][c]]
        /\ \A x \in Pagos : x # p => pago'[x] = pago[x] /\ asig'[x] = asig[x]
    BY <1>0, <1>9, <2>1, ConfirmarEscribe
  <2>3. /\ s.pedido.op = "revertir" => s.plan = SinAsignar
        /\ Suma(s.plan) <= Importe[p]
        /\ s.fresca =>
             /\ s.visto = pago[p]
             /\ s.pedido.op \in {"acreditar", "webhook"} =>
                  s.visto \in {"pendiente_revision", "revertido"}
             /\ s.pedido.op \in {"ajustar", "revertir"} => s.borra = Filas(asig[p])
    BY <1>0, <2>1, <2>2 DEF FrescaOK
  <2>4. /\ \A x \in Pagos : x # p /\ x \notin desfasados' => x \notin desfasados
        /\ p \notin desfasados' =>
             s.fresca /\ (p \notin desfasados \/ s.pedido.op \in {"ajustar", "revertir"})
    BY <1>9, <2>1 DEF Confirmar
  <2>5. ASSUME p \notin desfasados' PROVE asig'[p] = s.plan
    <3>1. asig[p] \in [Cargos -> Nat]
      BY <1>0, <2>2 DEF CInv, TypeOK
    <3>2. \A c \in Cargos : c \in s.borra \/ asig[p][c] = 0
      <4>1. CASE s.pedido.op \in {"ajustar", "revertir"}
        BY <2>3, <2>4, <2>5, <3>1, <4>1 DEF Filas
      <4>2. CASE s.pedido.op \in {"acreditar", "webhook"}
        <5>1. asig[p] = SinAsignar
          BY <1>0, <2>2, <2>3, <2>4, <2>5, <4>2
          DEF CInv, FInv, PendienteSinAsignaciones, RevertidoSinAsignaciones
        <5> QED BY <5>1 DEF SinAsignar
      <4> QED BY <2>2, <4>1, <4>2 DEF Ops
    <3>3. ASSUME NEW c \in Cargos PROVE asig'[p][c] = s.plan[c]
      <4>1. s.plan[c] \in Nat
        BY <2>2
      <4>2. asig'[p][c] = IF s.plan[c] > 0 THEN s.plan[c]
                          ELSE IF c \in s.borra THEN 0 ELSE asig[p][c]
        BY <2>2
      <4> QED BY <3>2, <4>1, <4>2
    <3>4. asig'[p] = [c \in Cargos |-> asig'[p][c]] /\ s.plan = [c \in Cargos |-> s.plan[c]]
      BY <2>2
    <3> QED BY <3>3, <3>4
  <2>6. SumaConLecturaFresca'
    BY <2>2, <2>3, <2>4, <2>5 DEF FInv, SumaConLecturaFresca
  <2>7. p \notin desfasados' /\ pago'[p] = "revertido" => s.plan = SinAsignar
    <3>1. CASE s.pedido.op = "ajustar"
      BY <2>1, <2>2, <2>3, <2>4, <3>1 DEF EstadoFinal
    <3>2. CASE s.pedido.op \in {"acreditar", "webhook"}
      BY <2>2, <3>2 DEF EstadoFinal
    <3>3. CASE s.pedido.op = "revertir"
      BY <2>3, <3>3
    <3> QED BY <2>2, <3>1, <3>2, <3>3 DEF Ops
  <2>8. RevertidoSinAsignaciones'
    BY <2>2, <2>4, <2>5, <2>7 DEF FInv, RevertidoSinAsignaciones
  <2>9. /\ ses'[w] = SesionLibre
        /\ \A x \in Sesiones : x # w =>
             /\ ses'[x].paso = ses[x].paso /\ ses'[x].pedido = ses[x].pedido
             /\ ses'[x].plan = ses[x].plan
             /\ \/ ses'[x] = ses[x]
                   /\ (ses[x].paso \in {"libre", "leer"} \/ ses[x].pedido.pago # p)
                \/ ses'[x].fresca = FALSE /\ ses[x].paso \notin {"libre", "leer"}
    BY <1>0, <1>9, <2>1, ConfirmarSesiones
  <2>10. ASSUME NEW x \in Sesiones PROVE FrescaOK(ses[x])'
    <3>1. CASE x = w
      BY <2>9, <3>1 DEF FrescaOK, SesionLibre
    <3>2. CASE x # w /\ ses'[x] = ses[x]
               /\ (ses[x].paso \in {"libre", "leer"} \/ ses[x].pedido.pago # p)
      <4>1. PICK t : t = ses[x] /\ FrescaOK(t)
        BY <1>0
      <4>2. t.paso # "libre" => t.pedido.pago \in Pagos
        BY <1>0, <4>1, PedidosAssumption DEF CInv, SesionOK
      <4>3. t.paso \notin {"libre", "leer"} => pago'[t.pedido.pago] = pago[t.pedido.pago]
                                               /\ asig'[t.pedido.pago] = asig[t.pedido.pago]
        BY <2>2, <3>2, <4>1, <4>2
      <4> QED BY <3>2, <4>1, <4>3 DEF FrescaOK
    <3>3. CASE x # w /\ ses'[x].fresca = FALSE /\ ses[x].paso \notin {"libre", "leer"}
      <4>1. PICK t, u : t = ses[x] /\ u = ses'[x] /\ FrescaOK(t)
        BY <1>0
      <4>2. /\ u.paso = t.paso /\ u.pedido = t.pedido /\ u.plan = t.plan
            /\ u.fresca = FALSE /\ u.paso \notin {"libre", "leer"}
        BY <2>9, <3>3, <4>1
      <4> QED BY <4>1, <4>2 DEF FrescaOK
    <3> QED BY <2>9, <3>1, <3>2, <3>3
  <2> QED BY <1>0, <2>6, <2>8, <2>10 DEF FInv
<1>10. ASSUME NEW w \in Sesiones, Abortar(w) PROVE FInv'
  BY <1>4, <1>10 DEF Abortar
<1> QED BY <1>1, <1>2, <1>3, <1>5, <1>6, <1>7, <1>8, <1>9, <1>10 DEF Next

LEMMA FrescaInicial == Init => FInv
<1> SUFFICES ASSUME Init PROVE FInv
  OBVIOUS
<1>1. CInv
  BY CobranzasInicial
<1>2. \A w \in Sesiones : FrescaOK(ses[w])
  BY DEF Init, FrescaOK, SesionLibre
<1>3. SumaConLecturaFresca
  BY SumaSinAsignar DEF Init, SumaConLecturaFresca
<1>4. RevertidoSinAsignaciones
  BY DEF Init, RevertidoSinAsignaciones
<1> QED BY <1>1, <1>2, <1>3, <1>4 DEF FInv

\* What is allocated of a payment exceeds it only if a transaction committed on a
\* stale reading of it (AcreditarCobranza, AjustarAsignaciones and the webhook lock
\* no row), and only until AjustarAsignaciones or RevertirCobranza deletes on a
\* fresh one.
THEOREM SinExceso == Spec => []SumaConLecturaFresca
<1>1. FInv => SumaConLecturaFresca
  BY DEF FInv
<1> QED BY <1>1, FrescaInicial, FrescaInv, PTL DEF Spec

\* RevertirCobranza releases all that the payment paid, with the same exception.
THEOREM RevertidoPagaNada == Spec => []RevertidoSinAsignaciones
<1>1. FInv => RevertidoSinAsignaciones
  BY DEF FInv
<1> QED BY <1>1, FrescaInicial, FrescaInv, PTL DEF Spec

-----------------------------------------------------------------------------
(* Distribucion: the conceptos, a fold of the gastos *)

\* The largest of a set of positions is one of them.
LEMMA MaximoEs ==
  ASSUME NEW n \in Nat, NEW s \in SUBSET (1..n), s # {}
  PROVE  Max(s) \in s /\ \A k \in s : k <= Max(s)
<1>1. PICK B : B = {n - k : k \in s}
  OBVIOUS
<1>2. B \in SUBSET Nat /\ B # {}
  <2>1. \A k \in s : n - k \in Nat
    OBVIOUS
  <2> QED BY <1>1, <2>1
<1>3. PICK b \in B : \A k \in B : b <= k
  BY <1>2, MinimoNat
<1>4. PICK m \in s : b = n - m
  BY <1>1
<1>5. \A k \in s : n - m <= n - k
  BY <1>1, <1>3, <1>4
<1>6. \A k \in s : m >= k
  BY <1>4, <1>5
<1>7. Max(s) \in s /\ \A k \in s : Max(s) >= k
  BY <1>6 DEF Max
<1> QED BY <1>7

\* A set of positions: each of its subsets is finite and has a last element.
Posicional(s) == \A t \in SUBSET s : IsFiniteSet(t) /\ (t # {} => Max(t) \in t)

LEMMA Posiciones1 ==
  ASSUME NEW n \in Nat, NEW s \in SUBSET (1..n)
  PROVE  Posicional(s)
<1>1. IsFiniteSet(1..n)
  BY FS_Interval
<1>2. \A t \in SUBSET s : t \in SUBSET (1..n)
  OBVIOUS
<1>3. \A t \in SUBSET s : IsFiniteSet(t)
  BY <1>1, <1>2, FS_Subset
<1>4. \A t \in SUBSET s : t # {} => Max(t) \in t
  BY <1>2, MaximoEs
<1> QED BY <1>3, <1>4 DEF Posicional

\* The equation of the fold of agruparConceptos over a set of positions of gs.
IterA(gs, S, g) ==
    g = [s \in SUBSET S |-> IF s = {} THEN <<>> ELSE Agregar(g[s \ {Max(s)}], gs[Max(s)])]
Agrupado(gs, S) == (CHOOSE g : IterA(gs, S, g))[S]

LEMMA AgruparEs == \A gs : AgruparConceptos(gs) = Agrupado(gs, DOMAIN gs)
  BY DEF AgruparConceptos, FoldLeft, MapThenFoldSet, Agrupado, IterA

\* Two solutions agree where both are defined.
LEMMA IterAUnica ==
  ASSUME NEW gs, NEW S, NEW U, NEW g, NEW h, IterA(gs, S, g), IterA(gs, U, h),
         NEW s \in SUBSET (S \cap U), Posicional(s)
  PROVE  g[s] = h[s]
<1>1. PICK B : B = {t \in SUBSET s : g[t] # h[t]}
  OBVIOUS
<1>2. \A t \in B : IsFiniteSet(t) /\ (t # {} => Max(t) \in t)
  BY <1>1 DEF Posicional
<1>3. ASSUME NEW t \in B, \A r \in B : r \subseteq t => r = t PROVE FALSE
  <2>1. /\ g[t] = IF t = {} THEN <<>> ELSE Agregar(g[t \ {Max(t)}], gs[Max(t)])
        /\ h[t] = IF t = {} THEN <<>> ELSE Agregar(h[t \ {Max(t)}], gs[Max(t)])
    BY <1>1 DEF IterA
  <2>2. t # {} /\ g[t \ {Max(t)}] # h[t \ {Max(t)}]
    BY <1>1, <2>1
  <2>3. t \ {Max(t)} \in B
    BY <1>1, <2>2
  <2> QED BY <1>2, <1>3, <2>2, <2>3
<1>4. \A t \in B : IsFiniteSet(t)
  BY <1>2
<1>5. B = {}
  BY <1>3, <1>4, MinimoSub
<1> QED BY <1>1, <1>5

\* The equation has a solution.
LEMMA IterAExiste ==
  ASSUME NEW gs, NEW S, Posicional(S)
  PROVE  \E g : IterA(gs, S, g)
<1>1. PICK B : B = {t \in SUBSET S : ~\E g : IterA(gs, t, g)}
  OBVIOUS
<1>2. \A t \in SUBSET S : /\ IsFiniteSet(t) /\ (t # {} => Max(t) \in t)
                          /\ Posicional(t)
  BY DEF Posicional
<1>3. ASSUME NEW s \in B, \A t \in B : t \subseteq s => t = s PROVE FALSE
  <2>0. s \in SUBSET S /\ ~\E g : IterA(gs, s, g)
    BY <1>1
  <2>1. ASSUME NEW t \in SUBSET s, t # s
        PROVE  Agrupado(gs, t) = IF t = {} THEN <<>>
                                 ELSE Agregar(Agrupado(gs, t \ {Max(t)}), gs[Max(t)])
    <3>1. \A r \in SUBSET s : r # s => IterA(gs, r, CHOOSE g : IterA(gs, r, g))
      BY <1>1, <1>3
    <3>2. PICK g : g = (CHOOSE f : IterA(gs, t, f)) /\ IterA(gs, t, g)
      BY <2>1, <3>1
    <3>3. Agrupado(gs, t) = g[t]
      BY <3>2 DEF Agrupado
    <3>4. g[t] = IF t = {} THEN <<>> ELSE Agregar(g[t \ {Max(t)}], gs[Max(t)])
      BY <3>2 DEF IterA
    <3>5. CASE t # {}
      <4>1. Max(t) \in t
        BY <1>2, <2>0, <3>5
      <4>0. PICK r : r = t \ {Max(t)}
        OBVIOUS
      <4>2. r = t \ {Max(t)} /\ r \in SUBSET s /\ r # s /\ r \in SUBSET (t \cap r)
        BY <2>1, <4>0, <4>1
      <4>3. PICK h : h = (CHOOSE f : IterA(gs, r, f)) /\ IterA(gs, r, h)
        BY <3>1, <4>2
      <4>4. IterA(gs, t, g) /\ IterA(gs, r, h) /\ Posicional(r)
        BY <1>2, <2>0, <3>2, <4>2, <4>3
      <4>5. g[r] = h[r]
        BY <4>2, <4>4, IterAUnica
      <4>6. Agrupado(gs, r) = h[r]
        BY <4>3 DEF Agrupado
      <4> QED BY <3>3, <3>4, <3>5, <4>2, <4>5, <4>6
    <3> QED BY <3>3, <3>4, <3>5
  <2>2. PICK g : g = [t \in SUBSET s |-> IF t = {} THEN <<>>
                                         ELSE Agregar(Agrupado(gs, t \ {Max(t)}), gs[Max(t)])]
    OBVIOUS
  <2>3. ASSUME NEW t \in SUBSET s, t # {}
        PROVE  g[t \ {Max(t)}] = Agrupado(gs, t \ {Max(t)})
    <3>1. Max(t) \in t
      BY <1>2, <2>0, <2>3
    <3>2. t \ {Max(t)} \in SUBSET s /\ t \ {Max(t)} # s
      BY <3>1
    <3> QED BY <2>1, <2>2, <3>2
  <2>4. IterA(gs, s, g)
    BY <2>2, <2>3 DEF IterA
  <2> QED BY <2>0, <2>4
<1>4. \A t \in B : IsFiniteSet(t)
  BY <1>1, <1>2
<1>5. B = {}
  BY <1>3, <1>4, MinimoSub
<1>6. S \in SUBSET S
  OBVIOUS
<1> QED BY <1>1, <1>5, <1>6

\* agruparConceptos takes the gastos one after the other.
LEMMA AgruparPaso ==
  ASSUME NEW n \in Nat, NEW gs, NEW k \in 0..n
  PROVE  Agrupado(gs, 1..k) = IF k = 0 THEN <<>> ELSE Agregar(Agrupado(gs, 1..(k-1)), gs[k])
<1>1. PICK q, r : q = 1..k /\ r = 1..(k-1) /\ r \in SUBSET (q \cap r)
  OBVIOUS
<1>2. Posicional(q) /\ Posicional(r)
  <2>1. q \in SUBSET (1..n) /\ r \in SUBSET (1..n)
    BY <1>1
  <2> QED BY <2>1, Posiciones1
<1>3. PICK g : g = (CHOOSE f : IterA(gs, q, f)) /\ IterA(gs, q, g)
  BY <1>2, IterAExiste
<1>4. PICK h : h = (CHOOSE f : IterA(gs, r, f)) /\ IterA(gs, r, h)
  BY <1>2, IterAExiste
<1>5. Agrupado(gs, q) = g[q] /\ Agrupado(gs, r) = h[r]
  BY <1>3, <1>4 DEF Agrupado
<1>6. IterA(gs, q, g) /\ IterA(gs, r, h)
  BY <1>3, <1>4
<1>7. g[r] = h[r]
  BY <1>1, <1>2, <1>6, IterAUnica
<1>8. g[q] = IF q = {} THEN <<>> ELSE Agregar(g[q \ {Max(q)}], gs[Max(q)])
  BY <1>6 DEF IterA
<1>9. CASE k = 0
  <2>1. q = {}
    BY <1>1, <1>9
  <2> QED BY <1>1, <1>5, <1>8, <1>9, <2>1
<1>10. CASE k # 0
  <2>1. k \in q /\ q # {} /\ q \in SUBSET (1..n)
    BY <1>1, <1>10
  <2>2. Max(q) \in q /\ k <= Max(q)
    BY <2>1, MaximoEs
  <2>3. Max(q) = k /\ q \ {k} = r
    BY <1>1, <2>2
  <2> QED BY <1>1, <1>5, <1>7, <1>8, <1>10, <2>1, <2>3
<1> QED BY <1>9, <1>10

\* The amounts of the gastos of concepto x, those of all the gastos, and those of
\* the conceptos ds.
Del(gs, x) == [m \in DOMAIN gs |-> IF gs[m].concepto = x THEN gs[m].importe ELSE 0]
Todo(gs) == [m \in DOMAIN gs |-> gs[m].importe]
Imp(ds) == [a \in DOMAIN ds |-> ds[a].importe]
Fila == [concepto: Conceptos, importe: Nat]

\* ds is what agruparConceptos has made of the first k gastos.
EsAgrupado(gs, k, ds) ==
    /\ ds \in Seq(Fila)
    /\ \A a, b \in DOMAIN ds : ds[a].concepto = ds[b].concepto => a = b
    /\ \A a \in DOMAIN ds : ds[a].importe = Sobre(Del(gs, ds[a].concepto), 1..k)
    /\ \A m \in 1..k : \E a \in DOMAIN ds : ds[a].concepto = gs[m].concepto
    /\ Sobre(Imp(ds), 1..Len(ds)) = Sobre(Todo(gs), 1..k)

\* The sums over the first k gastos grow with the gasto k.
LEMMA GastosSuman ==
  ASSUME NEW n \in Nat, NEW gs \in [1..n -> Gasto], NEW k \in 1..n
  PROVE  /\ gs[k].importe \in Nat /\ gs[k].concepto \in Conceptos
         /\ Sobre(Todo(gs), 1..k) = Sobre(Todo(gs), 1..(k-1)) + gs[k].importe
         /\ Sobre(Todo(gs), 1..k) \in Nat /\ Sobre(Todo(gs), 1..(k-1)) \in Nat
         /\ \A x : /\ Sobre(Del(gs, x), 1..k) = Sobre(Del(gs, x), 1..(k-1)) + Del(gs, x)[k]
                   /\ Del(gs, x)[k] = IF gs[k].concepto = x THEN gs[k].importe ELSE 0
                   /\ Sobre(Del(gs, x), 1..k) \in Nat /\ Sobre(Del(gs, x), 1..(k-1)) \in Nat
<1>1. \A m \in 1..n : gs[m].importe \in Nat /\ gs[m].concepto \in Conceptos
  BY EntradasAssumption DEF Gasto
<1>2. \A m \in 1..n : Todo(gs)[m] = gs[m].importe /\ Todo(gs)[m] \in Nat
  BY <1>1 DEF Todo
<1>4. /\ Sobre(Todo(gs), 1..k) = Sobre(Todo(gs), 1..(k-1)) + gs[k].importe
      /\ Sobre(Todo(gs), 1..k) \in Nat /\ Sobre(Todo(gs), 1..(k-1)) \in Nat
  <2>1. PICK f : f = Todo(gs) /\ \A m \in 1..n : f[m] \in Nat
    BY <1>2
  <2>2. /\ Sobre(f, 1..k) = Sobre(f, 1..(k-1)) + f[k]
        /\ Sobre(f, 1..k) \in Nat /\ Sobre(f, 1..(k-1)) \in Nat
    BY <2>1, HastaUno
  <2> QED BY <1>2, <2>1, <2>2
<1>5. ASSUME NEW x
      PROVE  /\ Sobre(Del(gs, x), 1..k) = Sobre(Del(gs, x), 1..(k-1)) + Del(gs, x)[k]
             /\ Del(gs, x)[k] = IF gs[k].concepto = x THEN gs[k].importe ELSE 0
             /\ Sobre(Del(gs, x), 1..k) \in Nat /\ Sobre(Del(gs, x), 1..(k-1)) \in Nat
  <2>1. \A m \in 1..n : /\ Del(gs, x)[m] = IF gs[m].concepto = x THEN gs[m].importe ELSE 0
                        /\ Del(gs, x)[m] \in Nat
    BY <1>1 DEF Del
  <2>2. PICK f : f = Del(gs, x) /\ \A m \in 1..n : f[m] \in Nat
    BY <2>1
  <2>3. /\ Sobre(f, 1..k) = Sobre(f, 1..(k-1)) + f[k]
        /\ Sobre(f, 1..k) \in Nat /\ Sobre(f, 1..(k-1)) \in Nat
    BY <2>2, HastaUno
  <2> QED BY <2>1, <2>2, <2>3
<1> QED BY <1>1, <1>4, <1>5

\* What agruparConceptos does with one gasto more.
LEMMA AgregarAgrupa ==
  ASSUME NEW n \in Nat, NEW gs \in [1..n -> Gasto], NEW k \in 1..n,
         NEW ds, EsAgrupado(gs, k-1, ds)
  PROVE  EsAgrupado(gs, k, Agregar(ds, gs[k]))
<1>1. PICK g, l, ns : g = gs[k] /\ l = Len(ds) /\ ns = Agregar(ds, g)
  OBVIOUS
<1>2. /\ g.importe \in Nat /\ g.concepto \in Conceptos
      /\ Sobre(Todo(gs), 1..k) = Sobre(Todo(gs), 1..(k-1)) + g.importe
      /\ Sobre(Todo(gs), 1..(k-1)) \in Nat
      /\ \A x : /\ Sobre(Del(gs, x), 1..k)
                     = Sobre(Del(gs, x), 1..(k-1)) + (IF g.concepto = x THEN g.importe ELSE 0)
                /\ Sobre(Del(gs, x), 1..(k-1)) \in Nat
  <2>1. /\ gs[k].importe \in Nat /\ gs[k].concepto \in Conceptos
        /\ Sobre(Todo(gs), 1..k) = Sobre(Todo(gs), 1..(k-1)) + gs[k].importe
        /\ Sobre(Todo(gs), 1..k) \in Nat /\ Sobre(Todo(gs), 1..(k-1)) \in Nat
        /\ \A x : /\ Sobre(Del(gs, x), 1..k) = Sobre(Del(gs, x), 1..(k-1)) + Del(gs, x)[k]
                  /\ Del(gs, x)[k] = IF gs[k].concepto = x THEN gs[k].importe ELSE 0
                  /\ Sobre(Del(gs, x), 1..k) \in Nat /\ Sobre(Del(gs, x), 1..(k-1)) \in Nat
    BY GastosSuman, Zenon
  <2>2. g = gs[k]
    BY <1>1
  <2> QED BY <2>1, <2>2
<1>3. /\ ds \in Seq(Fila) /\ l \in Nat /\ DOMAIN ds = 1..l
      /\ \A a \in 1..l : ds[a] \in Fila /\ ds[a].importe \in Nat
      /\ \A a, b \in 1..l : ds[a].concepto = ds[b].concepto => a = b
      /\ \A a \in 1..l : ds[a].importe = Sobre(Del(gs, ds[a].concepto), 1..(k-1))
      /\ \A m \in 1..(k-1) : \E a \in 1..l : ds[a].concepto = gs[m].concepto
      /\ Sobre(Imp(ds), 1..l) = Sobre(Todo(gs), 1..(k-1))
  <2>1. /\ ds \in Seq(Fila)
        /\ \A a, b \in DOMAIN ds : ds[a].concepto = ds[b].concepto => a = b
        /\ \A a \in DOMAIN ds : ds[a].importe = Sobre(Del(gs, ds[a].concepto), 1..(k-1))
        /\ \A m \in 1..(k-1) : \E a \in DOMAIN ds : ds[a].concepto = gs[m].concepto
        /\ Sobre(Imp(ds), 1..Len(ds)) = Sobre(Todo(gs), 1..(k-1))
    BY DEF EsAgrupado
  <2>2. l \in Nat /\ DOMAIN ds = 1..l /\ \A a \in 1..l : ds[a] \in Fila
    BY <1>1, <2>1
  <2>3. \A a \in 1..l : ds[a].importe \in Nat
    BY <2>2 DEF Fila
  <2> QED BY <1>1, <2>1, <2>2, <2>3
<1>4. IsFiniteSet(1..l) /\ \A a \in 1..l : Imp(ds)[a] = ds[a].importe
  BY <1>3, FS_Interval DEF Imp
<1>5. CASE Posiciones(ds, g) = {}
  <2>1. ns = Append(ds, g) /\ \A a \in 1..l : ds[a].concepto # g.concepto
    BY <1>1, <1>3, <1>5 DEF Agregar, Posiciones
  <2>2. g \in Fila
    BY <1>1, <1>2 DEF Gasto, Fila
  <2>3. /\ ns \in Seq(Fila) /\ Len(ns) = l+1 /\ DOMAIN ns = 1..(l+1)
        /\ \A a \in 1..l : ns[a] = ds[a]
        /\ ns[l+1] = g
    BY <1>1, <1>3, <2>1, <2>2
  <2>4. \A a \in 1..(l+1) : a \in 1..l \/ a = l+1
    BY <1>3
  <2>5. \A a, b \in 1..(l+1) : ns[a].concepto = ns[b].concepto => a = b
    BY <1>3, <2>1, <2>3, <2>4
  <2>6. Sobre(Del(gs, g.concepto), 1..(k-1)) = 0
    <3>1. IsFiniteSet(1..(k-1))
      BY FS_Interval
    <3>2. \A m \in 1..(k-1) : gs[m].concepto # g.concepto
      BY <1>3, <2>1
    <3>3. \A m \in 1..(k-1) : Del(gs, g.concepto)[m] = 0
      BY <3>2 DEF Del
    <3> QED BY <3>1, <3>3, SobreCero
  <2>7. ASSUME NEW a \in 1..(l+1)
        PROVE  ns[a].importe = Sobre(Del(gs, ns[a].concepto), 1..k)
    <3>1. CASE a \in 1..l
      <4>1. ns[a] = ds[a] /\ ds[a].concepto # g.concepto
            /\ ds[a].importe = Sobre(Del(gs, ds[a].concepto), 1..(k-1))
        BY <1>3, <2>1, <2>3, <3>1
      <4>2. Sobre(Del(gs, ds[a].concepto), 1..k) = Sobre(Del(gs, ds[a].concepto), 1..(k-1))
        BY <1>2, <4>1
      <4> QED BY <4>1, <4>2
    <3>2. CASE a = l+1
      <4>1. Sobre(Del(gs, g.concepto), 1..k) = g.importe
        BY <1>2, <2>6
      <4> QED BY <2>3, <3>2, <4>1
    <3> QED BY <2>4, <3>1, <3>2
  <2>8. \A m \in 1..k : \E a \in 1..(l+1) : ns[a].concepto = gs[m].concepto
    <3>1. \A m \in 1..k : m \in 1..(k-1) \/ m = k
      OBVIOUS
    <3>2. l+1 \in 1..(l+1) /\ \A a \in 1..l : a \in 1..(l+1)
      BY <1>3
    <3>3. ASSUME NEW m \in 1..(k-1)
          PROVE  \E a \in 1..(l+1) : ns[a].concepto = gs[m].concepto
      <4>1. PICK a \in 1..l : ds[a].concepto = gs[m].concepto
        BY <1>3
      <4>2. ns[a] = ds[a] /\ a \in 1..(l+1)
        BY <2>3, <3>2
      <4> QED BY <4>1, <4>2
    <3>4. ns[l+1].concepto = gs[k].concepto
      BY <1>1, <2>3
    <3> QED BY <3>1, <3>2, <3>3, <3>4
  <2>9. Sobre(Imp(ns), 1..(l+1)) = Sobre(Todo(gs), 1..k)
    <3>1. \A a \in 1..(l+1) : Imp(ns)[a] = ns[a].importe /\ Imp(ns)[a] \in Nat
      BY <1>2, <1>3, <2>3, <2>4 DEF Imp
    <3>2. l+1 \in 1..(l+1) /\ (l+1)-1 = l /\ l+1 \in Nat
      BY <1>3
    <3>3. Sobre(Imp(ns), 1..(l+1)) = Sobre(Imp(ns), 1..l) + Imp(ns)[l+1]
      <4>1. PICK f, q : f = Imp(ns) /\ q = l+1
        OBVIOUS
      <4>2. q \in Nat /\ (\A j \in 1..q : f[j] \in Nat) /\ q \in 1..q /\ q-1 = l
        BY <3>1, <3>2, <4>1
      <4>3. Sobre(f, 1..q) = Sobre(f, 1..(q-1)) + f[q]
        BY <4>2, SobrePrefijo
      <4> QED BY <4>1, <4>2, <4>3
    <3>4. \A a \in 1..l : Imp(ds)[a] \in Nat /\ Imp(ds)[a] = Imp(ns)[a]
      <4>1. ASSUME NEW a \in 1..l PROVE Imp(ds)[a] \in Nat /\ Imp(ds)[a] = Imp(ns)[a]
        <5>1. a \in 1..(l+1)
          BY <1>3
        <5>2. Imp(ns)[a] = ns[a].importe /\ Imp(ns)[a] \in Nat
          BY <3>1, <5>1
        <5>3. ns[a] = ds[a] /\ Imp(ds)[a] = ds[a].importe
          BY <1>4, <2>3
        <5> QED BY <5>2, <5>3
      <4> QED BY <4>1
    <3>5. Sobre(Imp(ds), 1..l) = Sobre(Imp(ns), 1..l)
      BY <1>4, <3>4, SobreIgual
    <3>6. Imp(ns)[l+1] = g.importe
      BY <2>3, <3>1, <3>2
    <3> QED BY <1>2, <1>3, <3>3, <3>5, <3>6
  <2> QED BY <1>1, <2>3, <2>5, <2>7, <2>8, <2>9 DEF EsAgrupado
<1>6. CASE Posiciones(ds, g) # {}
  <2>1. PICK p : p \in 1..l /\ ds[p].concepto = g.concepto
    BY <1>3, <1>6 DEF Posiciones
  <2>2. \A a \in 1..l : a \in Posiciones(ds, g) <=> a = p
    BY <1>3, <2>1 DEF Posiciones
  <2>3. ns = [a \in 1..l |-> IF a = p THEN [ds[a] EXCEPT !.importe = @ + g.importe] ELSE ds[a]]
    BY <1>1, <1>3, <1>6, <2>2 DEF Agregar
  <2>4. /\ ns[p].importe = ds[p].importe + g.importe
        /\ ns[p].concepto = g.concepto /\ ns[p] \in Fila
    <3>1. PICK d, v : d = ds[p] /\ v = d.importe + g.importe /\ v \in Nat /\ d \in Fila
      BY <1>2, <1>3, <2>1
    <3>2. ns[p] = [d EXCEPT !.importe = v]
      BY <2>1, <2>3, <3>1
    <3>3. ns[p].importe = v /\ ns[p].concepto = d.concepto /\ ns[p] \in Fila
      BY <3>1, <3>2 DEF Fila
    <3> QED BY <2>1, <3>1, <3>3
  <2>5. \A a \in 1..l : a # p => ns[a] = ds[a]
    BY <2>3
  <2>6. \A a \in 1..l : ns[a].concepto = ds[a].concepto /\ ns[a] \in Fila
    BY <1>3, <2>1, <2>4, <2>5
  <2>7. ns \in Seq(Fila) /\ Len(ns) = l /\ DOMAIN ns = 1..l
    <3>1. ns \in [1..l -> Fila]
      BY <2>3, <2>6
    <3> QED BY <1>3, <3>1
  <2>8. ASSUME NEW a \in 1..l PROVE ns[a].importe = Sobre(Del(gs, ns[a].concepto), 1..k)
    <3>1. CASE a = p
      <4>1. Sobre(Del(gs, g.concepto), 1..k) = Sobre(Del(gs, g.concepto), 1..(k-1)) + g.importe
        BY <1>2
      <4>2. ds[p].importe = Sobre(Del(gs, g.concepto), 1..(k-1))
        BY <1>3, <2>1
      <4> QED BY <2>4, <3>1, <4>1, <4>2
    <3>2. CASE a # p
      <4>1. ns[a] = ds[a] /\ ds[a].concepto # g.concepto
            /\ ds[a].importe = Sobre(Del(gs, ds[a].concepto), 1..(k-1))
        BY <1>3, <2>1, <2>5, <3>2
      <4>2. Sobre(Del(gs, ds[a].concepto), 1..k) = Sobre(Del(gs, ds[a].concepto), 1..(k-1))
        BY <1>2, <4>1
      <4> QED BY <4>1, <4>2
    <3> QED BY <3>1, <3>2
  <2>9. \A m \in 1..k : \E a \in 1..l : ns[a].concepto = gs[m].concepto
    <3>1. \A m \in 1..k : m \in 1..(k-1) \/ m = k
      OBVIOUS
    <3>2. ASSUME NEW m \in 1..(k-1)
          PROVE  \E a \in 1..l : ns[a].concepto = gs[m].concepto
      <4>1. PICK a \in 1..l : ds[a].concepto = gs[m].concepto
        BY <1>3
      <4> QED BY <2>6, <4>1
    <3>3. ns[p].concepto = gs[k].concepto
      BY <1>1, <2>4
    <3> QED BY <2>1, <3>1, <3>2, <3>3
  <2>10. Sobre(Imp(ns), 1..l) = Sobre(Todo(gs), 1..k)
    <3>1. \A a \in 1..l : Imp(ns)[a] = ns[a].importe
      BY <2>7 DEF Imp
    <3>2. \A a \in 1..l : Imp(ds)[a] \in Nat /\ Imp(ns)[a] \in Nat
      BY <1>3, <1>4, <2>6, <3>1 DEF Fila
    <3>3. \A a \in (1..l) \ {p} : Imp(ds)[a] = Imp(ns)[a]
      BY <1>4, <2>5, <3>1
    <3>4. PICK f, h, T : f = Imp(ds) /\ h = Imp(ns) /\ T = 1..l
      OBVIOUS
    <3>5. /\ IsFiniteSet(T) /\ p \in T
          /\ \A y \in T : f[y] \in Nat /\ h[y] \in Nat
          /\ \A y \in T \ {p} : f[y] = h[y]
      BY <1>4, <2>1, <3>2, <3>3, <3>4
    <3>6. Sobre(h, T) + f[p] = Sobre(f, T) + h[p]
      BY <3>5, SobreCambia
    <3>7. PICK a, b, t : a = Sobre(f, T) /\ b = Sobre(h, T) /\ t = f[p]
                         /\ a \in Nat /\ b \in Nat /\ t \in Nat
      BY <3>5, SobreNat
    <3>8. h[p] = t + g.importe /\ g.importe \in Nat
      BY <1>2, <1>4, <2>1, <2>4, <3>1, <3>4, <3>7
    <3>9. b = a + g.importe
      <4>1. b + t = a + (t + g.importe)
        BY <3>6, <3>7, <3>8
      <4> QED BY <3>7, <3>8, <4>1
    <3>10. a = Sobre(Todo(gs), 1..(k-1)) /\ b = Sobre(Imp(ns), 1..l)
      BY <1>3, <3>4, <3>7
    <3> QED BY <1>2, <3>9, <3>10
  <2>11. \A a, b \in 1..l : ns[a].concepto = ns[b].concepto => a = b
    BY <1>3, <2>6
  <2> QED BY <1>1, <2>7, <2>8, <2>9, <2>10, <2>11 DEF EsAgrupado
<1> QED BY <1>5, <1>6

\* What agruparConceptos makes of all the gastos.
LEMMA AgruparSuma ==
  ASSUME NEW n \in Nat, NEW gs \in [1..n -> Gasto]
  PROVE  EsAgrupado(gs, n, AgruparConceptos(gs))
<1>1. PICK B : B = {k \in 0..n : ~EsAgrupado(gs, k, Agrupado(gs, 1..k))}
  OBVIOUS
<1>2. ASSUME B # {} PROVE FALSE
  <2>1. B \in SUBSET Nat
    BY <1>1
  <2>2. PICK k \in B : \A m \in B : k <= m
    BY <1>2, <2>1, MinimoNat
  <2>3. k \in 0..n /\ ~EsAgrupado(gs, k, Agrupado(gs, 1..k))
    BY <1>1
  <2>4. Agrupado(gs, 1..k) = IF k = 0 THEN <<>> ELSE Agregar(Agrupado(gs, 1..(k-1)), gs[k])
    BY <2>3, AgruparPaso
  <2>5. CASE k = 0
    <3>1. PICK ds : ds = <<>>
      OBVIOUS
    <3>2. ds \in Seq(Fila) /\ Len(ds) = 0 /\ DOMAIN ds = {} /\ 1..k = {} /\ 1..0 = {}
      BY <2>5, <3>1
    <3>3. Sobre(Imp(ds), {}) = 0 /\ Sobre(Todo(gs), {}) = 0
      BY FS_EmptySet, SobreCero
    <3>4. EsAgrupado(gs, k, ds)
      BY <3>2, <3>3 DEF EsAgrupado
    <3> QED BY <2>3, <2>4, <2>5, <3>1, <3>4
  <2>6. CASE k # 0
    <3>1. k-1 \in 0..n /\ k \in 1..n /\ k-1 \notin B
      BY <2>1, <2>2, <2>3, <2>6
    <3>2. EsAgrupado(gs, k-1, Agrupado(gs, 1..(k-1)))
      BY <1>1, <3>1
    <3>3. EsAgrupado(gs, k, Agregar(Agrupado(gs, 1..(k-1)), gs[k]))
      BY <3>1, <3>2, AgregarAgrupa
    <3> QED BY <2>3, <2>4, <2>6, <3>3
  <2> QED BY <2>5, <2>6
<1>3. n \in 0..n /\ DOMAIN gs = 1..n
  OBVIOUS
<1>4. EsAgrupado(gs, n, Agrupado(gs, 1..n))
  BY <1>1, <1>2, <1>3
<1> QED BY <1>3, <1>4, AgruparEs

-----------------------------------------------------------------------------
(* Distribucion: the order of the units and the rounding of the shares *)

\* Multiplying by a positive number keeps the order.
LEMMA Producto ==
  ASSUME NEW a \in Nat, NEW b \in Nat, NEW d \in Nat, a <= b
  PROVE  a*d \in Nat /\ b*d \in Nat /\ d*a <= d*b /\ a*d <= b*d /\ d*a = a*d
<1>1. PICK e \in Nat : b = a + e
  <2>1. b - a \in Nat /\ b = a + (b - a)
    OBVIOUS
  <2> QED BY <2>1
<1>2. d*b = d*a + d*e /\ d*e \in Nat /\ d*a \in Nat /\ d*b = b*d /\ d*a = a*d
  BY <1>1
<1> QED BY <1>2

\* Amounts times Precision, and the two slopes of the computed share: that of an
\* amount I is off by at most 1/Precision of itself, between Baja(I) and Alta(I).
Escala(n) == Precision * n
Alta(I)   == (Precision + 1) * I
Baja(I)   == (Precision - 1) * I

LEMMA Escalas ==
  ASSUME NEW T \in Nat, NEW I \in Nat
  PROVE  /\ Escala(T) \in Nat /\ Escala(I) \in Nat /\ Alta(I) \in Nat /\ Baja(I) \in Nat
         /\ Escala(T)*I = Escala(I)*T
         /\ \A c \in Nat : /\ Alta(I)*c = Escala(I)*c + I*c /\ Baja(I)*c + I*c = Escala(I)*c
                           /\ Escala(I)*c \in Nat /\ Alta(I)*c \in Nat /\ Baja(I)*c \in Nat
                           /\ Escala(T)*c \in Nat /\ I*c \in Nat
<1>0. Precision \in Nat /\ Precision # 0
  BY EntradasAssumption
<1>1. PICK P, Q : P = Precision /\ P \in Nat /\ Q = P - 1 /\ Q \in Nat /\ P = Q + 1
  <2>1. Precision - 1 \in Nat /\ Precision = (Precision - 1) + 1
    BY <1>0
  <2> QED BY <1>0, <2>1
<1>2. PICK U, J, K, L : U = P*T /\ J = P*I /\ K = (P+1)*I /\ L = Q*I
                        /\ U \in Nat /\ J \in Nat /\ K \in Nat /\ L \in Nat
  BY <1>1
<1>3. K = J + I /\ L + I = J
  BY <1>1, <1>2
<1>4. U*I = J*T
  <2>1. (P*T)*I = (P*I)*T
    BY <1>1
  <2> QED BY <1>2, <2>1
<1>5. ASSUME NEW c \in Nat
      PROVE  /\ K*c = J*c + I*c /\ L*c + I*c = J*c
             /\ J*c \in Nat /\ K*c \in Nat /\ L*c \in Nat /\ U*c \in Nat /\ I*c \in Nat
  <2>1. /\ J*c \in Nat /\ K*c \in Nat /\ L*c \in Nat /\ U*c \in Nat /\ I*c \in Nat
    BY <1>2
  <2>2. (J+I)*c = J*c + I*c /\ (L+I)*c = L*c + I*c
    BY <1>2
  <2> QED BY <1>3, <2>1, <2>2
<1> QED BY <1>1, <1>2, <1>4, <1>5 DEF Escala, Alta, Baja

LEMMA RedondeosEs ==
  ASSUME NEW I \in Nat, NEW c \in Nat, NEW T \in Nat, NEW x \in Redondeos(I*c, T)
  PROVE  /\ x \in Nat
         /\ 2*(Escala(T)*x) <= 2*(Alta(I)*c) + Escala(T)
         /\ 2*(Baja(I)*c) <= 2*(Escala(T)*x) + Escala(T)
<1>0. Precision \in Nat /\ Precision # 0
  BY EntradasAssumption
<1>1. PICK P, Q : P = Precision /\ P \in Nat /\ Q = P - 1 /\ Q \in Nat /\ P = Q + 1
  <2>1. Precision - 1 \in Nat /\ Precision = (Precision - 1) + 1
    BY <1>0
  <2> QED BY <1>0, <2>1
<1>2. PICK a : a = I*c /\ a \in Nat
  OBVIOUS
<1>3. x \in Nat /\ 2*P*x*T <= 2*P*a + P*T + 2*a /\ 2*P*a <= 2*P*x*T + P*T + 2*a
  BY <1>1, <1>2 DEF Redondeos
<1>4. PICK U, J, K, L : /\ U = Escala(T) /\ J = Escala(I) /\ K = Alta(I) /\ L = Baja(I)
                        /\ U \in Nat /\ J \in Nat /\ K \in Nat /\ L \in Nat
                        /\ K*c = J*c + I*c /\ L*c + I*c = J*c
  <2>1. PICK U, J, K, L : U = P*T /\ J = P*I /\ K = (P+1)*I /\ L = Q*I
                          /\ U \in Nat /\ J \in Nat /\ K \in Nat /\ L \in Nat
    BY <1>1
  <2>2. K = J + I /\ L + I = J
    BY <1>1, <2>1
  <2>3. (J+I)*c = J*c + I*c /\ (L+I)*c = L*c + I*c
    BY <2>1
  <2>4. K*c = J*c + I*c /\ L*c + I*c = J*c
    BY <2>2, <2>3
  <2>5. U = Escala(T) /\ J = Escala(I) /\ K = Alta(I) /\ L = Baja(I)
    BY <1>1, <2>1 DEF Escala, Alta, Baja
  <2> QED BY <2>1, <2>4, <2>5
<1>5. U = P*T /\ J = P*I
  BY <1>1, <1>4 DEF Escala
<1>6. PICK ux, jc, kc, lc : /\ ux = U*x /\ jc = J*c /\ kc = K*c /\ lc = L*c
                            /\ ux \in Nat /\ jc \in Nat /\ kc \in Nat /\ lc \in Nat
                            /\ kc = jc + a /\ lc + a = jc
  BY <1>2, <1>3, <1>4
<1>7. P*x*T = ux /\ P*a = jc
  <2>1. P*x*T = (P*T)*x /\ P*(I*c) = (P*I)*c
    BY <1>1, <1>3
  <2> QED BY <1>2, <1>5, <1>6, <2>1
<1>8. 2*P*x*T = 2*ux /\ 2*P*a = 2*jc
  <2>1. 2*P*x*T = 2*(P*x*T) /\ 2*P*a = 2*(P*a)
    BY <1>1, <1>2, <1>3
  <2> QED BY <1>7, <2>1
<1>9. 2*ux <= 2*jc + U + 2*a /\ 2*jc <= 2*ux + U + 2*a
  BY <1>3, <1>5, <1>8
<1>10. U \in Nat
  BY <1>4
<1>11. 2*ux <= 2*kc + U /\ 2*lc <= 2*ux + U
  BY <1>2, <1>6, <1>9, <1>10
<1> QED BY <1>3, <1>4, <1>6, <1>11

\* An increasing arrangement of all the units is that of their codes.
LEMMA CrecienteEs ==
  ASSUME NEW o \in [UFs -> UFs], {o[n] : n \in UFs} = UFs,
         \A n, m \in UFs : n < m => o[n] < o[m]
  PROVE  o = [n \in UFs |-> n]
<1>0. UFs \subseteq Nat
  BY EntradasAssumption DEF UFs
<1>1. PICK B : B = {n \in UFs : o[n] # n}
  OBVIOUS
<1>2. ASSUME B # {} PROVE FALSE
  <2>1. PICK n \in B : \A k \in B : n <= k
    BY <1>0, <1>1, <1>2, MinimoNat
  <2>2. n \in UFs /\ o[n] # n /\ \A k \in UFs : k < n => o[k] = k
    BY <1>0, <1>1, <2>1
  <2>3. PICK m \in UFs : o[m] = n
    BY <2>2
  <2>4. m \in Nat /\ n \in Nat /\ o[n] \in UFs /\ o[n] \in Nat
    BY <1>0, <2>2, <2>3
  <2>5. m > n
    BY <2>2, <2>3, <2>4
  <2>6. o[n] < n
    BY <2>2, <2>3, <2>5
  <2>7. o[o[n]] = o[n] /\ o[o[n]] < o[n]
    BY <2>2, <2>4, <2>6
  <2> QED BY <2>4, <2>7
<1>3. \A n \in UFs : o[n] = n
  BY <1>1, <1>2
<1> QED BY <1>3

\* sort.Slice leaves the units in the order of their codes, however they came.
LEMMA PorCodigoEs ==
  ASSUME NEW e \in [UFs -> UFs], \A u, v \in UFs : e[u] = e[v] => u = v
  PROVE  PorCodigo(e) = [n \in UFs |-> n]
<1>1. IsFiniteSet(UFs)
  BY EntradasAssumption, FS_Interval DEF UFs
<1>2. e \in Injection(UFs, UFs)
  BY DEF Injection, IsInjective
<1>3. e \in Surjection(UFs, UFs)
  BY <1>1, <1>2, FS_Injection
<1>4. {e[n] : n \in UFs} = UFs
  BY <1>3 DEF Surjection
<1>5. PICK d : d = [n \in UFs |-> n]
  OBVIOUS
<1>6. /\ d \in [UFs -> UFs] /\ {d[n] : n \in UFs} = {e[n] : n \in UFs}
      /\ \A n, m \in UFs : n < m => d[n] < d[m]
  BY <1>4, <1>5
<1>7. PICK o : o = PorCodigo(e)
  OBVIOUS
<1>8. /\ o \in [UFs -> UFs] /\ {o[n] : n \in UFs} = {e[n] : n \in UFs}
      /\ \A n, m \in UFs : n < m => o[n] < o[m]
  <2>1. PICK S : S = {c \in [UFs -> UFs] : /\ {c[n] : n \in UFs} = {e[n] : n \in UFs}
                                           /\ \A n, m \in UFs : n < m => c[n] < c[m]}
    OBVIOUS
  <2>2. d \in S
    BY <1>6, <2>1
  <2>3. (CHOOSE c : c \in S) \in S
    BY <2>2, Zenon
  <2>4. o = CHOOSE c : c \in S
    BY <1>7, <2>1 DEF PorCodigo
  <2>5. o \in S
    BY <2>3, <2>4
  <2> QED BY <2>1, <2>5
<1> QED BY <1>4, <1>7, <1>8, CrecienteEs

\* The errors of a concepto of amount I after k units, whose coefficients add up to
\* A of T: the shares fall short or exceed by half a cent a unit and the error of the
\* quotients, and they exceed only if something was always left.  (All times Precision.)
Falta(T, I, A, k, q) == 2*(Escala(T)*I) <= 2*(Escala(T)*q) + 2*(Alta(I)*A) + k*Escala(T)
Sobra(T, I, A, k, q) ==
    q > 0 => 2*(Escala(T)*q) + 2*(Baja(I)*A) <= 2*(Escala(T)*I) + k*Escala(T)
\* What is left, with the share s of a unit of coefficient c.
SobraCon(T, I, A, k, q, s, c) ==
    q > 0 => 2*(Escala(T)*q) + 2*(Escala(T)*s) + 2*(Baja(I)*A) + Escala(T)
               <= 2*(Escala(T)*I) + 2*(Baja(I)*c) + k*Escala(T)
\* A share is at most half a cent for each of N units below the exact one, and half a
\* cent above it, but for the error of the quotients.
Cerca(T, I, N, s, c) ==
    2*(Escala(I)*c) <= 2*(Escala(T)*s) + N*Escala(T) + 2*(I*T)
NoExcede(T, I, s, c) == 2*(Escala(T)*s) <= 2*(Alta(I)*c) + Escala(T)

LEMMA CuentaInicio ==
  ASSUME NEW T \in Nat, NEW I \in Nat
  PROVE  Falta(T, I, 0, 0, I) /\ Sobra(T, I, 0, 0, I)
<1>1. PICK U, K, L : /\ U = Escala(T) /\ K = Alta(I) /\ L = Baja(I)
                     /\ U \in Nat /\ K \in Nat /\ L \in Nat
  BY Escalas
<1>2. U*I \in Nat /\ K*0 = 0 /\ L*0 = 0 /\ 0*U = 0
  BY <1>1
<1> QED BY <1>1, <1>2 DEF Falta, Sobra

\* A unit without a coefficient.
LEMMA CuentaSalta ==
  ASSUME NEW T \in Nat, NEW I \in Nat, NEW A \in Nat, NEW k \in Nat, NEW q \in Nat
  PROVE  /\ Falta(T, I, A, k, q) => Falta(T, I, A, k+1, q)
         /\ Sobra(T, I, A, k, q) => Sobra(T, I, A, k+1, q)
         /\ \A s, c \in Nat : SobraCon(T, I, A, k, q, s, c) => SobraCon(T, I, A, k+1, q, s, c)
<1>0. PICK U, K, L : /\ U = Escala(T) /\ K = Alta(I) /\ L = Baja(I)
                     /\ U \in Nat /\ K \in Nat /\ L \in Nat
  BY Escalas
<1>1. /\ U*I \in Nat /\ U*q \in Nat /\ K*A \in Nat /\ L*A \in Nat
      /\ k*U \in Nat /\ (k+1)*U = k*U + U
      /\ \A s, c \in Nat : U*s \in Nat /\ L*c \in Nat
  BY <1>0
<1>2. \A n : /\ Falta(T, I, A, n, q) <=> 2*(U*I) <= 2*(U*q) + 2*(K*A) + n*U
             /\ Sobra(T, I, A, n, q) <=> (q > 0 => 2*(U*q) + 2*(L*A) <= 2*(U*I) + n*U)
             /\ \A s, c : SobraCon(T, I, A, n, q, s, c) <=>
                  (q > 0 => 2*(U*q) + 2*(U*s) + 2*(L*A) + U <= 2*(U*I) + 2*(L*c) + n*U)
  BY <1>0 DEF Falta, Sobra, SobraCon
<1>3. Falta(T, I, A, k, q) => Falta(T, I, A, k+1, q)
  <2>1. ASSUME 2*(U*I) <= 2*(U*q) + 2*(K*A) + k*U
        PROVE  2*(U*I) <= 2*(U*q) + 2*(K*A) + (k+1)*U
    BY <1>0, <1>1, <2>1
  <2> QED BY <1>2, <2>1
<1>4. Sobra(T, I, A, k, q) => Sobra(T, I, A, k+1, q)
  <2>1. ASSUME 2*(U*q) + 2*(L*A) <= 2*(U*I) + k*U
        PROVE  2*(U*q) + 2*(L*A) <= 2*(U*I) + (k+1)*U
    BY <1>0, <1>1, <2>1
  <2> QED BY <1>2, <2>1
<1>5. ASSUME NEW s \in Nat, NEW c \in Nat
      PROVE  SobraCon(T, I, A, k, q, s, c) => SobraCon(T, I, A, k+1, q, s, c)
  <2>1. U*s \in Nat /\ L*c \in Nat
    BY <1>1
  <2>2. ASSUME 2*(U*q) + 2*(U*s) + 2*(L*A) + U <= 2*(U*I) + 2*(L*c) + k*U
        PROVE  2*(U*q) + 2*(U*s) + 2*(L*A) + U <= 2*(U*I) + 2*(L*c) + (k+1)*U
    BY <1>0, <1>1, <2>1, <2>2
  <2> QED BY <1>2, <2>2
<1> QED BY <1>3, <1>4, <1>5

\* The share x, rounded, of a unit of coefficient c; it pays r, and p is left.
LEMMA CuentaPaso ==
  ASSUME NEW T \in Nat, NEW I \in Nat, NEW A \in Nat, NEW k \in Nat, NEW q \in Nat,
         NEW N \in Nat, NEW c \in Nat, NEW x \in Nat, NEW r \in Nat, NEW p \in Nat,
         r = IF x > q THEN q ELSE x, p = q - r, A + c <= T, k < N,
         2*(Escala(T)*x) <= 2*(Alta(I)*c) + Escala(T),
         2*(Baja(I)*c) <= 2*(Escala(T)*x) + Escala(T),
         Falta(T, I, A, k, q), Sobra(T, I, A, k, q)
  PROVE  /\ Falta(T, I, A+c, k+1, p) /\ Sobra(T, I, A+c, k+1, p)
         /\ SobraCon(T, I, A+c, k+1, p, r, c)
         /\ Cerca(T, I, N, r, c) /\ NoExcede(T, I, r, c)
         /\ \A s, d \in Nat : SobraCon(T, I, A, k, q, s, d) => SobraCon(T, I, A+c, k+1, p, s, d)
<1>1. PICK U, J, K, L : /\ U = Escala(T) /\ J = Escala(I) /\ K = Alta(I) /\ L = Baja(I)
                        /\ U \in Nat /\ J \in Nat /\ K \in Nat /\ L \in Nat
                        /\ U*I = J*T /\ K*A = J*A + I*A /\ L*c + I*c = J*c
  BY Escalas
<1>2. \* The hypotheses and the goals.
      /\ 2*(U*x) <= 2*(K*c) + U /\ 2*(L*c) <= 2*(U*x) + U
      /\ 2*(U*I) <= 2*(U*q) + 2*(K*A) + k*U
      /\ q > 0 => 2*(U*q) + 2*(L*A) <= 2*(U*I) + k*U
  BY <1>1 DEF Falta, Sobra
<1>3. /\ Falta(T, I, A+c, k+1, p) <=> 2*(U*I) <= 2*(U*p) + 2*(K*(A+c)) + (k+1)*U
      /\ Sobra(T, I, A+c, k+1, p) <=> (p > 0 => 2*(U*p) + 2*(L*(A+c)) <= 2*(U*I) + (k+1)*U)
      /\ NoExcede(T, I, r, c) <=> 2*(U*r) <= 2*(K*c) + U
      /\ Cerca(T, I, N, r, c) <=> 2*(J*c) <= 2*(U*r) + N*U + 2*(I*T)
      /\ \A s, d :
           /\ SobraCon(T, I, A, k, q, s, d) <=>
                (q > 0 => 2*(U*q) + 2*(U*s) + 2*(L*A) + U <= 2*(U*I) + 2*(L*d) + k*U)
           /\ SobraCon(T, I, A+c, k+1, p, s, d) <=>
                (p > 0 => 2*(U*p) + 2*(U*s) + 2*(L*(A+c)) + U <= 2*(U*I) + 2*(L*d) + (k+1)*U)
  BY <1>1 DEF Falta, Sobra, SobraCon, NoExcede, Cerca
<1>4. PICK ui, uq, up, ur, ux, ka, kc, la, lc, ku :
         /\ ui = U*I /\ uq = U*q /\ up = U*p /\ ur = U*r /\ ux = U*x
         /\ ka = K*A /\ kc = K*c /\ la = L*A /\ lc = L*c /\ ku = k*U
  OBVIOUS
<1>5. /\ ui \in Nat /\ uq \in Nat /\ up \in Nat /\ ur \in Nat /\ ux \in Nat
      /\ ka \in Nat /\ kc \in Nat /\ la \in Nat /\ lc \in Nat /\ ku \in Nat
  BY <1>1, <1>4
<1>6. K*(A+c) = ka + kc /\ L*(A+c) = la + lc /\ (k+1)*U = ku + U
  BY <1>1, <1>4
<1>7. uq = up + ur
  <2>1. q = p + r
    OBVIOUS
  <2> QED BY <1>1, <1>4, <2>1
<1>8. ur <= ux
  <2>1. r <= x
    OBVIOUS
  <2> QED BY <1>1, <1>4, <2>1, Producto
<1>9. p > 0 => r = x /\ q > 0 /\ ur = ux
  BY <1>4
<1>10. /\ 2*ux <= 2*kc + U /\ 2*lc <= 2*ux + U
       /\ 2*ui <= 2*uq + 2*ka + ku
       /\ q > 0 => 2*uq + 2*la <= 2*ui + ku
  BY <1>2, <1>4
<1>11. NoExcede(T, I, r, c)
  <2>1. 2*ur <= 2*kc + U
    BY <1>1, <1>5, <1>8, <1>10
  <2> QED BY <1>3, <1>4, <2>1
<1>12. Falta(T, I, A+c, k+1, p)
  <2>1. 2*ui <= 2*up + 2*(ka + kc) + (ku + U)
    BY <1>1, <1>5, <1>7, <1>8, <1>10
  <2> QED BY <1>3, <1>4, <1>6, <2>1
<1>13. Sobra(T, I, A+c, k+1, p)
  <2>1. p > 0 => 2*up + 2*(la + lc) <= 2*ui + (ku + U)
    BY <1>1, <1>5, <1>7, <1>9, <1>10
  <2> QED BY <1>3, <1>4, <1>6, <2>1
<1>14. SobraCon(T, I, A+c, k+1, p, r, c)
  <2>1. p > 0 => 2*up + 2*ur + 2*(la + lc) + U <= 2*ui + 2*lc + (ku + U)
    BY <1>1, <1>5, <1>7, <1>9, <1>10
  <2> QED BY <1>3, <1>4, <1>6, <2>1
<1>15. ASSUME NEW s \in Nat, NEW d \in Nat, SobraCon(T, I, A, k, q, s, d)
       PROVE  SobraCon(T, I, A+c, k+1, p, s, d)
  <2>1. PICK us, ld : us = U*s /\ ld = L*d /\ us \in Nat /\ ld \in Nat
    BY <1>1
  <2>2. q > 0 => 2*uq + 2*us + 2*la + U <= 2*ui + 2*ld + ku
    BY <1>3, <1>4, <1>15, <2>1
  <2>3. p > 0 => 2*up + 2*us + 2*(la + lc) + U <= 2*ui + 2*ld + (ku + U)
    BY <1>1, <1>5, <1>7, <1>9, <1>10, <2>1, <2>2
  <2> QED BY <1>3, <1>4, <1>6, <2>1, <2>3
<1>16. Cerca(T, I, N, r, c)
  <2>1. PICK nu, it, ic, ia, jc, ja :
           /\ nu = N*U /\ it = I*T /\ ic = I*c /\ ia = I*A /\ jc = J*c /\ ja = J*A
           /\ nu \in Nat /\ it \in Nat /\ ic \in Nat /\ ia \in Nat /\ jc \in Nat /\ ja \in Nat
    BY <1>1
  <2>2. ka = ja + ia /\ lc + ic = jc
    BY <1>1, <1>4, <2>1
  <2>3. ku + U <= nu
    <3>1. k+1 <= N /\ k+1 \in Nat
      OBVIOUS
    <3>2. (k+1)*U <= N*U
      BY <1>1, <3>1, Producto
    <3> QED BY <1>6, <2>1, <3>2
  <2>4. ic <= it /\ ia <= it
    <3>1. c <= T /\ A <= T
      OBVIOUS
    <3> QED BY <2>1, <3>1, Producto
  <2>5. ja + jc <= ui
    <3>1. A + c \in Nat /\ J \in Nat
      BY <1>1
    <3>2. J*(A+c) <= J*T
      <4>1. \A y \in Nat : y <= T => J*y <= T*J /\ T*J = J*T
        BY <1>1, Producto
      <4> QED BY <3>1, <4>1
    <3>3. J*(A+c) = J*A + J*c
      BY <3>1
    <3> QED BY <1>1, <1>4, <2>1, <3>2, <3>3
  <2>6. /\ nu \in Nat /\ it \in Nat /\ ic \in Nat /\ ia \in Nat /\ jc \in Nat /\ ja \in Nat
        /\ U \in Nat
    BY <1>1, <2>1
  <2>7. CASE ur = ux
    <3>1. 2*jc <= 2*ur + nu + 2*it
      BY <1>5, <1>10, <2>2, <2>3, <2>4, <2>6, <2>7
    <3> QED BY <1>3, <1>4, <2>1, <3>1
  <2>8. CASE ur = uq
    <3>1. 2*jc <= 2*ur + nu + 2*it
      BY <1>5, <1>10, <2>2, <2>3, <2>4, <2>5, <2>6, <2>8
    <3> QED BY <1>3, <1>4, <2>1, <3>1
  <2> QED BY <1>4, <2>7, <2>8
<1> QED BY <1>11, <1>12, <1>13, <1>14, <1>15, <1>16

\* The residue goes to the share s of a unit of coefficient c.
LEMMA CuentaFin ==
  ASSUME NEW T \in Nat, NEW I \in Nat, NEW N \in Nat, NEW q \in Nat, NEW s \in Nat, NEW c \in Nat,
         N > 0, c <= T,
         SobraCon(T, I, T, N, q, s, c), Cerca(T, I, N, s, c), NoExcede(T, I, s, c)
  PROVE  /\ 2*(Escala(T)*(s+q)) <= 2*(Escala(I)*c) + N*Escala(T) + 2*(I*T)
         /\ Cerca(T, I, N, s+q, c)
<1>0. PICK U, J, K, L : /\ U = Escala(T) /\ J = Escala(I) /\ K = Alta(I) /\ L = Baja(I)
                        /\ U \in Nat /\ J \in Nat /\ K \in Nat /\ L \in Nat
                        /\ U*I = J*T /\ L*T + I*T = J*T
                        /\ K*c = J*c + I*c /\ L*c + I*c = J*c
                        /\ J*c \in Nat /\ I*c \in Nat /\ L*c \in Nat
                        /\ J*T \in Nat /\ I*T \in Nat /\ L*T \in Nat
  BY Escalas
<1>1. U*q \in Nat /\ U*s \in Nat /\ U*(s+q) = U*s + U*q
  BY <1>0
<1>2. U <= N*U /\ N*U \in Nat
  <2>1. 1 <= N /\ 1 \in Nat /\ 1*U = U
    BY <1>0
  <2> QED BY <1>0, <2>1, Producto
<1>3. I*c <= I*T
  BY Producto
<1>4. /\ 2*(J*c) <= 2*(U*s) + N*U + 2*(I*T)
      /\ 2*(U*s) <= 2*(K*c) + U
      /\ q > 0 => 2*(U*q) + 2*(U*s) + 2*(L*T) + U <= 2*(U*I) + 2*(L*c) + N*U
  BY <1>0 DEF Cerca, NoExcede, SobraCon
<1>5. Cerca(T, I, N, s+q, c)
  BY <1>0, <1>1, <1>2, <1>4 DEF Cerca
<1>6. 2*(U*(s+q)) <= 2*(J*c) + N*U + 2*(I*T)
  <2>1. CASE q = 0
    <3>1. PICK us, jc, ic, kc, nu, it :
             /\ us = U*s /\ jc = J*c /\ ic = I*c /\ kc = K*c /\ nu = N*U /\ it = I*T
      OBVIOUS
    <3>2. /\ us \in Nat /\ jc \in Nat /\ ic \in Nat /\ nu \in Nat /\ it \in Nat
          /\ kc = jc + ic /\ ic <= it /\ U <= nu /\ 2*us <= 2*kc + U
      BY <1>0, <1>1, <1>2, <1>3, <1>4, <3>1
    <3>3. 2*us <= 2*jc + nu + 2*it
      BY <1>0, <3>2
    <3>4. s + q = s
      BY <2>1
    <3> QED BY <3>1, <3>3, <3>4
  <2>2. CASE q > 0
    BY <1>0, <1>1, <1>2, <1>4, <2>2
  <2> QED BY <2>1, <2>2
<1> QED BY <1>0, <1>5, <1>6

-----------------------------------------------------------------------------
(* Distribucion: the invariant *)

\* The items of the concepto n, given those of each unit, the items unit u has, and
\* the conceptos the totals are about.
ItemDe(its, cf, n) == [u \in UFs |-> IF cf[u] = 0 THEN 0 ELSE its[u][n]]
Hechos(c, u, k, n) == IF c = 0 THEN 0 ELSE IF u < k THEN n ELSE n - 1
Tope(n, l) == IF n > l THEN l ELSE n

\* The inputs, and the types of what Distribuir computes.
DTipo ==
    /\ gastos \in UNION {[1..n -> Gasto] : n \in 1..MaxGastos}
    /\ entrada \in {e \in [UFs -> UFs] : \A u, v \in UFs : e[u] = e[v] => u = v}
    /\ coef \in [UFs -> Coefs]
    /\ items \in [UFs -> Seq(Nat)] /\ total \in [UFs -> Nat] /\ remain \in Nat

\* Before the loop.
Antes == cpto = 1 /\ remain = 0 /\ (\A u \in UFs : items[u] = <<>> /\ total[u] = 0)

\* The loop is over the conceptos, and in each over the units by their codes.
Marcha ==
    /\ CoefTotal > 0
    /\ orden = [u \in UFs |-> u]
    /\ con = AgruparConceptos(gastos)
    /\ pos \in 1..(NUFs + 1) /\ cpto \in 1..(Len(con) + 1)
    /\ cpto = Len(con) + 1 => pos = 1 /\ remain = 0
    /\ \A u \in UFs : Len(items[u]) = Hechos(coef[u], u, pos, cpto)

\* No cent is lost or made up: what was given out and what is left are the amounts.
Cuadra ==
    /\ \A n \in 1..(cpto - 1) : Sobre(ItemDe(items, coef, n), UFs) = con[n].importe
    /\ cpto <= Len(con) =>
         remain + Sobre(ItemDe(items, coef, cpto), 1..(pos - 1)) = con[cpto].importe
    /\ \A u \in UFs : total[u] = Sobre(items[u], 1..Len(items[u]))
    /\ Sobre(total, UFs) + remain = Sobre(Imp(con), 1..Tope(cpto, Len(con)))

\* The rounding errors of the concepto that is being given out ...
Parcial ==
    cpto <= Len(con) =>
        /\ Falta(CoefTotal, con[cpto].importe, Sobre(coef, 1..(pos-1)), pos-1, remain)
        /\ Sobra(CoefTotal, con[cpto].importe, Sobre(coef, 1..(pos-1)), pos-1, remain)
        /\ \A u \in 1..(pos-1) : coef[u] > 0 =>
             /\ SobraCon(CoefTotal, con[cpto].importe, Sobre(coef, 1..(pos-1)), pos-1, remain,
                         items[u][cpto], coef[u])
             /\ Cerca(CoefTotal, con[cpto].importe, NUFs, items[u][cpto], coef[u])
             /\ NoExcede(CoefTotal, con[cpto].importe, items[u][cpto], coef[u])

\* ... and those of the share s, of a unit of coefficient c, of a concepto of amount
\* I that was given out.
Justo(T, I, s, c) ==
    /\ 2*(Escala(T)*s) <= 2*(Escala(I)*c) + NUFs*Escala(T) + 2*(I*T)
    /\ Cerca(T, I, NUFs, s, c)
Justos ==
    \A u \in UFs, n \in 1..(cpto - 1) :
        coef[u] > 0 => Justo(CoefTotal, con[n].importe, items[u][n], coef[u])

DInv == DTipo /\ (pos = 0 => Antes) /\ (pos # 0 => Marcha /\ Cuadra /\ Parcial /\ Justos)

\* What the invariant says of the numbers at hand.
LEMMA Numeros ==
  ASSUME DTipo
  PROVE  /\ UFs = 1..NUFs /\ NUFs \in Nat /\ NUFs > 0 /\ IsFiniteSet(UFs)
         /\ \A u \in UFs : u \in Nat /\ coef[u] \in Nat /\ total[u] \in Nat /\ items[u] \in Seq(Nat)
         /\ CoefTotal = Sobre(coef, 1..NUFs) /\ CoefTotal \in Nat
         /\ \A k \in 0..NUFs : Sobre(coef, 1..k) \in Nat /\ Sobre(coef, 1..k) <= CoefTotal
         /\ \A k \in 1..NUFs : Sobre(coef, 1..k) = Sobre(coef, 1..(k-1)) + coef[k]
<1>1. UFs = 1..NUFs /\ NUFs \in Nat /\ NUFs > 0 /\ Coefs \subseteq Nat
  BY EntradasAssumption DEF UFs
<1>2. IsFiniteSet(UFs)
  BY <1>1, FS_Interval
<1>3. \A u \in UFs : u \in Nat /\ coef[u] \in Nat /\ total[u] \in Nat /\ items[u] \in Seq(Nat)
  <2>1. coef \in [UFs -> Coefs] /\ items \in [UFs -> Seq(Nat)] /\ total \in [UFs -> Nat]
    BY DEF DTipo
  <2>2. \A u \in UFs : coef[u] \in Coefs /\ total[u] \in Nat /\ items[u] \in Seq(Nat)
    BY <2>1
  <2>3. \A u \in UFs : u \in Nat
    BY <1>1
  <2>4. \A u \in UFs : coef[u] \in Nat
    BY <1>1, <2>2
  <2> QED BY <2>2, <2>3, <2>4
<1>4. CoefTotal = Sobre(coef, 1..NUFs)
  <2>1. DOMAIN coef = UFs
    BY DEF DTipo
  <2> QED BY <1>1, <2>1 DEF CoefTotal, Suma, FoldFunction, Sobre
<1>5. \A k \in 1..NUFs : coef[k] \in Nat
  BY <1>1, <1>3
<1>6. /\ \A k \in 0..NUFs : Sobre(coef, 1..k) \in Nat
      /\ \A k \in 1..NUFs : Sobre(coef, 1..k) = Sobre(coef, 1..(k-1)) + coef[k]
  BY <1>1, <1>5, SobrePrefijo
<1>7. NUFs \in 0..NUFs
  BY <1>1
<1>8. ASSUME NEW k \in 0..NUFs PROVE Sobre(coef, 1..k) <= Sobre(coef, 1..NUFs)
  <2>1. NUFs \in k..NUFs
    BY <1>1
  <2> QED BY <1>1, <1>5, <2>1, PrefijoCrece
<1>9. Sobre(coef, 1..NUFs) \in Nat
  BY <1>6, <1>7
<1> QED BY <1>1, <1>2, <1>3, <1>4, <1>6, <1>8, <1>9

\* The conceptos, once they are grouped.
LEMMA Agrupados ==
  ASSUME NEW gs \in UNION {[1..n -> Gasto] : n \in 1..MaxGastos}, NEW ds,
         ds = AgruparConceptos(gs)
  PROVE  \E n \in Nat : /\ gs \in [1..n -> Gasto] /\ DOMAIN gs = 1..n
                        /\ EsAgrupado(gs, n, ds)
                        /\ ds \in Seq(Fila) /\ Len(ds) \in Nat /\ DOMAIN ds = 1..Len(ds)
                        /\ \A a \in 1..Len(ds) : ds[a].importe \in Nat
                        /\ Sobre(Imp(ds), 1..Len(ds)) = Sobre(Todo(gs), 1..n)
<1>1. PICK n \in 1..MaxGastos : gs \in [1..n -> Gasto]
  OBVIOUS
<1>2. n \in Nat /\ DOMAIN gs = 1..n
  BY <1>1, EntradasAssumption
<1>3. EsAgrupado(gs, n, ds)
  BY <1>1, <1>2, AgruparSuma
<1>4. ds \in Seq(Fila) /\ Sobre(Imp(ds), 1..Len(ds)) = Sobre(Todo(gs), 1..n)
  BY <1>3 DEF EsAgrupado
<1>5. Len(ds) \in Nat /\ DOMAIN ds = 1..Len(ds) /\ \A a \in 1..Len(ds) : ds[a] \in Fila
  BY <1>4
<1>6. \A a \in 1..Len(ds) : ds[a].importe \in Nat
  BY <1>5 DEF Fila
<1> QED BY <1>1, <1>2, <1>3, <1>4, <1>5, <1>6

\* The sums of the amounts of the conceptos.
LEMMA SumasDeConceptos ==
  ASSUME NEW gs \in UNION {[1..n -> Gasto] : n \in 1..MaxGastos}, NEW ds,
         ds = AgruparConceptos(gs)
  PROVE  /\ Len(ds) \in Nat /\ DOMAIN ds = 1..Len(ds)
         /\ \A a \in 1..Len(ds) : ds[a].importe \in Nat
         /\ Sobre(Imp(ds), 1..0) = 0
         /\ \A k \in 0..Len(ds) : Sobre(Imp(ds), 1..k) \in Nat
         /\ \A k \in 1..Len(ds) : Sobre(Imp(ds), 1..k) = Sobre(Imp(ds), 1..(k-1)) + ds[k].importe
<1>1. /\ Len(ds) \in Nat /\ DOMAIN ds = 1..Len(ds)
      /\ \A a \in 1..Len(ds) : ds[a].importe \in Nat
  BY Agrupados
<1>2. PICK f, l : f = Imp(ds) /\ l = Len(ds)
  OBVIOUS
<1>3. \A a \in 1..l : f[a] = ds[a].importe /\ f[a] \in Nat
  BY <1>1, <1>2 DEF Imp
<1>4. l \in Nat
  BY <1>1, <1>2
<1>5. /\ Sobre(f, 1..0) = 0
      /\ \A k \in 0..l : Sobre(f, 1..k) \in Nat
      /\ \A k \in 1..l : Sobre(f, 1..k) = Sobre(f, 1..(k-1)) + f[k]
  BY <1>3, <1>4, SobrePrefijo
<1> QED BY <1>1, <1>2, <1>3, <1>5

\* The start: nothing is given out yet.
LEMMA DInit == InitDis => DInv
<1> SUFFICES ASSUME InitDis PROVE DInv
  OBVIOUS
<1>1. /\ items = [u \in UFs |-> <<>>] /\ total = [u \in UFs |-> 0] /\ remain = 0
      /\ pos = 0 /\ cpto = 1
      /\ gastos \in UNION {[1..n -> Gasto] : n \in 1..MaxGastos}
      /\ entrada \in {e \in [UFs -> UFs] : \A u, v \in UFs : e[u] = e[v] => u = v}
      /\ coef \in [UFs -> Coefs]
  BY DEF InitDis
<1>2. items \in [UFs -> Seq(Nat)] /\ total \in [UFs -> Nat] /\ remain \in Nat
  BY <1>1
<1>3. \A u \in UFs : items[u] = <<>> /\ total[u] = 0
  BY <1>1
<1>4. DTipo
  BY <1>1, <1>2 DEF DTipo
<1>5. Antes
  BY <1>1, <1>3 DEF Antes
<1> QED BY <1>1, <1>4, <1>5 DEF DInv

\* Nothing moves.
LEMMA DQuieto ==
  ASSUME DInv, UNCHANGED varsDis
  PROVE  DInv'
<1>1. /\ gastos' = gastos /\ entrada' = entrada /\ coef' = coef /\ orden' = orden /\ con' = con
      /\ cpto' = cpto /\ pos' = pos /\ remain' = remain /\ items' = items /\ total' = total
  BY DEF varsDis
<1> QED BY <1>1 DEF DInv, DTipo, Antes, Marcha, Cuadra, Parcial, Justos, CoefTotal

\* The inputs and what was given out keep their types in a step of the loop.
LEMMA DEntradas ==
  ASSUME DTipo, UNCHANGED <<gastos, entrada, coef>>,
         items' \in [UFs -> Seq(Nat)], total' \in [UFs -> Nat], remain' \in Nat
  PROVE  DTipo' /\ CoefTotal' = CoefTotal
  BY DEF DTipo, CoefTotal

\* The first concepto.
LEMMA DPreparar ==
  ASSUME DInv, Preparar
  PROVE  DInv'
<1>1. /\ pos = 0 /\ CoefTotal > 0 /\ DTipo /\ Antes
      /\ orden' = PorCodigo(entrada) /\ con' = AgruparConceptos(gastos)
      /\ cpto' = 1 /\ pos' = 1
      /\ remain' = IF 1 \in DOMAIN con' THEN con'[1].importe ELSE 0
      /\ UNCHANGED <<gastos, entrada, coef>> /\ items' = items /\ total' = total
  BY DEF DInv, Preparar, Pasar
<1>2. orden' = [u \in UFs |-> u]
  BY <1>1, PorCodigoEs DEF DTipo
<1>3. gastos \in UNION {[1..n -> Gasto] : n \in 1..MaxGastos}
  BY <1>1 DEF DTipo
<1>4. PICK c, l : c = con' /\ l = Len(c)
  OBVIOUS
<1>5. /\ l \in Nat /\ DOMAIN c = 1..l
      /\ \A a \in 1..l : c[a].importe \in Nat
      /\ Sobre(Imp(c), 1..0) = 0
      /\ \A k \in 1..l : Sobre(Imp(c), 1..k) = Sobre(Imp(c), 1..(k-1)) + c[k].importe
  <2>1. c = AgruparConceptos(gastos)
    BY <1>1, <1>4
  <2>2. /\ Len(c) \in Nat /\ DOMAIN c = 1..Len(c)
        /\ \A a \in 1..Len(c) : c[a].importe \in Nat
        /\ Sobre(Imp(c), 1..0) = 0
        /\ \A k \in 1..Len(c) : Sobre(Imp(c), 1..k) = Sobre(Imp(c), 1..(k-1)) + c[k].importe
    BY <1>3, <2>1, SumasDeConceptos
  <2> QED BY <1>4, <2>2
<1>6. /\ remain' = IF l = 0 THEN 0 ELSE c[1].importe
      /\ remain' \in Nat
  BY <1>1, <1>4, <1>5
<1>7. DTipo' /\ CoefTotal' = CoefTotal
  <2>1. items \in [UFs -> Seq(Nat)] /\ total \in [UFs -> Nat]
    BY <1>1 DEF DTipo
  <2> QED BY <1>1, <1>6, <2>1, DEntradas
<1>8. UFs = 1..NUFs /\ NUFs \in Nat /\ NUFs > 0 /\ IsFiniteSet(UFs) /\ CoefTotal \in Nat
  BY <1>1, Numeros
<1>9. \A u \in UFs : items'[u] = <<>> /\ total'[u] = 0 /\ Len(items'[u]) = 0
  BY <1>1 DEF Antes
<1>10. Marcha'
  <2>1. pos' \in 1..(NUFs + 1) /\ cpto' \in 1..(l + 1) /\ (cpto' = l + 1 => remain' = 0)
    BY <1>1, <1>5, <1>6, <1>8
  <2>2. \A u \in UFs : Len(items'[u]) = Hechos(coef'[u], u, pos', cpto')
    BY <1>1, <1>8, <1>9 DEF Hechos
  <2>3. CoefTotal' > 0 /\ con' = AgruparConceptos(gastos')
    BY <1>1, <1>7
  <2> QED BY <1>1, <1>2, <1>4, <2>1, <2>2, <2>3 DEF Marcha
<1>11. \A f : Sobre(f, 1..0) = 0
  <2>1. 1..0 = {}
    OBVIOUS
  <2>2. \A f : Sobre(f, {}) = 0
    BY FS_EmptySet, SobreCero
  <2> QED BY <2>1, <2>2
<1>12. Cuadra'
  <2>1. \A n \in 1..(cpto' - 1) : FALSE
    BY <1>1
  <2>2. cpto' <= Len(con') =>
          remain' + Sobre(ItemDe(items', coef', cpto'), 1..(pos' - 1)) = con'[cpto'].importe
    <3>1. ASSUME 1 <= l PROVE remain' + 0 = c[1].importe
      BY <1>5, <1>6, <3>1
    <3>2. 1..(pos' - 1) = 1..0
      BY <1>1
    <3>3. Sobre(ItemDe(items', coef', cpto'), 1..(pos' - 1)) = 0
      BY <1>11, <3>2
    <3> QED BY <1>1, <1>4, <3>1, <3>3
  <2>3. \A u \in UFs : total'[u] = Sobre(items'[u], 1..Len(items'[u]))
    BY <1>9, <1>11
  <2>4. Sobre(total', UFs) = 0
    BY <1>8, <1>9, SobreCero
  <2>5. remain' = Sobre(Imp(c), 1..Tope(1, l))
    <3>1. CASE l = 0
      <4>1. Tope(1, l) = 0
        BY <3>1 DEF Tope
      <4> QED BY <1>5, <1>6, <3>1, <4>1
    <3>2. CASE l # 0
      <4>1. Tope(1, l) = 1 /\ 1 \in 1..l /\ 1-1 = 0 /\ c[1].importe \in Nat
        BY <1>5, <3>2 DEF Tope
      <4>2. Sobre(Imp(c), 1..1) = Sobre(Imp(c), 1..0) + c[1].importe
        BY <1>5, <4>1
      <4> QED BY <1>5, <1>6, <3>2, <4>1, <4>2
    <3> QED BY <3>1, <3>2
  <2>6. Sobre(total', UFs) + remain' = Sobre(Imp(con'), 1..Tope(cpto', Len(con')))
    BY <1>1, <1>4, <1>6, <2>4, <2>5
  <2> QED BY <2>1, <2>2, <2>3, <2>6 DEF Cuadra
<1>13. Parcial'
  <2>1. Sobre(coef', 1..(pos'-1)) = 0 /\ pos'-1 = 0 /\ 1..(pos'-1) = {}
    BY <1>1, <1>11
  <2>2. ASSUME cpto' <= Len(con')
        PROVE  /\ Falta(CoefTotal', con'[cpto'].importe, 0, 0, remain')
               /\ Sobra(CoefTotal', con'[cpto'].importe, 0, 0, remain')
    <3>1. con'[cpto'].importe = c[1].importe /\ c[1].importe \in Nat /\ remain' = c[1].importe
      BY <1>1, <1>4, <1>5, <1>6, <2>2
    <3>2. Falta(CoefTotal, c[1].importe, 0, 0, c[1].importe) /\ Sobra(CoefTotal, c[1].importe, 0, 0, c[1].importe)
      BY <1>8, <3>1, CuentaInicio
    <3> QED BY <1>7, <3>1, <3>2
  <2> QED BY <2>1, <2>2 DEF Parcial
<1>14. Justos'
  <2>1. \A n \in 1..(cpto' - 1) : FALSE
    BY <1>1
  <2> QED BY <2>1 DEF Justos
<1>15. pos' # 0
  BY <1>1
<1> QED BY <1>7, <1>10, <1>12, <1>13, <1>14, <1>15 DEF DInv

\* The loop at work: where it is, and the items each unit has.
LEMMA EnMarcha ==
  ASSUME DInv, pos # 0
  PROVE  /\ DTipo /\ Marcha /\ Cuadra /\ Parcial /\ Justos
         /\ pos \in Nat /\ pos >= 1 /\ pos <= NUFs + 1 /\ cpto \in Nat /\ cpto >= 1
         /\ Len(con) \in Nat /\ DOMAIN con = 1..Len(con) /\ cpto <= Len(con) + 1
         /\ \A a \in 1..Len(con) : con[a].importe \in Nat
         /\ \A u \in UFs : coef[u] > 0 => Len(items[u]) = IF u < pos THEN cpto ELSE cpto - 1
         /\ \A u \in UFs : \A n \in 1..Len(items[u]) : items[u][n] \in Nat
<1>1. DTipo /\ Marcha /\ Cuadra /\ Parcial /\ Justos
  BY DEF DInv
<1>2. /\ Len(con) \in Nat /\ DOMAIN con = 1..Len(con)
      /\ \A a \in 1..Len(con) : con[a].importe \in Nat
  <2>1. gastos \in UNION {[1..n -> Gasto] : n \in 1..MaxGastos}
    BY <1>1 DEF DTipo
  <2>2. PICK ds : ds = con /\ ds = AgruparConceptos(gastos)
    BY <1>1 DEF Marcha
  <2>3. /\ Len(ds) \in Nat /\ DOMAIN ds = 1..Len(ds)
        /\ \A a \in 1..Len(ds) : ds[a].importe \in Nat
    BY <2>1, <2>2, SumasDeConceptos
  <2> QED BY <2>2, <2>3
<1>3. pos \in Nat /\ pos >= 1 /\ pos <= NUFs + 1 /\ cpto \in Nat /\ cpto >= 1 /\ cpto <= Len(con) + 1
  <2>1. pos \in 1..(NUFs + 1) /\ cpto \in 1..(Len(con) + 1)
    BY <1>1 DEF Marcha
  <2>2. NUFs \in Nat
    BY EntradasAssumption
  <2> QED BY <1>2, <2>1, <2>2
<1>4. ASSUME NEW u \in UFs, coef[u] > 0
      PROVE  Len(items[u]) = IF u < pos THEN cpto ELSE cpto - 1
  <2>1. coef[u] \in Nat
    BY <1>1, Numeros
  <2>2. Len(items[u]) = Hechos(coef[u], u, pos, cpto)
    BY <1>1 DEF Marcha
  <2> QED BY <1>4, <2>1, <2>2 DEF Hechos
<1>5. ASSUME NEW u \in UFs, NEW n \in 1..Len(items[u])
      PROVE  items[u][n] \in Nat
  <2>1. items[u] \in Seq(Nat)
    BY <1>1, Numeros
  <2> QED BY <2>1
<1> QED BY <1>1, <1>2, <1>3, <1>4, <1>5

\* A unit without a coefficient is skipped.
LEMMA DSaltar ==
  ASSUME DInv, pos \in UFs, cpto \in DOMAIN con, coef[pos] = 0, pos' = pos + 1,
         UNCHANGED <<remain, items, total, gastos, entrada, coef, orden, con, cpto>>
  PROVE  DInv'
<1>1. /\ UFs = 1..NUFs /\ NUFs \in Nat /\ NUFs > 0
      /\ \A u \in UFs : u \in Nat /\ coef[u] \in Nat /\ items[u] \in Seq(Nat)
  BY Numeros DEF DInv
<1>2. pos # 0 /\ pos \in Nat /\ pos >= 1 /\ pos <= NUFs
  BY <1>1
<1>3. /\ DTipo /\ Marcha /\ Cuadra /\ Parcial /\ Justos
      /\ cpto \in Nat /\ cpto >= 1 /\ Len(con) \in Nat /\ cpto <= Len(con)
      /\ \A a \in 1..Len(con) : con[a].importe \in Nat
      /\ \A u \in UFs : coef[u] > 0 => Len(items[u]) = IF u < pos THEN cpto ELSE cpto - 1
      /\ \A u \in UFs : \A n \in 1..Len(items[u]) : items[u][n] \in Nat
  <2>1. /\ DTipo /\ Marcha /\ Cuadra /\ Parcial /\ Justos
        /\ Len(con) \in Nat /\ DOMAIN con = 1..Len(con)
        /\ \A a \in 1..Len(con) : con[a].importe \in Nat
        /\ \A u \in UFs : coef[u] > 0 => Len(items[u]) = IF u < pos THEN cpto ELSE cpto - 1
        /\ \A u \in UFs : \A n \in 1..Len(items[u]) : items[u][n] \in Nat
    BY <1>2, EnMarcha
  <2>2. cpto \in Nat /\ cpto >= 1 /\ cpto <= Len(con)
    BY <2>1
  <2> QED BY <2>1, <2>2
<1>4. /\ remain' = remain /\ items' = items /\ total' = total /\ gastos' = gastos
      /\ entrada' = entrada /\ coef' = coef /\ orden' = orden /\ con' = con /\ cpto' = cpto
  OBVIOUS
<1>5. DTipo' /\ CoefTotal' = CoefTotal
  BY <1>3, <1>4 DEF DTipo, CoefTotal
<1>6. Marcha'
  <2>1. ASSUME NEW u \in UFs
        PROVE  Hechos(coef[u], u, pos+1, cpto) = Hechos(coef[u], u, pos, cpto)
    <3>1. u = pos \/ (u < pos+1 <=> u < pos)
      BY <1>1, <1>2
    <3> QED BY <3>1 DEF Hechos
  <2>2. \A u \in UFs : Len(items'[u]) = Hechos(coef'[u], u, pos', cpto')
    BY <1>3, <1>4, <2>1 DEF Marcha
  <2>3. /\ CoefTotal > 0 /\ orden = [u \in UFs |-> u] /\ con = AgruparConceptos(gastos)
        /\ cpto \in 1..(Len(con) + 1)
    BY <1>3 DEF Marcha
  <2>4. pos' \in 1..(NUFs + 1) /\ ~(cpto' = Len(con') + 1)
    BY <1>1, <1>2, <1>3, <1>4
  <2> QED BY <1>4, <1>5, <2>2, <2>3, <2>4 DEF Marcha
<1>7. Cuadra'
  <2>1. PICK f : f = ItemDe(items, coef, cpto)
    OBVIOUS
  <2>2. f[pos] = 0 /\ \A v \in 1..pos : f[v] \in Nat
    <3>1. \A v \in UFs : f[v] = IF coef[v] = 0 THEN 0 ELSE items[v][cpto]
      BY <2>1 DEF ItemDe
    <3>2. ASSUME NEW v \in 1..pos, coef[v] # 0 PROVE items[v][cpto] \in Nat
      <4>1. v \in UFs /\ v # pos /\ v < pos
        BY <1>1, <1>2, <3>2
      <4>2. coef[v] > 0
        BY <1>1, <3>2, <4>1
      <4>3. Len(items[v]) = cpto
        BY <1>3, <4>1, <4>2
      <4>4. cpto \in 1..Len(items[v])
        BY <1>3, <4>3
      <4> QED BY <1>3, <4>1, <4>4
    <3>3. \A v \in 1..pos : v \in UFs
      BY <1>1, <1>2
    <3> QED BY <1>2, <3>1, <3>2, <3>3
  <2>3. Sobre(f, 1..pos) = Sobre(f, 1..(pos-1)) /\ Sobre(f, 1..(pos-1)) \in Nat
    <3>1. pos \in 1..pos
      BY <1>2
    <3>2. Sobre(f, 1..pos) = Sobre(f, 1..(pos-1)) + f[pos] /\ Sobre(f, 1..(pos-1)) \in Nat
      BY <1>2, <2>2, <3>1, HastaUno
    <3> QED BY <2>2, <3>2
  <2>4. /\ \A n \in 1..(cpto - 1) : Sobre(ItemDe(items, coef, n), UFs) = con[n].importe
        /\ remain + Sobre(f, 1..(pos - 1)) = con[cpto].importe
        /\ \A u \in UFs : total[u] = Sobre(items[u], 1..Len(items[u]))
        /\ Sobre(total, UFs) + remain = Sobre(Imp(con), 1..Tope(cpto, Len(con)))
    BY <1>3, <2>1 DEF Cuadra
  <2>5. pos' - 1 = pos
    BY <1>2
  <2>6. remain' + Sobre(ItemDe(items', coef', cpto'), 1..(pos' - 1)) = con'[cpto'].importe
    BY <1>4, <2>1, <2>3, <2>4, <2>5
  <2> QED BY <1>4, <2>4, <2>6 DEF Cuadra
<1>8. Parcial'
  <2>0. PICK T, I, A, k : T = CoefTotal /\ I = con[cpto].importe /\ A = Sobre(coef, 1..(pos-1)) /\ k = pos-1
    OBVIOUS
  <2>1. T \in Nat /\ I \in Nat /\ A \in Nat /\ k \in Nat /\ remain \in Nat /\ k+1 = pos
        /\ Sobre(coef, 1..pos) = A
    <3>1. /\ CoefTotal \in Nat
          /\ \A m \in 0..NUFs : Sobre(coef, 1..m) \in Nat
          /\ \A m \in 1..NUFs : Sobre(coef, 1..m) = Sobre(coef, 1..(m-1)) + coef[m]
      BY <1>3, Numeros
    <3>2. pos-1 \in 0..NUFs /\ pos \in 1..NUFs /\ cpto \in 1..Len(con)
      BY <1>1, <1>2, <1>3
    <3>3. Sobre(coef, 1..(pos-1)) \in Nat /\ Sobre(coef, 1..pos) = Sobre(coef, 1..(pos-1)) + 0
      BY <3>1, <3>2
    <3>4. remain \in Nat
      BY <1>3 DEF DTipo
    <3> QED BY <1>2, <1>3, <2>0, <3>1, <3>2, <3>3, <3>4
  <2>2. /\ Falta(T, I, A, k, remain) /\ Sobra(T, I, A, k, remain)
        /\ \A u \in 1..(pos-1) : coef[u] > 0 =>
              /\ SobraCon(T, I, A, k, remain, items[u][cpto], coef[u])
              /\ Cerca(T, I, NUFs, items[u][cpto], coef[u])
              /\ NoExcede(T, I, items[u][cpto], coef[u])
    BY <1>3, <2>0 DEF Parcial
  <2>3. /\ Falta(T, I, A, k+1, remain) /\ Sobra(T, I, A, k+1, remain)
        /\ \A s, c \in Nat : SobraCon(T, I, A, k, remain, s, c) => SobraCon(T, I, A, k+1, remain, s, c)
    BY <2>1, <2>2, CuentaSalta
  <2>4. ASSUME NEW u \in 1..pos, coef[u] > 0
        PROVE  /\ SobraCon(T, I, A, k+1, remain, items[u][cpto], coef[u])
               /\ Cerca(T, I, NUFs, items[u][cpto], coef[u])
               /\ NoExcede(T, I, items[u][cpto], coef[u])
    <3>1. u # pos /\ u \in 1..(pos-1) /\ u \in UFs /\ u < pos
      BY <1>1, <1>2, <2>4
    <3>2. Len(items[u]) = cpto
      BY <1>3, <2>4, <3>1
    <3>3. cpto \in 1..Len(items[u])
      BY <1>3, <3>2
    <3>4. items[u][cpto] \in Nat /\ coef[u] \in Nat
      BY <1>1, <1>3, <3>1, <3>3
    <3> QED BY <2>2, <2>3, <2>4, <3>1, <3>4
  <2>5. pos' - 1 = k+1 /\ pos' - 1 = pos
    BY <1>2, <2>1
  <2>6. CoefTotal' = T /\ con'[cpto'].importe = I /\ Sobre(coef', 1..(pos'-1)) = A
    BY <1>4, <1>5, <2>0, <2>1, <2>5
  <2> QED BY <1>4, <2>3, <2>4, <2>5, <2>6 DEF Parcial
<1>9. Justos'
  BY <1>3, <1>4, <1>5 DEF Justos
<1>10. pos' # 0
  BY <1>2
<1> QED BY <1>5, <1>6, <1>7, <1>8, <1>9, <1>10 DEF DInv

\* The share r of the next unit.
LEMMA DDar ==
  ASSUME DInv, pos \in UFs, cpto \in DOMAIN con, coef[pos] # 0, pos' = pos + 1,
         UNCHANGED <<gastos, entrada, coef, orden, con, cpto>>,
         NEW x \in Redondeos(con[cpto].importe * coef[pos], CoefTotal),
         NEW r, r = Recorte(x), remain' = remain - r,
         total' = [total EXCEPT ![pos] = @ + r],
         items' = [items EXCEPT ![pos] = Append(@, r)]
  PROVE  DInv'
<1>0. DTipo
  BY DEF DInv
<1>1. /\ UFs = 1..NUFs /\ NUFs \in Nat /\ NUFs > 0 /\ IsFiniteSet(UFs)
      /\ \A u \in UFs : u \in Nat /\ coef[u] \in Nat /\ total[u] \in Nat /\ items[u] \in Seq(Nat)
  BY <1>0, Numeros
<1>2. pos # 0 /\ pos \in Nat /\ pos >= 1 /\ pos <= NUFs /\ coef[pos] > 0 /\ coef[pos] \in Nat
  BY <1>1
<1>3. /\ Marcha /\ Cuadra /\ Parcial /\ Justos
      /\ cpto \in Nat /\ cpto >= 1 /\ Len(con) \in Nat /\ cpto <= Len(con)
      /\ \A a \in 1..Len(con) : con[a].importe \in Nat
      /\ \A u \in UFs : coef[u] > 0 => Len(items[u]) = IF u < pos THEN cpto ELSE cpto - 1
      /\ \A u \in UFs : \A n \in 1..Len(items[u]) : items[u][n] \in Nat
  <2>1. /\ Marcha /\ Cuadra /\ Parcial /\ Justos
        /\ Len(con) \in Nat /\ DOMAIN con = 1..Len(con)
        /\ \A a \in 1..Len(con) : con[a].importe \in Nat
        /\ \A u \in UFs : coef[u] > 0 => Len(items[u]) = IF u < pos THEN cpto ELSE cpto - 1
        /\ \A u \in UFs : \A n \in 1..Len(items[u]) : items[u][n] \in Nat
    BY <1>2, EnMarcha
  <2>2. cpto \in Nat /\ cpto >= 1 /\ cpto <= Len(con)
    BY <2>1
  <2> QED BY <2>1, <2>2
<1>4. /\ gastos' = gastos /\ entrada' = entrada /\ coef' = coef /\ orden' = orden
      /\ con' = con /\ cpto' = cpto
  OBVIOUS
<1>5. PICK T, I, A, k, c : /\ T = CoefTotal /\ I = con[cpto].importe /\ A = Sobre(coef, 1..(pos-1))
                           /\ k = pos-1 /\ c = coef[pos]
  OBVIOUS
<1>6. /\ T \in Nat /\ T > 0 /\ I \in Nat /\ A \in Nat /\ k \in Nat /\ c \in Nat /\ remain \in Nat
      /\ k+1 = pos /\ k < NUFs /\ A + c <= T /\ Sobre(coef, 1..pos) = A + c
  <2>1. /\ CoefTotal \in Nat
        /\ \A m \in 0..NUFs : Sobre(coef, 1..m) \in Nat /\ Sobre(coef, 1..m) <= CoefTotal
        /\ \A m \in 1..NUFs : Sobre(coef, 1..m) = Sobre(coef, 1..(m-1)) + coef[m]
    BY <1>0, Numeros
  <2>2. pos-1 \in 0..NUFs /\ pos \in 0..NUFs /\ pos \in 1..NUFs /\ cpto \in 1..Len(con)
    BY <1>1, <1>2, <1>3
  <2>3. /\ Sobre(coef, 1..(pos-1)) \in Nat
        /\ Sobre(coef, 1..pos) = Sobre(coef, 1..(pos-1)) + coef[pos]
        /\ Sobre(coef, 1..pos) <= CoefTotal
    BY <2>1, <2>2
  <2>4. remain \in Nat /\ CoefTotal > 0 /\ con[cpto].importe \in Nat
    BY <1>0, <1>3, <2>2 DEF DTipo, Marcha
  <2>5. k \in Nat /\ k+1 = pos /\ k < NUFs /\ c \in Nat
    BY <1>1, <1>2, <1>5
  <2>6. T \in Nat /\ T > 0 /\ I \in Nat /\ A \in Nat
    BY <1>5, <2>1, <2>3, <2>4
  <2>7. Sobre(coef, 1..pos) = A + c /\ A + c <= T
    BY <1>5, <2>3
  <2> QED BY <2>4, <2>5, <2>6, <2>7
<1>7. /\ x \in Nat
      /\ 2*(Escala(T)*x) <= 2*(Alta(I)*c) + Escala(T)
      /\ 2*(Baja(I)*c) <= 2*(Escala(T)*x) + Escala(T)
  <2>1. x \in Redondeos(I*c, T)
    BY <1>5
  <2> QED BY <1>6, <2>1, RedondeosEs
<1>8. r = (IF x > remain THEN remain ELSE x) /\ r \in Nat /\ r <= remain /\ remain' \in Nat
      /\ remain = remain' + r
  BY <1>6, <1>7 DEF Recorte
<1>9. PICK s : s = items[pos] /\ s \in Seq(Nat) /\ Len(s) = cpto - 1
  BY <1>1, <1>2, <1>3
<1>10. /\ Append(s, r) \in Seq(Nat) /\ Len(Append(s, r)) = cpto /\ Append(s, r)[cpto] = r
       /\ \A n \in 1..(cpto-1) : Append(s, r)[n] = s[n]
  <2>1. r \in Nat /\ s \in Seq(Nat) /\ cpto \in Nat /\ Len(s) = cpto - 1
    BY <1>3, <1>8, <1>9
  <2>2. PICK l : l = Len(s) /\ l \in Nat /\ cpto = l+1 /\ cpto - 1 = l
    BY <2>1
  <2>3. /\ Append(s, r) \in Seq(Nat) /\ Len(Append(s, r)) = l+1 /\ Append(s, r)[l+1] = r
        /\ \A n \in 1..l : Append(s, r)[n] = s[n]
    BY <2>1, <2>2
  <2> QED BY <2>2, <2>3
<1>11. PICK its : /\ its = items' /\ its \in [UFs -> Seq(Nat)] /\ its[pos] = Append(s, r)
                  /\ \A u \in UFs : u # pos => its[u] = items[u]
  <2>1. items \in [UFs -> Seq(Nat)]
    BY <1>0 DEF DTipo
  <2> QED BY <1>9, <1>10, <2>1
<1>12. PICK tot : /\ tot = total' /\ tot \in [UFs -> Nat] /\ tot[pos] = total[pos] + r
                  /\ \A u \in UFs : u # pos => tot[u] = total[u]
  <2>1. total \in [UFs -> Nat] /\ total[pos] + r \in Nat
    <3>1. total \in [UFs -> Nat]
      BY <1>0 DEF DTipo
    <3>2. total[pos] \in Nat /\ r \in Nat
      BY <1>8, <3>1
    <3> QED BY <3>1, <3>2
  <2> QED BY <2>1
<1>13. DTipo' /\ CoefTotal' = CoefTotal
  BY <1>0, <1>4, <1>8, <1>11, <1>12 DEF DTipo, CoefTotal
<1>14. \A u \in UFs : coef[u] > 0 => Len(its[u]) = IF u <= pos THEN cpto ELSE cpto - 1
  <2>1. ASSUME NEW u \in UFs, coef[u] > 0 PROVE Len(its[u]) = IF u <= pos THEN cpto ELSE cpto - 1
    <3>1. CASE u = pos
      BY <1>2, <1>10, <1>11, <3>1
    <3>2. CASE u # pos
      <4>1. its[u] = items[u] /\ (u <= pos <=> u < pos)
        BY <1>1, <1>2, <1>11, <3>2
      <4> QED BY <1>3, <2>1, <4>1
    <3> QED BY <3>1, <3>2
  <2> QED BY <2>1
<1>15. \* What was given out before stays.
       \A u \in UFs : \A n \in 1..Len(items[u]) : its[u][n] = items[u][n] /\ its[u][n] \in Nat
  <2>1. ASSUME NEW u \in UFs, NEW n \in 1..Len(items[u])
        PROVE  its[u][n] = items[u][n] /\ its[u][n] \in Nat
    <3>1. CASE u = pos
      <4>1. n \in 1..(cpto-1) /\ items[u] = s
        BY <1>9, <2>1, <3>1
      <4>2. its[u][n] = s[n]
        BY <1>10, <1>11, <3>1, <4>1
      <4> QED BY <1>3, <4>1, <4>2
    <3>2. CASE u # pos
      BY <1>3, <1>11, <3>2
    <3> QED BY <3>1, <3>2
  <2> QED BY <2>1
<1>16. Marcha'
  <2>1. ASSUME NEW u \in UFs PROVE Len(its[u]) = Hechos(coef[u], u, pos+1, cpto)
    <3>1. CASE coef[u] = 0
      <4>1. u # pos /\ its[u] = items[u]
        BY <1>2, <1>11, <3>1
      <4>2. Len(items[u]) = Hechos(coef[u], u, pos, cpto)
        BY <1>3 DEF Marcha
      <4> QED BY <3>1, <4>1, <4>2 DEF Hechos
    <3>2. CASE coef[u] # 0
      <4>1. coef[u] > 0 /\ (u <= pos <=> u < pos+1)
        BY <1>1, <1>2, <3>2
      <4> QED BY <1>14, <3>2, <4>1 DEF Hechos
    <3> QED BY <3>1, <3>2
  <2>2. \A u \in UFs : Len(items'[u]) = Hechos(coef'[u], u, pos', cpto')
    BY <1>4, <1>11, <2>1
  <2>3. /\ CoefTotal > 0 /\ orden = [u \in UFs |-> u] /\ con = AgruparConceptos(gastos)
        /\ cpto \in 1..(Len(con) + 1)
    BY <1>3 DEF Marcha
  <2>4. pos' \in 1..(NUFs + 1) /\ ~(cpto' = Len(con') + 1)
    BY <1>1, <1>2, <1>3, <1>4
  <2> QED BY <1>4, <1>13, <2>2, <2>3, <2>4 DEF Marcha
<1>17. Justos'
  <2>1. ASSUME NEW u \in UFs, NEW n \in 1..(cpto - 1), coef[u] > 0
        PROVE  Justo(CoefTotal, con[n].importe, its[u][n], coef[u])
    <3>1. n \in 1..Len(items[u])
      <4>1. Len(items[u]) = cpto \/ Len(items[u]) = cpto - 1
        BY <1>3, <2>1
      <4> QED BY <1>3, <4>1
    <3>2. its[u][n] = items[u][n]
      BY <1>15, <3>1
    <3> QED BY <1>3, <2>1, <3>2 DEF Justos
  <2> QED BY <1>4, <1>11, <1>13, <2>1 DEF Justos
<1>18. Parcial'
  <2>1. /\ Falta(T, I, A, k, remain) /\ Sobra(T, I, A, k, remain)
        /\ \A u \in 1..(pos-1) : coef[u] > 0 =>
              /\ SobraCon(T, I, A, k, remain, items[u][cpto], coef[u])
              /\ Cerca(T, I, NUFs, items[u][cpto], coef[u])
              /\ NoExcede(T, I, items[u][cpto], coef[u])
    BY <1>3, <1>5 DEF Parcial
  <2>2. PICK p : p = remain' /\ p = remain - r /\ p \in Nat
    BY <1>8
  <2>3. /\ Falta(T, I, A+c, k+1, p) /\ Sobra(T, I, A+c, k+1, p)
        /\ SobraCon(T, I, A+c, k+1, p, r, c)
        /\ Cerca(T, I, NUFs, r, c) /\ NoExcede(T, I, r, c)
        /\ \A v, d \in Nat : SobraCon(T, I, A, k, remain, v, d) => SobraCon(T, I, A+c, k+1, p, v, d)
    <3>1. r = (IF x > remain THEN remain ELSE x) /\ r \in Nat
      BY <1>8
    <3> QED BY <1>1, <1>6, <1>7, <2>1, <2>2, <3>1, CuentaPaso
  <2>4. ASSUME NEW u \in 1..pos, coef[u] > 0
        PROVE  /\ SobraCon(T, I, A+c, k+1, p, its[u][cpto], coef[u])
               /\ Cerca(T, I, NUFs, its[u][cpto], coef[u])
               /\ NoExcede(T, I, its[u][cpto], coef[u])
    <3>1. CASE u = pos
      <4>1. its[u][cpto] = r /\ coef[u] = c
        BY <1>5, <1>10, <1>11, <3>1
      <4> QED BY <2>3, <4>1
    <3>2. CASE u # pos
      <4>1. u \in 1..(pos-1) /\ u \in UFs /\ u < pos
        BY <1>1, <1>2, <3>2
      <4>2. Len(items[u]) = cpto
        BY <1>3, <2>4, <4>1
      <4>3. cpto \in 1..Len(items[u])
        BY <1>3, <4>2
      <4>4. its[u][cpto] = items[u][cpto] /\ its[u][cpto] \in Nat /\ coef[u] \in Nat
        BY <1>1, <1>15, <4>1, <4>3
      <4>5. /\ SobraCon(T, I, A, k, remain, its[u][cpto], coef[u])
            /\ Cerca(T, I, NUFs, its[u][cpto], coef[u])
            /\ NoExcede(T, I, its[u][cpto], coef[u])
        BY <2>1, <2>4, <4>1, <4>4
      <4> QED BY <2>3, <4>4, <4>5
    <3> QED BY <3>1, <3>2
  <2>5. pos' - 1 = k+1 /\ pos' - 1 = pos
    BY <1>2, <1>6
  <2>6. CoefTotal' = T /\ con'[cpto'].importe = I /\ Sobre(coef', 1..(pos'-1)) = A+c
    BY <1>4, <1>5, <1>6, <1>13, <2>5
  <2> QED BY <1>4, <1>11, <2>2, <2>3, <2>4, <2>5, <2>6 DEF Parcial
<1>19. Cuadra'
  <2>1. /\ \A n \in 1..(cpto - 1) : Sobre(ItemDe(items, coef, n), UFs) = con[n].importe
        /\ remain + Sobre(ItemDe(items, coef, cpto), 1..(pos - 1)) = con[cpto].importe
        /\ \A u \in UFs : total[u] = Sobre(items[u], 1..Len(items[u]))
        /\ Sobre(total, UFs) + remain = Sobre(Imp(con), 1..Tope(cpto, Len(con)))
    BY <1>3 DEF Cuadra
  <2>2. ASSUME NEW n \in 1..(cpto - 1)
        PROVE  Sobre(ItemDe(its, coef, n), UFs) = con[n].importe
    <3>1. PICK f, g : f = ItemDe(items, coef, n) /\ g = ItemDe(its, coef, n)
      OBVIOUS
    <3>2. ASSUME NEW u \in UFs PROVE f[u] \in Nat /\ f[u] = g[u]
      <4>1. /\ f[u] = IF coef[u] = 0 THEN 0 ELSE items[u][n]
            /\ g[u] = IF coef[u] = 0 THEN 0 ELSE its[u][n]
        BY <3>1 DEF ItemDe
      <4>2. CASE coef[u] # 0
        <5>1. coef[u] > 0
          BY <1>1, <4>2
        <5>2. Len(items[u]) = cpto \/ Len(items[u]) = cpto - 1
          BY <1>3, <5>1
        <5>3. n \in 1..Len(items[u])
          BY <1>3, <5>2
        <5>4. its[u][n] = items[u][n] /\ its[u][n] \in Nat
          BY <1>15, <5>3
        <5> QED BY <4>1, <4>2, <5>4
      <4> QED BY <4>1, <4>2
    <3>3. Sobre(f, UFs) = Sobre(g, UFs)
      BY <1>1, <3>2, SobreIgual
    <3> QED BY <2>1, <3>1, <3>3
  <2>3. remain' + Sobre(ItemDe(its, coef, cpto), 1..pos) = con[cpto].importe
    <3>1. PICK f, g, k1 : f = ItemDe(items, coef, cpto) /\ g = ItemDe(its, coef, cpto) /\ k1 = 1..(pos-1)
      OBVIOUS
    <3>2. ASSUME NEW u \in k1 PROVE f[u] \in Nat /\ f[u] = g[u]
      <4>0. u \in UFs /\ u < pos
        BY <1>1, <1>2, <3>1
      <4>1. /\ f[u] = IF coef[u] = 0 THEN 0 ELSE items[u][cpto]
            /\ g[u] = IF coef[u] = 0 THEN 0 ELSE its[u][cpto]
        BY <3>1, <4>0 DEF ItemDe
      <4>2. CASE coef[u] # 0
        <5>1. coef[u] > 0
          BY <1>1, <4>0, <4>2
        <5>2. Len(items[u]) = cpto
          BY <1>3, <4>0, <5>1
        <5>3. cpto \in 1..Len(items[u])
          BY <1>3, <5>2
        <5>4. its[u][cpto] = items[u][cpto] /\ its[u][cpto] \in Nat
          BY <1>15, <4>0, <5>3
        <5> QED BY <4>1, <4>2, <5>4
      <4> QED BY <4>1, <4>2
    <3>3. IsFiniteSet(k1)
      <4>1. pos-1 \in Int /\ 1 \in Int
        BY <1>2
      <4>2. IsFiniteSet(1..(pos-1))
        BY <4>1, FS_Interval
      <4> QED BY <3>1, <4>2
    <3>4. Sobre(f, k1) = Sobre(g, k1)
      BY <3>2, <3>3, SobreIgual
    <3>5. g[pos] = r
      BY <1>2, <1>10, <1>11, <3>1 DEF ItemDe
    <3>6. \A m \in 1..pos : g[m] \in Nat
      <4>1. \A m \in 1..pos : m = pos \/ m \in k1
        BY <1>2, <3>1
      <4>2. \A m \in k1 : g[m] \in Nat
        BY <3>2
      <4> QED BY <1>8, <3>5, <4>1, <4>2
    <3>7. pos \in 1..pos
      BY <1>2
    <3>8. Sobre(g, 1..pos) = Sobre(g, 1..(pos-1)) + g[pos] /\ Sobre(g, 1..(pos-1)) \in Nat
      BY <1>2, <3>6, <3>7, HastaUno
    <3>9. remain + Sobre(g, 1..(pos-1)) = con[cpto].importe
      BY <2>1, <3>1, <3>4
    <3>10. PICK a : a = Sobre(g, 1..(pos-1)) /\ a \in Nat
      BY <3>8
    <3>11. remain' \in Nat /\ r \in Nat /\ remain = remain' + r
      BY <1>8
    <3>12. Sobre(g, 1..pos) = a + r /\ remain + a = con[cpto].importe
      BY <3>5, <3>8, <3>9, <3>10
    <3>13. remain' + (a + r) = con[cpto].importe
      BY <3>10, <3>11, <3>12
    <3> QED BY <3>1, <3>12, <3>13
  <2>4. ASSUME NEW u \in UFs PROVE tot[u] = Sobre(its[u], 1..Len(its[u]))
    <3>1. CASE u = pos
      <4>1. PICK q : q = Append(s, r)
        OBVIOUS
      <4>2. its[u] = q /\ Len(q) = cpto /\ q[cpto] = r /\ \A n \in 1..(cpto-1) : q[n] = s[n]
        BY <1>10, <1>11, <3>1, <4>1
      <4>3. \A n \in 1..(cpto-1) : s[n] \in Nat
        BY <1>9
      <4>4. \A n \in 1..cpto : q[n] \in Nat
        <5>1. \A n \in 1..cpto : n = cpto \/ n \in 1..(cpto-1)
          BY <1>3
        <5> QED BY <1>8, <4>2, <4>3, <5>1
      <4>5. cpto \in 1..cpto
        BY <1>3
      <4>6. Sobre(q, 1..cpto) = Sobre(q, 1..(cpto-1)) + q[cpto] /\ Sobre(q, 1..(cpto-1)) \in Nat
        BY <1>3, <4>4, <4>5, HastaUno
      <4>7. Sobre(s, 1..(cpto-1)) = Sobre(q, 1..(cpto-1))
        <5>1. cpto-1 \in Int /\ 1 \in Int
          BY <1>3
        <5>2. IsFiniteSet(1..(cpto-1))
          BY <5>1, FS_Interval
        <5>3. \A n \in 1..(cpto-1) : s[n] \in Nat /\ s[n] = q[n]
          BY <4>2, <4>3
        <5> QED BY <5>2, <5>3, SobreIgual
      <4>8. total[pos] = Sobre(s, 1..(cpto-1))
        BY <1>9, <2>1
      <4>9. tot[u] = total[pos] + r
        BY <1>12, <3>1
      <4> QED BY <4>2, <4>6, <4>7, <4>8, <4>9
    <3>2. CASE u # pos
      BY <1>11, <1>12, <2>1, <3>2
    <3> QED BY <3>1, <3>2
  <2>5. Sobre(tot, UFs) + remain' = Sobre(total, UFs) + remain
    <3>1. PICK f : f = total
      OBVIOUS
    <3>2. /\ \A u \in UFs : f[u] \in Nat /\ tot[u] \in Nat
          /\ \A u \in UFs \ {pos} : f[u] = tot[u]
      BY <1>1, <1>12, <3>1
    <3>3. Sobre(tot, UFs) + f[pos] = Sobre(f, UFs) + tot[pos]
      <4>1. IsFiniteSet(UFs) /\ pos \in UFs
        BY <1>1
      <4> QED BY <3>2, <4>1, SobreCambia
    <3>4. Sobre(f, UFs) \in Nat /\ Sobre(tot, UFs) \in Nat
      BY <1>1, <3>2, SobreNat
    <3>5. tot[pos] = f[pos] + r /\ f[pos] \in Nat
      BY <1>1, <1>12, <3>1
    <3>6. remain' \in Nat /\ r \in Nat /\ remain = remain' + r
      BY <1>8
    <3>7. PICK a, b : a = Sobre(f, UFs) /\ b = Sobre(tot, UFs) /\ a \in Nat /\ b \in Nat
      BY <3>4
    <3>8. b = a + r
      <4>1. PICK t : t = f[pos] /\ t \in Nat
        BY <3>5
      <4>2. b + t = a + (t + r)
        BY <3>3, <3>5, <3>7, <4>1
      <4>3. a \in Nat /\ b \in Nat /\ r \in Nat /\ t \in Nat
        BY <3>6, <3>7, <4>1
      <4> QED BY <4>2, <4>3
    <3>9. b + remain' = a + remain
      BY <3>6, <3>7, <3>8
    <3> QED BY <3>1, <3>7, <3>9
  <2>6. pos' - 1 = pos
    BY <1>2
  <2> QED BY <1>4, <1>11, <1>12, <2>1, <2>2, <2>3, <2>4, <2>5, <2>6 DEF Cuadra
<1>20. pos' # 0
  BY <1>2
<1> QED BY <1>13, <1>16, <1>17, <1>18, <1>19, <1>20 DEF DInv

\* The unit that takes the residue: the first with a coefficient.
LEMMA PrimeraEs ==
  ASSUME DTipo, CoefTotal > 0, orden = [u \in UFs |-> u]
  PROVE  /\ Primera \in UFs /\ coef[Primera] > 0
         /\ \A m \in 1..(Primera - 1) : coef[m] = 0
<1>1. /\ UFs = 1..NUFs /\ NUFs \in Nat /\ IsFiniteSet(UFs)
      /\ \A u \in UFs : u \in Nat /\ coef[u] \in Nat
      /\ CoefTotal = Sobre(coef, UFs)
  BY Numeros
<1>2. PICK B : B = {u \in UFs : coef[u] > 0}
  OBVIOUS
<1>3. B # {} /\ B \in SUBSET Nat
  <2>1. ASSUME B = {} PROVE FALSE
    <3>1. \A u \in UFs : coef[u] = 0
      BY <1>1, <1>2, <2>1
    <3>2. Sobre(coef, UFs) = 0
      BY <1>1, <3>1, SobreCero
    <3> QED BY <1>1, <3>2
  <2> QED BY <1>1, <1>2, <2>1
<1>4. PICK p \in B : \A v \in B : p <= v
  BY <1>3, MinimoNat
<1>5. p \in UFs /\ coef[p] > 0 /\ p \in Nat /\ p <= NUFs
  BY <1>1, <1>2
<1>6. \A m \in 1..(p - 1) : coef[m] = 0
  <2>1. ASSUME NEW m \in 1..(p-1) PROVE coef[m] = 0
    <3>1. m \in UFs /\ m < p
      BY <1>1, <1>5
    <3>2. m \notin B
      BY <1>4, <1>5, <3>1
    <3> QED BY <1>1, <1>2, <3>1, <3>2
  <2> QED BY <2>1
<1>7. PICK S : S = {n \in UFs : coef[orden[n]] > 0 /\ \A m \in 1..(n - 1) : coef[orden[m]] = 0}
  OBVIOUS
<1>8. \A n \in UFs : orden[n] = n /\ \A m \in 1..(n-1) : orden[m] = m
  <2>1. \A n \in UFs : \A m \in 1..(n-1) : m \in UFs
    BY <1>1
  <2> QED BY <2>1
<1>9. p \in S
  BY <1>5, <1>6, <1>7, <1>8
<1>10. PICK q : q = CHOOSE n : n \in S
  OBVIOUS
<1>11. q \in S
  BY <1>9, <1>10, Zenon
<1>12. Primera = orden[q]
  BY <1>7, <1>10 DEF Primera
<1>13. q \in UFs /\ coef[q] > 0 /\ \A m \in 1..(q - 1) : coef[m] = 0
  BY <1>7, <1>8, <1>11
<1>14. Primera = q
  BY <1>8, <1>12, <1>13
<1> QED BY <1>13, <1>14

\* What is left goes to it, and the loop to the next concepto.
LEMMA DResiduo ==
  ASSUME DInv, Residuo
  PROVE  DInv'
<1>0. DTipo /\ pos = NUFs + 1 /\ NUFs \in Nat /\ NUFs > 0 /\ pos # 0 /\ pos # 1
  <2>1. NUFs \in Nat /\ NUFs > 0
    BY EntradasAssumption
  <2> QED BY <2>1 DEF DInv, Residuo
<1>1. /\ UFs = 1..NUFs /\ IsFiniteSet(UFs)
      /\ \A u \in UFs : u \in Nat /\ coef[u] \in Nat /\ total[u] \in Nat /\ items[u] \in Seq(Nat)
  BY <1>0, Numeros
<1>2. /\ Marcha /\ Cuadra /\ Parcial /\ Justos
      /\ cpto \in Nat /\ cpto >= 1 /\ Len(con) \in Nat /\ cpto <= Len(con) /\ DOMAIN con = 1..Len(con)
      /\ \A a \in 1..Len(con) : con[a].importe \in Nat
      /\ \A u \in UFs : coef[u] > 0 => Len(items[u]) = cpto
      /\ \A u \in UFs : \A n \in 1..Len(items[u]) : items[u][n] \in Nat
  <2>1. /\ Marcha /\ Cuadra /\ Parcial /\ Justos
        /\ Len(con) \in Nat /\ DOMAIN con = 1..Len(con) /\ cpto \in Nat /\ cpto >= 1
        /\ cpto <= Len(con) + 1
        /\ \A a \in 1..Len(con) : con[a].importe \in Nat
        /\ \A u \in UFs : coef[u] > 0 => Len(items[u]) = IF u < pos THEN cpto ELSE cpto - 1
        /\ \A u \in UFs : \A n \in 1..Len(items[u]) : items[u][n] \in Nat
    BY <1>0, EnMarcha
  <2>2. cpto # Len(con) + 1
    BY <1>0, <2>1 DEF Marcha
  <2>3. \A u \in UFs : u < pos
    BY <1>0, <1>1
  <2>4. cpto <= Len(con)
    BY <2>1, <2>2
  <2> QED BY <2>1, <2>3, <2>4
<1>3. PICK p : /\ p = Primera /\ p \in UFs /\ coef[p] > 0 /\ \A m \in 1..(p - 1) : coef[m] = 0
  BY <1>0, <1>2, PrimeraEs DEF Marcha
<1>4. /\ gastos' = gastos /\ entrada' = entrada /\ coef' = coef /\ orden' = orden /\ con' = con
      /\ cpto' = cpto + 1 /\ pos' = 1
      /\ remain' = IF cpto + 1 \in DOMAIN con THEN con[cpto + 1].importe ELSE 0
      /\ total' = [total EXCEPT ![p] = @ + remain]
      /\ items' = [items EXCEPT ![p] = ConResto(items[p])]
  <2>2. items' = [items EXCEPT ![p] = ConResto(items[p])]
    BY <1>3 DEF Residuo
  <2>3. /\ gastos' = gastos /\ entrada' = entrada /\ coef' = coef /\ orden' = orden /\ con' = con
        /\ cpto' = cpto + 1 /\ pos' = 1
        /\ remain' = IF cpto + 1 \in DOMAIN con' THEN con'[cpto + 1].importe ELSE 0
        /\ total' = [total EXCEPT ![p] = @ + remain]
    BY <1>3 DEF Residuo, Pasar
  <2> QED BY <2>2, <2>3
<1>5. remain' \in Nat /\ remain \in Nat
  BY <1>0, <1>2, <1>4 DEF DTipo
<1>6. PICK s, r : /\ s = items[p] /\ s \in Seq(Nat) /\ Len(s) = cpto
                  /\ r = [s EXCEPT ![cpto] = @ + remain]
  BY <1>1, <1>2, <1>3
<1>7. /\ r \in Seq(Nat) /\ Len(r) = cpto /\ r[cpto] = s[cpto] + remain
      /\ s[cpto] \in Nat /\ \A n \in 1..(cpto-1) : r[n] = s[n]
  <2>1. cpto \in 1..cpto /\ s \in [1..cpto -> Nat]
    BY <1>2, <1>6
  <2>2. s[cpto] \in Nat /\ s[cpto] + remain \in Nat
    BY <1>5, <2>1
  <2>3. r \in [1..cpto -> Nat] /\ r[cpto] = s[cpto] + remain
    BY <1>6, <2>1, <2>2
  <2>4. \A n \in 1..(cpto-1) : n \in 1..cpto /\ n # cpto
    BY <1>2
  <2>5. \A n \in 1..(cpto-1) : r[n] = s[n]
    BY <1>6, <2>1, <2>4
  <2> QED BY <1>2, <2>2, <2>3, <2>5
<1>8. PICK its : /\ its = items' /\ its \in [UFs -> Seq(Nat)] /\ its[p] = r
                 /\ \A u \in UFs : u # p => its[u] = items[u]
  <2>1. items \in [UFs -> Seq(Nat)]
    BY <1>0 DEF DTipo
  <2>2. ConResto(s) = r
    BY <1>6 DEF ConResto, ItemDelResiduo
  <2>3. items' = [items EXCEPT ![p] = ConResto(items[p])]
    BY <1>4
  <2>4. PICK e : e = ConResto(items[p]) /\ e = r
    BY <1>6, <2>2
  <2>5. items' = [items EXCEPT ![p] = e]
    BY <2>3, <2>4
  <2> QED BY <1>3, <1>7, <2>1, <2>4, <2>5
<1>9. PICK tot : /\ tot = total' /\ tot \in [UFs -> Nat] /\ tot[p] = total[p] + remain
                 /\ \A u \in UFs : u # p => tot[u] = total[u]
  <2>1. total \in [UFs -> Nat]
    BY <1>0 DEF DTipo
  <2>2. total[p] + remain \in Nat
    BY <1>3, <1>5, <2>1
  <2> QED BY <1>3, <1>4, <2>1, <2>2
<1>10. DTipo' /\ CoefTotal' = CoefTotal
  BY <1>0, <1>4, <1>5, <1>8, <1>9 DEF DTipo, CoefTotal
<1>11. \A u \in UFs : Len(its[u]) = Len(items[u])
  BY <1>6, <1>7, <1>8
<1>12. \* Only the last item of that unit changes.
       \A u \in UFs, n \in 1..cpto :
         coef[u] > 0 => /\ its[u][n] = IF u = p /\ n = cpto THEN items[u][n] + remain ELSE items[u][n]
                        /\ items[u][n] \in Nat /\ its[u][n] \in Nat
  <2>1. ASSUME NEW u \in UFs, NEW n \in 1..cpto, coef[u] > 0
        PROVE  /\ its[u][n] = IF u = p /\ n = cpto THEN items[u][n] + remain ELSE items[u][n]
               /\ items[u][n] \in Nat
    <3>1. items[u][n] \in Nat
      BY <1>2, <2>1
    <3>2. CASE u = p /\ n = cpto
      BY <1>6, <1>7, <1>8, <3>1, <3>2
    <3>3. CASE u = p /\ n # cpto
      <4>1. n \in 1..(cpto-1)
        BY <1>2, <3>3
      <4> QED BY <1>6, <1>7, <1>8, <3>1, <3>3, <4>1
    <3>4. CASE u # p
      BY <1>8, <3>1, <3>4
    <3> QED BY <3>2, <3>3, <3>4
  <2>2. ASSUME NEW u \in UFs, NEW n \in 1..cpto, coef[u] > 0 PROVE its[u][n] \in Nat
    BY <1>5, <2>1, <2>2
  <2> QED BY <2>1, <2>2
<1>13. Marcha'
  <2>1. ASSUME NEW u \in UFs PROVE Len(its[u]) = Hechos(coef[u], u, 1, cpto + 1)
    <3>1. CASE coef[u] = 0
      <4>1. Len(items[u]) = Hechos(coef[u], u, pos, cpto)
        BY <1>2 DEF Marcha
      <4> QED BY <1>11, <3>1, <4>1 DEF Hechos
    <3>2. CASE coef[u] # 0
      <4>1. coef[u] > 0 /\ ~(u < 1) /\ (cpto+1) - 1 = cpto
        BY <1>1, <1>2, <3>2
      <4> QED BY <1>2, <1>11, <3>2, <4>1 DEF Hechos
    <3> QED BY <3>1, <3>2
  <2>2. \A u \in UFs : Len(items'[u]) = Hechos(coef'[u], u, pos', cpto')
    BY <1>4, <1>8, <2>1
  <2>3. CoefTotal > 0 /\ orden = [u \in UFs |-> u] /\ con = AgruparConceptos(gastos)
    BY <1>2 DEF Marcha
  <2>4. pos' \in 1..(NUFs + 1) /\ cpto' \in 1..(Len(con) + 1)
    BY <1>0, <1>2, <1>4
  <2>5. cpto' = Len(con) + 1 => remain' = 0
    BY <1>2, <1>4
  <2> QED BY <1>4, <1>10, <2>2, <2>3, <2>4, <2>5 DEF Marcha
<1>14. Sobre(coef, 1..NUFs) = CoefTotal /\ CoefTotal \in Nat
  BY <1>0, Numeros
<1>15. \A f : Sobre(f, 1..0) = 0
  <2>1. 1..0 = {}
    OBVIOUS
  <2>2. \A f : Sobre(f, {}) = 0
    BY FS_EmptySet, SobreCero
  <2> QED BY <2>1, <2>2
<1>16. Parcial'
  <2>1. Sobre(coef', 1..(pos'-1)) = 0 /\ pos'-1 = 0 /\ 1..(pos'-1) = {}
    BY <1>4, <1>15
  <2>2. ASSUME cpto' <= Len(con')
        PROVE  /\ Falta(CoefTotal', con'[cpto'].importe, 0, 0, remain')
               /\ Sobra(CoefTotal', con'[cpto'].importe, 0, 0, remain')
    <3>1. cpto + 1 \in 1..Len(con)
      BY <1>2, <1>4, <2>2
    <3>2. PICK I : I = con[cpto + 1].importe /\ I \in Nat /\ remain' = I /\ con'[cpto'].importe = I
      BY <1>2, <1>4, <3>1
    <3>3. Falta(CoefTotal, I, 0, 0, I) /\ Sobra(CoefTotal, I, 0, 0, I)
      BY <1>14, <3>2, CuentaInicio
    <3> QED BY <1>10, <3>2, <3>3
  <2> QED BY <2>1, <2>2 DEF Parcial
<1>17. Justos'
  <2>1. PICK T, I : T = CoefTotal /\ I = con[cpto].importe /\ T \in Nat /\ I \in Nat
    <3>1. cpto \in 1..Len(con)
      BY <1>2
    <3> QED BY <1>2, <1>14, <3>1
  <2>2. \A u \in UFs : coef[u] > 0 =>
              /\ SobraCon(T, I, T, NUFs, remain, items[u][cpto], coef[u])
              /\ Cerca(T, I, NUFs, items[u][cpto], coef[u])
              /\ NoExcede(T, I, items[u][cpto], coef[u])
    <3>1. pos - 1 = NUFs
      BY <1>0
    <3> QED BY <1>1, <1>2, <1>14, <2>1, <3>1 DEF Parcial
  <2>3. ASSUME NEW u \in UFs, coef[u] > 0
        PROVE  Justo(T, I, its[u][cpto], coef[u])
    <3>1. /\ SobraCon(T, I, T, NUFs, remain, items[u][cpto], coef[u])
          /\ Cerca(T, I, NUFs, items[u][cpto], coef[u])
          /\ NoExcede(T, I, items[u][cpto], coef[u])
      BY <2>2, <2>3
    <3>2. cpto \in 1..cpto
      BY <1>2
    <3>3. PICK v, c : v = items[u][cpto] /\ v \in Nat /\ c = coef[u] /\ c \in Nat
      BY <1>1, <1>12, <2>3, <3>2
    <3>4. c <= T
      <4>1. u \in 1..NUFs /\ u \in 0..NUFs /\ u - 1 \in 0..NUFs
        BY <1>0, <1>1
      <4>2. /\ Sobre(coef, 1..u) = Sobre(coef, 1..(u-1)) + coef[u]
            /\ Sobre(coef, 1..u) <= CoefTotal /\ Sobre(coef, 1..(u-1)) \in Nat
        BY <1>0, <4>1, Numeros
      <4>3. PICK b : b = Sobre(coef, 1..(u-1)) /\ b \in Nat /\ b + c <= T
        BY <2>1, <3>3, <4>2
      <4> QED BY <2>1, <3>3, <4>3
    <3>5. ASSUME NEW q \in Nat, SobraCon(T, I, T, NUFs, q, v, c)
          PROVE  Justo(T, I, v + q, c)
      BY <1>0, <2>1, <3>1, <3>3, <3>4, <3>5, CuentaFin DEF Justo
    <3>6. \A q \in Nat : q = 0 => SobraCon(T, I, T, NUFs, q, v, c)
      BY DEF SobraCon
    <3>7. its[u][cpto] = IF u = p THEN v + remain ELSE v
      BY <1>12, <2>3, <3>2, <3>3
    <3>8. CASE u = p
      BY <1>5, <3>1, <3>3, <3>5, <3>7, <3>8
    <3>9. CASE u # p
      <4>1. 0 \in Nat /\ v + 0 = v
        BY <3>3
      <4> QED BY <3>3, <3>5, <3>6, <3>7, <3>9, <4>1
    <3> QED BY <3>8, <3>9
  <2>4. ASSUME NEW u \in UFs, NEW n \in 1..(cpto - 1), coef[u] > 0
        PROVE  Justo(T, con[n].importe, its[u][n], coef[u])
    <3>1. n \in 1..cpto /\ n # cpto
      BY <1>2
    <3>2. its[u][n] = items[u][n]
      BY <1>12, <2>4, <3>1
    <3> QED BY <1>2, <2>1, <2>4, <3>2 DEF Justos
  <2>5. \A n \in 1..(cpto' - 1) : n = cpto \/ n \in 1..(cpto - 1)
    BY <1>2, <1>4
  <2>6. \A u \in UFs, n \in 1..(cpto' - 1) :
          coef[u] > 0 => Justo(T, con[n].importe, its[u][n], coef[u])
    BY <2>1, <2>3, <2>4, <2>5
  <2> QED BY <1>4, <1>8, <1>10, <2>1, <2>6 DEF Justos
<1>18. Cuadra'
  <2>1. /\ \A n \in 1..(cpto - 1) : Sobre(ItemDe(items, coef, n), UFs) = con[n].importe
        /\ remain + Sobre(ItemDe(items, coef, cpto), UFs) = con[cpto].importe
        /\ \A u \in UFs : total[u] = Sobre(items[u], 1..Len(items[u]))
        /\ Sobre(total, UFs) + remain = Sobre(Imp(con), 1..cpto)
    <3>1. 1..(pos - 1) = UFs
      BY <1>0, <1>1
    <3>2. Tope(cpto, Len(con)) = cpto
      <4>1. ~(cpto > Len(con))
        BY <1>2
      <4> QED BY <4>1 DEF Tope
    <3> QED BY <1>2, <3>1, <3>2 DEF Cuadra
  <2>2. ASSUME NEW n \in 1..(cpto - 1)
        PROVE  Sobre(ItemDe(its, coef, n), UFs) = con[n].importe
    <3>1. PICK f, g : f = ItemDe(items, coef, n) /\ g = ItemDe(its, coef, n)
      OBVIOUS
    <3>2. ASSUME NEW u \in UFs PROVE f[u] \in Nat /\ f[u] = g[u]
      <4>1. /\ f[u] = IF coef[u] = 0 THEN 0 ELSE items[u][n]
            /\ g[u] = IF coef[u] = 0 THEN 0 ELSE its[u][n]
        BY <3>1 DEF ItemDe
      <4>2. CASE coef[u] # 0
        <5>1. coef[u] > 0 /\ n \in 1..cpto /\ n # cpto
          BY <1>1, <1>2, <4>2
        <5>2. its[u][n] = items[u][n] /\ its[u][n] \in Nat
          BY <1>12, <5>1
        <5> QED BY <4>1, <4>2, <5>2
      <4> QED BY <4>1, <4>2
    <3>3. Sobre(f, UFs) = Sobre(g, UFs)
      BY <1>1, <3>2, SobreIgual
    <3> QED BY <2>1, <3>1, <3>3
  <2>3. Sobre(ItemDe(its, coef, cpto), UFs) = con[cpto].importe
    <3>1. PICK f, g : f = ItemDe(items, coef, cpto) /\ g = ItemDe(its, coef, cpto)
      OBVIOUS
    <3>2. \A u \in UFs : /\ f[u] = IF coef[u] = 0 THEN 0 ELSE items[u][cpto]
                         /\ g[u] = IF coef[u] = 0 THEN 0 ELSE its[u][cpto]
      BY <3>1 DEF ItemDe
    <3>3. ASSUME NEW u \in UFs
          PROVE  f[u] \in Nat /\ g[u] \in Nat /\ (u # p => f[u] = g[u])
      <4>1. CASE coef[u] = 0
        BY <3>2, <4>1
      <4>2. CASE coef[u] # 0
        <5>1. coef[u] > 0 /\ cpto \in 1..cpto
          BY <1>1, <1>2, <4>2
        <5>2. /\ items[u][cpto] \in Nat /\ its[u][cpto] \in Nat
              /\ u # p => its[u][cpto] = items[u][cpto]
          BY <1>12, <5>1
        <5> QED BY <3>2, <4>2, <5>2
      <4> QED BY <4>1, <4>2
    <3>4. g[p] = f[p] + remain
      <4>1. coef[p] # 0 /\ cpto \in 1..cpto
        BY <1>2, <1>3
      <4>2. its[p][cpto] = items[p][cpto] + remain
        BY <1>3, <1>12, <4>1
      <4> QED BY <1>3, <3>2, <4>1, <4>2
    <3>5. \A u \in UFs \ {p} : f[u] = g[u]
      BY <3>3
    <3>6. \A u \in UFs : f[u] \in Nat /\ g[u] \in Nat
      BY <3>3
    <3>7. Sobre(g, UFs) + f[p] = Sobre(f, UFs) + g[p]
      <4>1. IsFiniteSet(UFs) /\ p \in UFs
        BY <1>1, <1>3
      <4> QED BY <3>5, <3>6, <4>1, SobreCambia
    <3>8. PICK a, b, t : a = Sobre(f, UFs) /\ b = Sobre(g, UFs) /\ t = f[p]
                         /\ a \in Nat /\ b \in Nat /\ t \in Nat
      BY <1>1, <1>3, <3>6, SobreNat
    <3>9. b + t = a + (t + remain) /\ remain + a = con[cpto].importe
      BY <2>1, <3>1, <3>4, <3>7, <3>8
    <3>10. b = remain + a
      <4>1. b + t = a + (t + remain) /\ remain \in Nat
        BY <1>5, <3>9
      <4> QED BY <3>8, <4>1
    <3> QED BY <3>1, <3>8, <3>9, <3>10
  <2>4. ASSUME NEW u \in UFs PROVE tot[u] = Sobre(its[u], 1..Len(its[u]))
    <3>1. CASE u = p
      <4>1. \A n \in 1..cpto : n = cpto \/ n \in 1..(cpto-1)
        BY <1>2
      <4>2. \A n \in 1..cpto : s[n] \in Nat /\ r[n] \in Nat
        BY <1>6, <1>7
      <4>3. \A n \in (1..cpto) \ {cpto} : s[n] = r[n]
        BY <1>7, <4>1
      <4>4. IsFiniteSet(1..cpto) /\ cpto \in 1..cpto
        <5>1. 1 \in Int /\ cpto \in Int
          BY <1>2
        <5>2. IsFiniteSet(1..cpto)
          BY <5>1, FS_Interval
        <5> QED BY <1>2, <5>2
      <4>5. Sobre(r, 1..cpto) + s[cpto] = Sobre(s, 1..cpto) + r[cpto]
        BY <4>2, <4>3, <4>4, SobreCambia
      <4>6. PICK a, b, t : a = Sobre(s, 1..cpto) /\ b = Sobre(r, 1..cpto) /\ t = s[cpto]
                           /\ a \in Nat /\ b \in Nat /\ t \in Nat
        BY <4>2, <4>4, SobreNat
      <4>7. b + t = a + (t + remain)
        BY <1>7, <4>5, <4>6
      <4>8. b = a + remain
        <5>1. remain \in Nat
          BY <1>5
        <5> QED BY <4>6, <4>7, <5>1
      <4>9. total[p] = a /\ its[u] = r /\ Len(r) = cpto /\ tot[u] = total[p] + remain
        BY <1>3, <1>6, <1>7, <1>8, <1>9, <2>1, <3>1, <4>6
      <4> QED BY <4>6, <4>8, <4>9
    <3>2. CASE u # p
      BY <1>8, <1>9, <2>1, <3>2
    <3> QED BY <3>1, <3>2
  <2>5. Sobre(tot, UFs) = Sobre(total, UFs) + remain
    <3>1. PICK f : f = total
      OBVIOUS
    <3>2. /\ \A u \in UFs : f[u] \in Nat /\ tot[u] \in Nat
          /\ \A u \in UFs \ {p} : f[u] = tot[u]
      BY <1>1, <1>9, <3>1
    <3>3. Sobre(tot, UFs) + f[p] = Sobre(f, UFs) + tot[p]
      <4>1. IsFiniteSet(UFs) /\ p \in UFs
        BY <1>1, <1>3
      <4> QED BY <3>2, <4>1, SobreCambia
    <3>4. PICK a, b, t : a = Sobre(f, UFs) /\ b = Sobre(tot, UFs) /\ t = f[p]
                         /\ a \in Nat /\ b \in Nat /\ t \in Nat
      BY <1>1, <1>3, <3>2, SobreNat
    <3>5. b + t = a + (t + remain)
      BY <1>9, <3>1, <3>3, <3>4
    <3>6. b = a + remain
      <4>1. remain \in Nat
        BY <1>5
      <4> QED BY <3>4, <3>5, <4>1
    <3> QED BY <3>1, <3>4, <3>6
  <2>6. Sobre(tot, UFs) + remain' = Sobre(Imp(con), 1..Tope(cpto + 1, Len(con)))
    <3>0. PICK ds, l, q : ds = con /\ l = Len(con) /\ q = Sobre(Imp(con), 1..cpto)
      OBVIOUS
    <3>1. /\ \A k \in 0..l : Sobre(Imp(ds), 1..k) \in Nat
          /\ \A k \in 1..l : Sobre(Imp(ds), 1..k) = Sobre(Imp(ds), 1..(k-1)) + ds[k].importe
      <4>1. gastos \in UNION {[1..n -> Gasto] : n \in 1..MaxGastos}
        BY <1>0 DEF DTipo
      <4>2. ds = AgruparConceptos(gastos)
        BY <1>2, <3>0 DEF Marcha
      <4>3. /\ \A k \in 0..Len(ds) : Sobre(Imp(ds), 1..k) \in Nat
            /\ \A k \in 1..Len(ds) : Sobre(Imp(ds), 1..k) = Sobre(Imp(ds), 1..(k-1)) + ds[k].importe
        BY <4>1, <4>2, SumasDeConceptos
      <4> QED BY <3>0, <4>3
    <3>2. q \in Nat /\ Sobre(tot, UFs) = q
      <4>1. cpto \in 0..l
        BY <1>2, <3>0
      <4> QED BY <2>1, <2>5, <3>0, <3>1, <4>1
    <3>3. CASE cpto + 1 <= l
      <4>1. cpto + 1 \in 1..l /\ (cpto + 1) - 1 = cpto /\ Tope(cpto + 1, l) = cpto + 1
        BY <1>2, <3>0, <3>3 DEF Tope
      <4>2. Sobre(Imp(ds), 1..(cpto + 1)) = Sobre(Imp(ds), 1..cpto) + ds[cpto + 1].importe
        BY <3>1, <4>1
      <4>3. remain' = ds[cpto + 1].importe
        BY <1>2, <1>4, <3>0, <4>1
      <4> QED BY <3>0, <3>2, <4>1, <4>2, <4>3
    <3>4. CASE ~(cpto + 1 <= l)
      <4>1. Tope(cpto + 1, l) = cpto /\ remain' = 0
        BY <1>2, <1>4, <3>0, <3>4 DEF Tope
      <4> QED BY <3>0, <3>2, <4>1
    <3> QED BY <3>3, <3>4
  <2>7. \A n \in 1..(cpto' - 1) : Sobre(ItemDe(its, coef, n), UFs) = con[n].importe
    <3>1. \A n \in 1..(cpto' - 1) : n = cpto \/ n \in 1..(cpto - 1)
      BY <1>2, <1>4
    <3> QED BY <2>2, <2>3, <3>1
  <2>8. cpto' <= Len(con') =>
          remain' + Sobre(ItemDe(its, coef, cpto'), 1..(pos' - 1)) = con'[cpto'].importe
    <3>1. 1..(pos' - 1) = 1..0
      BY <1>4
    <3>2. Sobre(ItemDe(its, coef, cpto'), 1..(pos' - 1)) = 0
      BY <1>15, <3>1
    <3>3. ASSUME cpto' <= Len(con') PROVE remain' + 0 = con[cpto'].importe
      <4>1. cpto + 1 \in 1..Len(con)
        BY <1>2, <1>4, <3>3
      <4>2. remain' = con[cpto + 1].importe
        BY <1>2, <1>4, <4>1
      <4> QED BY <1>4, <1>5, <4>2
    <3> QED BY <1>4, <3>2, <3>3
  <2> QED BY <1>4, <1>8, <1>9, <2>4, <2>6, <2>7, <2>8 DEF Cuadra
<1>19. pos' # 0
  BY <1>4
<1> QED BY <1>10, <1>13, <1>16, <1>17, <1>18, <1>19 DEF DInv

\* A step of the distribution keeps the invariant.
LEMMA DPaso == DInv /\ [NextDis]_varsDis => DInv'
<1> SUFFICES ASSUME DInv, [NextDis]_varsDis PROVE DInv'
  OBVIOUS
<1>1. CASE Preparar
  BY <1>1, DPreparar
<1>2. CASE Repartir
  <2>1. pos \in UFs /\ cpto \in DOMAIN con /\ pos' = pos + 1
        /\ UNCHANGED <<gastos, entrada, coef, orden, con, cpto>>
    BY <1>2 DEF Repartir
  <2>2. orden[pos] = pos
    <3>1. pos # 0
      BY <2>1, EntradasAssumption DEF UFs
    <3> QED BY <2>1, <3>1 DEF DInv, Marcha
  <2>3. CASE coef[pos] = 0
    <3>1. remain' = remain /\ items' = items /\ total' = total
      BY <1>2, <2>2, <2>3 DEF Repartir
    <3> QED BY <2>1, <2>3, <3>1, DSaltar
  <2>4. CASE coef[pos] # 0
    <3>1. PICK x \in Redondeos(con[cpto].importe * coef[pos], CoefTotal) :
             /\ total' = [total EXCEPT ![pos] = @ + Recorte(x)]
             /\ items' = [items EXCEPT ![pos] = Append(@, Recorte(x))]
             /\ remain' = remain - Recorte(x)
      BY <1>2, <2>2, <2>4 DEF Repartir
    <3>2. PICK r : r = Recorte(x)
      OBVIOUS
    <3>3. /\ total' = [total EXCEPT ![pos] = @ + r]
          /\ items' = [items EXCEPT ![pos] = Append(@, r)]
          /\ remain' = remain - r
      BY <3>1, <3>2
    <3> QED BY <2>1, <2>4, <3>2, <3>3, DDar
  <2> QED BY <2>3, <2>4
<1>3. CASE Residuo
  BY <1>3, DResiduo
<1>4. CASE UNCHANGED varsDis
  BY <1>4, DQuieto
<1> QED BY <1>1, <1>2, <1>3, <1>4 DEF NextDis

\* DInv is an invariant of Distribuir.
THEOREM InvarianteDis == SpecDis => []DInv
  BY DInit, DPaso, PTL DEF SpecDis

\* What the invariant says when every concepto is given out.
LEMMA AlFinal ==
  ASSUME DInv, Listo
  PROVE  /\ DTipo /\ Marcha /\ Cuadra /\ Justos /\ pos = 1 /\ remain = 0
         /\ Len(con) \in Nat /\ DOMAIN con = 1..Len(con) /\ cpto = Len(con) + 1
         /\ \A a \in 1..Len(con) : con[a].importe \in Nat
         /\ \A u \in UFs : coef[u] > 0 => Len(items[u]) = Len(con)
         /\ \A u \in UFs : \A n \in 1..Len(items[u]) : items[u][n] \in Nat
         /\ \A u \in UFs : coef[u] = 0 => items[u] = <<>>
<1>1. /\ DTipo /\ Marcha /\ Cuadra /\ Justos
      /\ Len(con) \in Nat /\ DOMAIN con = 1..Len(con) /\ cpto \in Nat /\ cpto <= Len(con) + 1
      /\ \A a \in 1..Len(con) : con[a].importe \in Nat
      /\ \A u \in UFs : coef[u] > 0 => Len(items[u]) = IF u < pos THEN cpto ELSE cpto - 1
      /\ \A u \in UFs : \A n \in 1..Len(items[u]) : items[u][n] \in Nat
  BY EnMarcha DEF Listo
<1>2. cpto = Len(con) + 1
  BY <1>1 DEF Listo
<1>3. pos = 1 /\ remain = 0
  BY <1>1, <1>2 DEF Marcha
<1>4. \A u \in UFs : u \in Nat /\ u >= 1 /\ items[u] \in Seq(Nat)
  <2>1. UFs = 1..NUFs /\ NUFs \in Nat /\ \A u \in UFs : items[u] \in Seq(Nat)
    BY <1>1, Numeros
  <2> QED BY <2>1
<1>5. ASSUME NEW u \in UFs, coef[u] > 0 PROVE Len(items[u]) = Len(con)
  <2>1. ~(u < pos) /\ cpto - 1 = Len(con)
    BY <1>1, <1>2, <1>3, <1>4
  <2> QED BY <1>1, <1>5, <2>1
<1>6. ASSUME NEW u \in UFs, coef[u] = 0 PROVE items[u] = <<>>
  <2>1. Len(items[u]) = 0
    BY <1>1, <1>6 DEF Marcha, Hechos
  <2> QED BY <1>4, <2>1
<1> QED BY <1>1, <1>2, <1>3, <1>5, <1>6

\* ADR-0006, for any number of units, conceptos and gastos, whichever way the shares
\* are rounded: the items of a concepto add up to its gastos, the total of a unit to
\* its items, the totals to all the gastos.
THEOREM NadaSePierde == SpecDis => []SumaExacta
<1>1. ASSUME DInv PROVE SumaExacta
  <2> SUFFICES ASSUME Listo PROVE SumaExacta
    BY DEF SumaExacta
  <2>1. /\ DTipo /\ Marcha /\ Cuadra /\ pos = 1 /\ remain = 0
        /\ Len(con) \in Nat /\ DOMAIN con = 1..Len(con) /\ cpto = Len(con) + 1
        /\ \A u \in UFs : coef[u] > 0 => Len(items[u]) = Len(con)
        /\ \A u \in UFs : \A n \in 1..Len(items[u]) : items[u][n] \in Nat
        /\ \A u \in UFs : coef[u] = 0 => items[u] = <<>>
    BY <1>1, AlFinal
  <2>2. \A f : Suma(f) = Sobre(f, DOMAIN f)
    BY DEF Suma, FoldFunction, Sobre
  <2>3. \A u \in UFs : coef[u] \in Nat
    BY <2>1, Numeros
  <2>4. PICK ng \in Nat : /\ DOMAIN gastos = 1..ng /\ EsAgrupado(gastos, ng, con)
                          /\ Sobre(Imp(con), 1..Len(con)) = Sobre(Todo(gastos), 1..ng)
    <3>1. gastos \in UNION {[1..n -> Gasto] : n \in 1..MaxGastos}
      BY <2>1 DEF DTipo
    <3>2. PICK ds : ds = con /\ ds = AgruparConceptos(gastos)
      BY <2>1 DEF Marcha
    <3>3. \E n \in Nat : /\ gastos \in [1..n -> Gasto] /\ DOMAIN gastos = 1..n
                         /\ EsAgrupado(gastos, n, ds)
                         /\ ds \in Seq(Fila) /\ Len(ds) \in Nat /\ DOMAIN ds = 1..Len(ds)
                         /\ \A a \in 1..Len(ds) : ds[a].importe \in Nat
                         /\ Sobre(Imp(ds), 1..Len(ds)) = Sobre(Todo(gastos), 1..n)
      BY <3>1, <3>2, Agrupados
    <3> QED BY <3>2, <3>3
  <2>5. ASSUME NEW n \in DOMAIN con
        PROVE  Suma([u \in UFs |-> ItemsDe(u)[n]])
                 = Suma([m \in DOMAIN gastos |-> IF gastos[m].concepto = con[n].concepto
                                                 THEN gastos[m].importe ELSE 0])
    <3>1. PICK f : f = [u \in UFs |-> ItemsDe(u)[n]]
      OBVIOUS
    <3>2. f = ItemDe(items, coef, n)
      BY <3>1 DEF ItemDe, ItemsDe
    <3>3. DOMAIN f = UFs
      BY <3>1
    <3>4. Suma(f) = con[n].importe
      <4>1. n \in 1..(cpto - 1)
        BY <2>1
      <4> QED BY <2>1, <2>2, <3>2, <3>3, <4>1 DEF Cuadra
    <3>5. PICK g : g = [m \in DOMAIN gastos |-> IF gastos[m].concepto = con[n].concepto
                                                THEN gastos[m].importe ELSE 0]
      OBVIOUS
    <3>6. g = Del(gastos, con[n].concepto) /\ DOMAIN g = 1..ng
      BY <2>4, <3>5 DEF Del
    <3>7. con[n].importe = Sobre(Del(gastos, con[n].concepto), 1..ng)
      BY <2>4 DEF EsAgrupado
    <3> QED BY <2>2, <3>1, <3>4, <3>5, <3>6, <3>7
  <2>6. ASSUME NEW u \in UFs PROVE total[u] = Suma(ItemsDe(u))
    <3>1. PICK f, l, s : f = ItemsDe(u) /\ l = Len(con) /\ s = items[u]
      OBVIOUS
    <3>2. /\ DOMAIN f = 1..l
          /\ \A n \in 1..l : f[n] = IF coef[u] = 0 THEN 0 ELSE s[n]
      BY <2>1, <3>1 DEF ItemsDe
    <3>3. total[u] = Sobre(s, 1..Len(s))
      BY <2>1, <3>1 DEF Cuadra
    <3>4. IsFiniteSet(1..l)
      <4>1. 1 \in Int /\ l \in Int
        BY <2>1, <3>1
      <4> QED BY <4>1, FS_Interval
    <3>5. CASE coef[u] = 0
      <4>1. s = <<>> /\ Len(s) = 0 /\ 1..Len(s) = {}
        BY <2>1, <3>1, <3>5
      <4>2. Sobre(s, {}) = 0
        BY FS_EmptySet, SobreCero
      <4>3. \A n \in 1..l : f[n] = 0
        BY <3>2, <3>5
      <4>4. Sobre(f, 1..l) = 0
        BY <3>4, <4>3, SobreCero
      <4> QED BY <2>2, <3>1, <3>2, <3>3, <4>1, <4>2, <4>4
    <3>6. CASE coef[u] # 0
      <4>1. coef[u] > 0
        BY <2>3, <3>6
      <4>2. Len(s) = l /\ \A n \in 1..l : s[n] \in Nat
        BY <2>1, <3>1, <4>1
      <4>3. \A n \in 1..l : s[n] \in Nat /\ s[n] = f[n]
        BY <3>2, <3>6, <4>2
      <4>4. Sobre(s, 1..l) = Sobre(f, 1..l)
        BY <3>4, <4>3, SobreIgual
      <4> QED BY <2>2, <3>1, <3>2, <3>3, <4>2, <4>4
    <3> QED BY <3>5, <3>6
  <2>7. Suma(total) = Suma([m \in DOMAIN gastos |-> gastos[m].importe])
    <3>1. PICK g : g = [m \in DOMAIN gastos |-> gastos[m].importe]
      OBVIOUS
    <3>2. g = Todo(gastos) /\ DOMAIN g = 1..ng
      BY <2>4, <3>1 DEF Todo
    <3>3. DOMAIN total = UFs
      BY <2>1 DEF DTipo
    <3>4. Sobre(total, UFs) + 0 = Sobre(Imp(con), 1..Len(con))
      <4>1. Tope(cpto, Len(con)) = Len(con)
        <5>1. PICK l : l = Len(con) /\ l \in Nat /\ cpto = l + 1
          BY <2>1
        <5>2. l + 1 > l
          BY <5>1
        <5> QED BY <5>1, <5>2 DEF Tope
      <4> QED BY <2>1, <4>1 DEF Cuadra
    <3>5. Sobre(total, UFs) \in Nat
      <4>1. IsFiniteSet(UFs) /\ \A u \in UFs : total[u] \in Nat
        BY <2>1, Numeros
      <4> QED BY <4>1, SobreNat
    <3> QED BY <2>2, <2>4, <3>1, <3>2, <3>3, <3>4, <3>5
  <2> QED BY <2>5, <2>6, <2>7 DEF SumaExacta
<1> QED BY <1>1, InvarianteDis, PTL

\* A unit pays its share of a concepto within half a cent for each unit of the
\* consorcio and the error of the computed quotients, for any number of units,
\* conceptos and gastos, any precision, and whichever way the query and the rounding
\* of Distribuir went.
THEOREM CadaUnoSuParte == SpecDis => []RepartoProporcional
<1>1. ASSUME DInv PROVE RepartoProporcional
  <2> SUFFICES ASSUME Listo, NEW u \in UFs, NEW n \in DOMAIN con
      PROVE  LET parte  == Precision * (con[n].importe * coef[u])
                 paga   == Precision * (ItemsDe(u)[n] * CoefTotal)
                 margen == NUFs * (Precision * CoefTotal) + 2 * (con[n].importe * CoefTotal)
             IN  /\ coef[u] = 0 => items[u] = <<>>
                 /\ ItemsDe(u)[n] >= 0
                 /\ 2 * paga <= 2 * parte + margen
                 /\ 2 * parte <= 2 * paga + margen
    BY DEF RepartoProporcional
  <2>1. /\ DTipo /\ Justos /\ DOMAIN con = 1..Len(con) /\ Len(con) \in Nat /\ cpto = Len(con) + 1
        /\ \A a \in 1..Len(con) : con[a].importe \in Nat
        /\ coef[u] > 0 => Len(items[u]) = Len(con)
        /\ \A m \in 1..Len(items[u]) : items[u][m] \in Nat
        /\ coef[u] = 0 => items[u] = <<>>
    BY <1>1, AlFinal
  <2>2. PICK T, I, c : /\ T = CoefTotal /\ I = con[n].importe /\ c = coef[u]
                       /\ T \in Nat /\ I \in Nat /\ c \in Nat
    BY <2>1, Numeros
  <2>3. PICK P, N : P = Precision /\ P \in Nat /\ N = NUFs /\ N \in Nat
    BY EntradasAssumption
  <2>4. ItemsDe(u)[n] = IF c = 0 THEN 0 ELSE items[u][n]
    BY <2>2 DEF ItemsDe
  <2>5. ASSUME NEW s \in Nat, ItemsDe(u)[n] = s, 2*(P*(s*T)) <= 2*(P*(I*c)) + (N*(P*T) + 2*(I*T)),
               2*(P*(I*c)) <= 2*(P*(s*T)) + (N*(P*T) + 2*(I*T))
        PROVE  LET parte  == Precision * (con[n].importe * coef[u])
                   paga   == Precision * (ItemsDe(u)[n] * CoefTotal)
                   margen == NUFs * (Precision * CoefTotal) + 2 * (con[n].importe * CoefTotal)
               IN  /\ coef[u] = 0 => items[u] = <<>>
                   /\ ItemsDe(u)[n] >= 0
                   /\ 2 * paga <= 2 * parte + margen
                   /\ 2 * parte <= 2 * paga + margen
    BY <2>1, <2>2, <2>3, <2>5
  <2>6. N*(P*T) \in Nat /\ I*T \in Nat
    BY <2>2, <2>3
  <2>7. CASE c = 0
    <3>1. P*(0*T) = 0 /\ P*(I*c) = 0 /\ 0 \in Nat /\ ItemsDe(u)[n] = 0
      BY <2>2, <2>3, <2>4, <2>7
    <3> QED BY <2>5, <2>6, <3>1
  <2>8. CASE c # 0
    <3>1. PICK s : s = items[u][n] /\ s \in Nat /\ ItemsDe(u)[n] = s
      BY <2>1, <2>2, <2>4, <2>8
    <3>2. coef[u] > 0 /\ n \in 1..(cpto - 1)
      BY <2>1, <2>2, <2>8
    <3>3. Justo(T, I, s, c)
      BY <2>1, <2>2, <3>1, <3>2 DEF Justos
    <3>4. /\ 2*((P*T)*s) <= 2*((P*I)*c) + N*(P*T) + 2*(I*T)
          /\ 2*((P*I)*c) <= 2*((P*T)*s) + N*(P*T) + 2*(I*T)
      BY <2>3, <3>3 DEF Justo, Cerca, Escala
    <3>5. (P*T)*s = P*(s*T) /\ (P*I)*c = P*(I*c)
      BY <2>2, <2>3, <3>1
    <3>6. P*(s*T) \in Nat /\ P*(I*c) \in Nat
      BY <2>2, <2>3, <3>1
    <3>7. PICK x, y, m, w : /\ x = P*(s*T) /\ y = P*(I*c) /\ m = N*(P*T) /\ w = I*T
                            /\ x \in Nat /\ y \in Nat /\ m \in Nat /\ w \in Nat
      BY <2>6, <3>6
    <3>8. 2*x <= 2*y + m + 2*w /\ 2*y <= 2*x + m + 2*w
      BY <3>4, <3>5, <3>7
    <3>9. 2*x <= 2*y + (m + 2*w) /\ 2*y <= 2*x + (m + 2*w)
      BY <3>7, <3>8
    <3>10. /\ 2*(P*(s*T)) <= 2*(P*(I*c)) + (N*(P*T) + 2*(I*T))
           /\ 2*(P*(I*c)) <= 2*(P*(s*T)) + (N*(P*T) + 2*(I*T))
      BY <3>7, <3>9
    <3> QED BY <2>5, <3>1, <3>10
  <2> QED BY <2>7, <2>8
<1> QED BY <1>1, InvarianteDis, PTL
=============================================================================
