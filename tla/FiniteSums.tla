----------------------------- MODULE FiniteSums -----------------------------
(***************************************************************************)
(* Sums of naturals over finite sets.  Induction is replaced by minimal    *)
(* counterexamples, and a sum of naturals is the number of its units.      *)
(***************************************************************************)
EXTENDS FiniteSetTheorems, NaturalsInduction, TLAPS

-----------------------------------------------------------------------------
(* Minimal elements.                                                       *)

\* A set of subsets of a finite set has a minimal member.
LEMMA MinimalSubset ==
    ASSUME NEW D, IsFiniteSet(D), NEW T, T \subseteq SUBSET D, T # {}
    PROVE  \E s \in T : \A t \in T : t \subseteq s => t = s
<1>1. FiniteSubsetsOf(D) = SUBSET D
  BY FS_FiniteSubsetsOfFinite
<1>2. IsWellFoundedOn(StrictSubsetOrdering(D), SUBSET D)
  BY <1>1, FS_StrictSubsetOrderingWellFounded
<1>3. \E s \in T : \A t \in T : ~(<<t, s>> \in StrictSubsetOrdering(D))
  BY <1>2, WFMin
<1>4. ASSUME NEW s \in T, NEW t \in T, t \subseteq s, t # s
      PROVE  <<t, s>> \in StrictSubsetOrdering(D)
  BY <1>4 DEF StrictSubsetOrdering
<1> QED BY <1>3, <1>4

\* So has a set of naturals.
LEMMA LeastNat ==
    ASSUME NEW T, T \subseteq Nat, T # {}
    PROVE  \E n \in T : \A m \in T : n <= m
<1>1. \E n \in T : \A m \in T : ~(<<m, n>> \in OpToRel(<, Nat))
  BY NatLessThanWellFounded, WFMin
<1>2. PICK n \in T : \A m \in T : ~(<<m, n>> \in OpToRel(<, Nat))
  BY <1>1
<1>3. ASSUME NEW m \in T PROVE n <= m
  <2>1. ~(<<m, n>> \in OpToRel(<, Nat))
    BY <1>2
  <2>2. m \in Nat /\ n \in Nat
    BY <1>2
  <2>3. ~(m < n)
    BY <2>1, <2>2 DEF OpToRel
  <2> QED BY <2>2, <2>3
<1> QED BY <1>3

-----------------------------------------------------------------------------
(* Sums.                                                                   *)

Chosen(s) == CHOOSE x \in s : TRUE

\* The recursion of MapThenSumSet.
IsSum(h, g, D) ==
    h = [s \in SUBSET D |-> IF s = {} THEN 0 ELSE g[Chosen(s)] + h[s \ {Chosen(s)}]]

SumOf(g, D) == (CHOOSE h : IsSum(h, g, D))[D]

Units(g, D) == {u \in D \X Nat : u[2] \in 1..g[u[1]]}
Count(g, D) == Cardinality(Units(g, D))

LEMMA UnitsSplit ==
    ASSUME NEW D, NEW g, \A k \in D : g[k] \in Nat, NEW x \in D
    PROVE  /\ Units(g, D) = Units(g, D \ {x}) \cup ({x} \X (1..g[x]))
           /\ Units(g, D \ {x}) \cap ({x} \X (1..g[x])) = {}
<1>1. g[x] \in Nat
  OBVIOUS
<1>2. 1..g[x] \subseteq Nat
  BY <1>1
<1> QED BY <1>1, <1>2 DEF Units

LEMMA UnitsOfOne ==
    ASSUME NEW x, NEW n \in Nat
    PROVE  IsFiniteSet({x} \X (1..n)) /\ Cardinality({x} \X (1..n)) = n
<1>1. IsFiniteSet({x}) /\ Cardinality({x}) = 1
  BY FS_Singleton
<1>2. IsFiniteSet(1..n) /\ Cardinality(1..n) = n
  BY FS_Interval
<1>3. /\ IsFiniteSet({x} \X (1..n))
      /\ Cardinality({x} \X (1..n)) = Cardinality({x}) * Cardinality(1..n)
  BY <1>1, <1>2, FS_Product
<1> QED BY <1>1, <1>2, <1>3

LEMMA UnitsFinite ==
    ASSUME NEW D, IsFiniteSet(D), NEW g, \A k \in D : g[k] \in Nat
    PROVE  \A s \in SUBSET D : IsFiniteSet(Units(g, s))
<1> DEFINE T == {s \in SUBSET D : ~IsFiniteSet(Units(g, s))}
<1>1. SUFFICES ASSUME T # {} PROVE FALSE
  OBVIOUS
<1>2. PICK s \in T : \A t \in T : t \subseteq s => t = s
  <2>1. T \subseteq SUBSET D
    OBVIOUS
  <2> HIDE DEF T
  <2> QED BY <1>1, <2>1, MinimalSubset
<1>3. s # {}
  <2>1. Units(g, {}) = {}
    BY DEF Units
  <2> QED BY <2>1, FS_EmptySet
<1>4. PICK x \in s : TRUE
  BY <1>3
<1>5. IsFiniteSet(Units(g, s \ {x}))
  <2>1. s \ {x} \notin T
    BY <1>2
  <2> QED BY <2>1
<1>6. g[x] \in Nat /\ \A k \in s : g[k] \in Nat
  OBVIOUS
<1>7. Units(g, s) = Units(g, s \ {x}) \cup ({x} \X (1..g[x]))
  BY <1>6, UnitsSplit
<1>8. IsFiniteSet({x} \X (1..g[x]))
  BY <1>6, UnitsOfOne
<1>9. IsFiniteSet(Units(g, s \ {x}) \cup ({x} \X (1..g[x])))
  BY <1>5, <1>8, FS_Union
<1> QED BY <1>7, <1>9

\* The number of units obeys the recursion.
LEMMA CountStep ==
    ASSUME NEW D, IsFiniteSet(D), NEW g, \A k \in D : g[k] \in Nat,
           NEW s \in SUBSET D
    PROVE  /\ Count(g, s) \in Nat
           /\ s = {} => Count(g, s) = 0
           /\ \A x \in s : Count(g, s) = g[x] + Count(g, s \ {x})
<1>1. IsFiniteSet(Units(g, s))
  BY UnitsFinite
<1>2. Count(g, s) \in Nat
  BY <1>1, FS_CardinalityType DEF Count
<1>3. s = {} => Count(g, s) = 0
  <2>1. Units(g, {}) = {}
    BY DEF Units
  <2> QED BY <2>1, FS_EmptySet DEF Count
<1>4. ASSUME NEW x \in s
      PROVE  Count(g, s) = g[x] + Count(g, s \ {x})
  <2> DEFINE rest == Units(g, s \ {x})
             one == {x} \X (1..g[x])
  <2>1. IsFiniteSet(rest)
    BY UnitsFinite
  <2>2. g[x] \in Nat /\ \A k \in s : g[k] \in Nat
    OBVIOUS
  <2>3. IsFiniteSet(one) /\ Cardinality(one) = g[x]
    BY <2>2, UnitsOfOne
  <2>4. Units(g, s) = rest \cup one /\ rest \cap one = {}
    BY <2>2, UnitsSplit
  <2> HIDE DEF rest, one
  <2>5. Cardinality(rest \cup one)
            = Cardinality(rest) + Cardinality(one) - Cardinality(rest \cap one)
    BY <2>1, <2>3, FS_Union
  <2>6. Cardinality(rest \cap one) = 0 /\ Cardinality(rest) \in Nat
    BY <2>1, <2>4, FS_EmptySet, FS_CardinalityType
  <2> QED BY <2>2, <2>3, <2>4, <2>5, <2>6 DEF Count, rest
<1> QED BY <1>2, <1>3, <1>4

\* A recursion over the subsets of a finite set has one solution.
LEMMA SumUnique ==
    ASSUME NEW D, IsFiniteSet(D), NEW g, NEW h, NEW i, IsSum(h, g, D), IsSum(i, g, D)
    PROVE  h = i
<1>1. /\ h = [s \in SUBSET D |-> h[s]] /\ i = [s \in SUBSET D |-> i[s]]
      /\ \A s \in SUBSET D :
            /\ h[s] = IF s = {} THEN 0 ELSE g[Chosen(s)] + h[s \ {Chosen(s)}]
            /\ i[s] = IF s = {} THEN 0 ELSE g[Chosen(s)] + i[s \ {Chosen(s)}]
  BY DEF IsSum
<1> DEFINE T == {s \in SUBSET D : h[s] # i[s]}
<1>2. SUFFICES ASSUME T # {} PROVE FALSE
  BY <1>1
<1>3. PICK s \in T : \A t \in T : t \subseteq s => t = s
  <2>1. T \subseteq SUBSET D
    OBVIOUS
  <2> HIDE DEF T
  <2> QED BY <1>2, <2>1, MinimalSubset
<1>4. s # {}
  BY <1>1, <1>3
<1>5. Chosen(s) \in s
  BY <1>4 DEF Chosen
<1>6. s \ {Chosen(s)} \notin T /\ s \ {Chosen(s)} \in SUBSET D
  BY <1>3, <1>5
<1> HIDE DEF T
<1>7. h[s \ {Chosen(s)}] = i[s \ {Chosen(s)}]
  BY <1>6 DEF T
<1>8. h[s] = i[s]
  BY <1>1, <1>3, <1>4, <1>7 DEF T
<1> QED BY <1>3, <1>8 DEF T

LEMMA CountIsSum ==
    ASSUME NEW D, IsFiniteSet(D), NEW g, \A k \in D : g[k] \in Nat
    PROVE  IsSum([s \in SUBSET D |-> Count(g, s)], g, D)
<1> DEFINE h == [s \in SUBSET D |-> Count(g, s)]
<1>1. ASSUME NEW s \in SUBSET D
      PROVE  h[s] = IF s = {} THEN 0 ELSE g[Chosen(s)] + h[s \ {Chosen(s)}]
  <2>1. CASE s = {}
    BY <2>1, CountStep
  <2>2. CASE s # {}
    <3>1. Chosen(s) \in s
      BY <2>2 DEF Chosen
    <3>2. Count(g, s) = g[Chosen(s)] + Count(g, s \ {Chosen(s)})
      BY <3>1, CountStep
    <3>3. s \ {Chosen(s)} \in SUBSET D
      OBVIOUS
    <3> QED BY <2>2, <3>2, <3>3
  <2> QED BY <2>1, <2>2
<1> QED BY <1>1 DEF IsSum

LEMMA SumIsCount ==
    ASSUME NEW D, IsFiniteSet(D), NEW g, \A k \in D : g[k] \in Nat
    PROVE  SumOf(g, D) = Count(g, D)
<1> DEFINE h == [s \in SUBSET D |-> Count(g, s)]
<1>1. IsSum(h, g, D)
  BY CountIsSum
<1>2. IsSum(CHOOSE i : IsSum(i, g, D), g, D)
  BY <1>1
<1>3. (CHOOSE i : IsSum(i, g, D)) = h
  <2> HIDE DEF h
  <2> QED BY <1>1, <1>2, SumUnique
<1>4. h[D] = Count(g, D)
  OBVIOUS
<1> QED BY <1>3, <1>4 DEF SumOf

\* The sum of a sum.
LEMMA CountAdds ==
    ASSUME NEW D, IsFiniteSet(D), NEW f, NEW g, NEW e,
           \A k \in D : f[k] \in Nat /\ g[k] \in Nat /\ e[k] = f[k] + g[k]
    PROVE  Count(e, D) = Count(f, D) + Count(g, D)
<1> DEFINE h == [s \in SUBSET D |-> Count(e, s)]
           i == [s \in SUBSET D |-> Count(f, s) + Count(g, s)]
<1>1. IsSum(h, e, D)
  <2>1. \A k \in D : e[k] \in Nat
    OBVIOUS
  <2> QED BY <2>1, CountIsSum
<1>2. ASSUME NEW s \in SUBSET D
      PROVE  i[s] = IF s = {} THEN 0 ELSE e[Chosen(s)] + i[s \ {Chosen(s)}]
  <2>1. CASE s = {}
    BY <2>1, CountStep
  <2>2. CASE s # {}
    <3> DEFINE x == Chosen(s)
    <3>1. x \in s /\ x \in D /\ s \ {x} \in SUBSET D
      BY <2>2 DEF Chosen
    <3>2. /\ Count(f, s) = f[x] + Count(f, s \ {x})
          /\ Count(g, s) = g[x] + Count(g, s \ {x})
      BY <3>1, CountStep
    <3>3. Count(f, s \ {x}) \in Nat /\ Count(g, s \ {x}) \in Nat
      BY <3>1, CountStep
    <3>4. e[x] = f[x] + g[x] /\ f[x] \in Nat /\ g[x] \in Nat
      BY <3>1
    <3> HIDE DEF x
    <3>5. Count(f, s) + Count(g, s)
             = e[x] + (Count(f, s \ {x}) + Count(g, s \ {x}))
      BY <3>2, <3>3, <3>4
    <3>6. i[s] = e[x] + i[s \ {x}]
      BY <3>1, <3>5
    <3> QED BY <2>2, <3>6 DEF x
  <2> QED BY <2>1, <2>2
<1>3. IsSum(i, e, D)
  BY <1>2 DEF IsSum
<1>4. h = i
  <2> HIDE DEF h, i
  <2> QED BY <1>1, <1>3, SumUnique
<1>5. h[D] = i[D]
  BY <1>4
<1> QED BY <1>5

\* A sum over fewer is not larger.
LEMMA CountMonotone ==
    ASSUME NEW D, IsFiniteSet(D), NEW g, \A k \in D : g[k] \in Nat, NEW E \in SUBSET D
    PROVE  Count(g, E) <= Count(g, D)
<1>1. Units(g, E) \subseteq Units(g, D)
  BY DEF Units
<1>2. IsFiniteSet(Units(g, D))
  BY UnitsFinite
<1> QED BY <1>1, <1>2, FS_Subset DEF Count

\* A sum of zeros, and one with a single one.
LEMMA CountZero ==
    ASSUME NEW D, NEW g, \A k \in D : g[k] = 0
    PROVE  Count(g, D) = 0
<1>1. Units(g, D) = {}
  BY DEF Units
<1> QED BY <1>1, FS_EmptySet DEF Count

LEMMA CountOne ==
    ASSUME NEW D, NEW g, NEW x \in D, \A k \in D : g[k] = IF k = x THEN 1 ELSE 0
    PROVE  Count(g, D) = 1
<1>1. Units(g, D) = {<<x, 1>>}
  BY DEF Units
<1> QED BY <1>1, FS_Singleton DEF Count

LEMMA CountSingle ==
    ASSUME NEW x, NEW g, g[x] \in Nat
    PROVE  Count(g, {x}) = g[x]
<1>1. IsFiniteSet({x})
  BY FS_Singleton
<1>2. \A k \in {x} : g[k] \in Nat
  OBVIOUS
<1>3. Count(g, {x}) = g[x] + Count(g, {x} \ {x})
  BY <1>1, <1>2, CountStep
<1>4. Count(g, {x} \ {x}) = 0
  <2>1. {x} \ {x} = {}
    OBVIOUS
  <2> QED BY <2>1, <1>1, <1>2, CountStep
<1> QED BY <1>3, <1>4

\* Two parts.
LEMMA CountUnion ==
    ASSUME NEW D, IsFiniteSet(D), NEW E, IsFiniteSet(E), D \cap E = {},
           NEW g, \A k \in D \cup E : g[k] \in Nat
    PROVE  Count(g, D \cup E) = Count(g, D) + Count(g, E)
<1>1. IsFiniteSet(D \cup E)
  BY FS_Union
<1>2. IsFiniteSet(Units(g, D)) /\ IsFiniteSet(Units(g, E))
  BY <1>1, UnitsFinite
<1>3. /\ Units(g, D \cup E) = Units(g, D) \cup Units(g, E)
      /\ Units(g, D) \cap Units(g, E) = {}
  BY DEF Units
<1> DEFINE A == Units(g, D)
           B == Units(g, E)
<1> HIDE DEF A, B
<1>4. Cardinality(A \cup B) = Cardinality(A) + Cardinality(B) - Cardinality(A \cap B)
  BY <1>2, FS_Union DEF A, B
<1>5. Cardinality(A \cap B) = 0 /\ Cardinality(A) \in Nat /\ Cardinality(B) \in Nat
  BY <1>2, <1>3, FS_EmptySet, FS_CardinalityType DEF A, B
<1>6. Cardinality(A \cup B) = Cardinality(A) + Cardinality(B)
  BY <1>4, <1>5
<1> QED BY <1>3, <1>6 DEF Count, A, B

\* The same numbers, under other names.
LEMMA CountReindex ==
    ASSUME NEW D, IsFiniteSet(D), NEW E, NEW f \in Bijection(D, E),
           NEW g, NEW h, \A k \in D : g[k] \in Nat /\ h[f[k]] = g[k]
    PROVE  Count(g, D) = Count(h, E)
<1> DEFINE F == [u \in Units(g, D) |-> <<f[u[1]], u[2]>>]
<1>1. /\ f \in [D -> E]
      /\ \A j, k \in D : f[j] = f[k] => j = k
      /\ \A e \in E : \E k \in D : f[k] = e
  BY DEF Bijection, Injection, Surjection, IsInjective
<1>2. IsFiniteSet(Units(g, D))
  <2>1. \A k \in D : g[k] \in Nat
    OBVIOUS
  <2> QED BY <2>1, UnitsFinite
<1>3. \A u \in Units(g, D) : /\ u = <<u[1], u[2]>> /\ u[1] \in D
                             /\ u[2] \in Nat /\ u[2] \in 1..g[u[1]]
  BY DEF Units
<1>4. F \in [Units(g, D) -> Units(h, E)]
  <2>1. ASSUME NEW u \in Units(g, D)
        PROVE  <<f[u[1]], u[2]>> \in Units(h, E)
    <3>1. u[1] \in D /\ u[2] \in Nat /\ u[2] \in 1..g[u[1]]
      BY <1>3
    <3>2. f[u[1]] \in E /\ h[f[u[1]]] = g[u[1]]
      BY <1>1, <3>1
    <3> QED BY <3>1, <3>2 DEF Units
  <2> QED BY <2>1
<1>5. ASSUME NEW u \in Units(g, D), NEW v \in Units(g, D), F[u] = F[v]
      PROVE  u = v
  <2>1. f[u[1]] = f[v[1]] /\ u[2] = v[2]
    BY <1>5
  <2>2. u[1] = v[1]
    BY <1>1, <1>3, <2>1
  <2> QED BY <1>3, <2>1, <2>2
<1>6. ASSUME NEW w \in Units(h, E)
      PROVE  \E u \in Units(g, D) : F[u] = w
  <2>1. w = <<w[1], w[2]>> /\ w[1] \in E /\ w[2] \in Nat /\ w[2] \in 1..h[w[1]]
    BY DEF Units
  <2>2. PICK k \in D : f[k] = w[1]
    BY <1>1, <2>1
  <2>3. <<k, w[2]>> \in Units(g, D)
    BY <2>1, <2>2 DEF Units
  <2>4. F[<<k, w[2]>>] = w
    BY <2>1, <2>2, <2>3
  <2> QED BY <2>3, <2>4
<1> HIDE DEF F
<1>7. DOMAIN F = Units(g, D)
  BY <1>4
<1>8. F \in Bijection(Units(g, D), Units(h, E))
  BY <1>4, <1>5, <1>6, <1>7 DEF Bijection, Injection, Surjection, IsInjective
<1>9. ExistsBijection(Units(g, D), Units(h, E))
  BY <1>8 DEF ExistsBijection
<1> QED BY <1>2, <1>9, FS_Bijection DEF Count

\* The same numbers.
LEMMA CountSame ==
    ASSUME NEW D, NEW g, NEW h, \A k \in D : h[k] = g[k]
    PROVE  Count(g, D) = Count(h, D)
<1>1. Units(g, D) = Units(h, D)
  BY DEF Units
<1> QED BY <1>1 DEF Count
=============================================================================
