------------------------------ MODULE SumProofs ------------------------------
(***************************************************************************)
(* Facts about sums over finite sets, for the modules that prove           *)
(* something of MapThenSumSet.  The sum of the natural numbers f[x] over a *)
(* finite set S is the number of units, the pairs of an x in S and a       *)
(* number below f[x]; what the cardinality of a union, a part or a         *)
(* difference is then gives what the sum over it is.                       *)
(***************************************************************************)
EXTENDS Integers, FiniteSets, FiniteSetsExt, TLAPS, WellFoundedInduction,
        NaturalsInduction, FiniteSetTheorems

Units(f, S) == {u \in S \X Nat : u[2] < f[u[1]]}

(* One step of the fold, as MapThenFoldSet takes it.                       *)
SumStep(f, it, s) ==
  IF s = {} THEN 0
            ELSE f[CHOOSE x \in s : TRUE] + it[s \ {CHOOSE x \in s : TRUE}]

-----------------------------------------------------------------------------
(* Induction: a set of natural numbers, or of finite sets, that is not     *)
(* empty has a least element.                                              *)

LEMMA LeastNumber ==
  ASSUME NEW S \in SUBSET Nat, S # {}
  PROVE  \E n \in S : \A m \in S : n <= m
<1>1. IsWellFoundedOn(OpToRel(<, Nat), Nat)
  BY NatLessThanWellFounded
<1>2. PICK n \in S : \A m \in S : ~ (<<m, n>> \in OpToRel(<, Nat))
  BY <1>1, WFMin
<1>3. \A m \in S : ~ (m < n)
  BY <1>2 DEF OpToRel
<1>4. n \in Nat /\ \A m \in S : m \in Nat
  BY <1>2
<1>5. \A m \in S : n <= m
  BY <1>3, <1>4
<1>6. QED
  BY <1>2, <1>5

LEMMA LeastSubset ==
  ASSUME NEW S, IsFiniteSet(S), NEW T \in SUBSET (SUBSET S), T # {}
  PROVE  \E s \in T : \A r \in T : r \subseteq s => r = s
<1>1. FiniteSubsetsOf(S) = SUBSET S
  BY FS_FiniteSubsetsOfFinite
<1>2. IsWellFoundedOn(StrictSubsetOrdering(S), SUBSET S)
  BY <1>1, FS_StrictSubsetOrderingWellFounded
<1>3. PICK s \in T : \A r \in T : ~ (<<r, s>> \in StrictSubsetOrdering(S))
  BY <1>2, WFMin
<1>4. ASSUME NEW r \in T, r \subseteq s, r # s
      PROVE  FALSE
  <2>1. <<r, s>> \in StrictSubsetOrdering(S)
    BY <1>4 DEF StrictSubsetOrdering
  <2>2. QED
    BY <1>3, <1>4, <2>1
<1>5. \A r \in T : r \subseteq s => r = s
  BY <1>4
<1>6. QED
  BY <1>5

LEMMA MaxIs ==
  ASSUME NEW n \in Nat, NEW S \in SUBSET (0..n), S # {}
  PROVE  Max(S) \in S /\ \A y \in S : y <= Max(S)
<1> DEFINE U == {k \in Nat : \A y \in S : y <= k}
<1>1. U \in SUBSET Nat /\ n \in U
  OBVIOUS
<1>2. PICK k \in U : \A m \in U : k <= m
  <2> HIDE DEF U
  <2>1. QED
    BY <1>1, LeastNumber
<1>3. k \in S
  <2>1. SUFFICES ASSUME k \notin S PROVE FALSE
    OBVIOUS
  <2>2. \A y \in S : y \in Nat /\ y < k
    BY <1>2, <2>1
  <2>3. PICK z \in S : TRUE
    OBVIOUS
  <2>4. k \in Nat /\ z \in Nat /\ z < k
    BY <1>2, <2>2, <2>3
  <2>5. k - 1 \in Nat /\ \A y \in S : y <= k - 1
    BY <2>2, <2>4
  <2>6. k <= k - 1
    BY <1>2, <2>5
  <2>7. QED
    BY <2>4, <2>6
<1>4. \E x \in S : \A y \in S : x >= y
  BY <1>2, <1>3
<1>5. Max(S) \in S /\ \A y \in S : Max(S) >= y
  BY <1>4 DEF Max
<1>6. QED
  BY <1>5

-----------------------------------------------------------------------------
(* The units of a finite set are finitely many.                            *)

LEMMA UnitsOfElement ==
  ASSUME NEW S, NEW f \in [S -> Nat], NEW x \in S
  PROVE  /\ IsFiniteSet(Units(f, {x}))
         /\ Cardinality(Units(f, {x})) = f[x]
<1> DEFINE b == [k \in 0 .. f[x] - 1 |-> <<x, k>>]
<1>1. f[x] \in Nat
  OBVIOUS
<1>2. IsFiniteSet(0 .. f[x] - 1) /\ Cardinality(0 .. f[x] - 1) = f[x]
  BY <1>1, FS_Interval
<1>3. Units(f, {x}) = {<<x, k>> : k \in 0 .. f[x] - 1}
  BY <1>1 DEF Units
<1>4. b \in Bijection(0 .. f[x] - 1, Units(f, {x}))
  <2>1. b \in [0 .. f[x] - 1 -> Units(f, {x})]
    BY <1>3
  <2>2. \A j, k \in 0 .. f[x] - 1 : b[j] = b[k] => j = k
    OBVIOUS
  <2>3. \A u \in Units(f, {x}) : \E k \in 0 .. f[x] - 1 : b[k] = u
    BY <1>3
  <2>4. QED
    BY <2>1, <2>2, <2>3 DEF Bijection, Injection, Surjection, IsInjective
<1>5. ExistsBijection(0 .. f[x] - 1, Units(f, {x}))
  BY <1>4 DEF ExistsBijection
<1>6. QED
  BY <1>2, <1>5, FS_Bijection

LEMMA UnitsOfUnion ==
  ASSUME NEW f, NEW s, NEW r, NEW q, q = s \cup r
  PROVE  Units(f, q) = Units(f, s) \cup Units(f, r)
BY DEF Units

LEMMA UnitsAreFinite ==
  ASSUME NEW S, IsFiniteSet(S), NEW f \in [S -> Nat]
  PROVE  IsFiniteSet(Units(f, S))
<1> DEFINE T == {s \in SUBSET S : ~ IsFiniteSet(Units(f, s))}
<1>1. SUFFICES ASSUME T # {} PROVE FALSE
  OBVIOUS
<1>2. PICK s \in T : \A r \in T : r \subseteq s => r = s
  <2>1. T \in SUBSET (SUBSET S)
    OBVIOUS
  <2> HIDE DEF T
  <2>2. QED
    BY <1>1, <2>1, LeastSubset
<1>3. CASE s = {}
  <2>1. Units(f, s) = {}
    BY <1>3 DEF Units
  <2>2. QED
    BY <1>2, <2>1, FS_EmptySet
<1>4. CASE s # {}
  <2>1. PICK x \in s : TRUE
    BY <1>4
  <2>2. /\ x \in S /\ s \ {x} \in SUBSET S /\ s \ {x} # s
        /\ s = (s \ {x}) \cup {x}
    BY <1>2, <2>1
  <2>3. IsFiniteSet(Units(f, s \ {x}))
    BY <1>2, <2>2
  <2>4. IsFiniteSet(Units(f, {x}))
    BY <2>2, UnitsOfElement
  <2>5. Units(f, s) = Units(f, s \ {x}) \cup Units(f, {x})
    BY <2>2, UnitsOfUnion
  <2>6. IsFiniteSet(Units(f, s \ {x}) \cup Units(f, {x}))
    BY <2>3, <2>4, FS_Union
  <2>7. QED
    BY <1>2, <2>5, <2>6
<1>5. QED
  BY <1>3, <1>4

(* How many units there are.                                               *)
Total(f, S) == Cardinality(Units(f, S))

LEMMA TotalOfPart ==
  ASSUME NEW S, IsFiniteSet(S), NEW f \in [S -> Nat], NEW s \in SUBSET S
  PROVE  /\ IsFiniteSet(Units(f, s))
         /\ Total(f, s) \in Nat
         /\ Total(f, s) <= Total(f, S)
<1>1. IsFiniteSet(Units(f, S))
  BY UnitsAreFinite
<1>2. Units(f, s) \subseteq Units(f, S)
  BY DEF Units
<1>3. QED
  BY <1>1, <1>2, FS_Subset, FS_CardinalityType DEF Total

LEMMA TotalOfNone ==
  ASSUME NEW f
  PROVE  Total(f, {}) = 0
<1>1. Units(f, {}) = {}
  BY DEF Units
<1>2. QED
  BY <1>1, FS_EmptySet DEF Total

LEMMA TotalOfOne ==
  ASSUME NEW S, NEW f \in [S -> Nat], NEW x \in S
  PROVE  Total(f, {x}) = f[x]
BY UnitsOfElement DEF Total

LEMMA TotalOfUnion ==
  ASSUME NEW S, IsFiniteSet(S), NEW f \in [S -> Nat],
         NEW s \in SUBSET S, NEW r \in SUBSET S, s \cap r = {}
  PROVE  Total(f, s \cup r) = Total(f, s) + Total(f, r)
<1>1. IsFiniteSet(Units(f, s)) /\ IsFiniteSet(Units(f, r))
  BY TotalOfPart
<1>2. Units(f, s) \cap Units(f, r) = {}
  BY DEF Units
<1>3. Units(f, s \cup r) = Units(f, s) \cup Units(f, r)
  BY UnitsOfUnion
<1>4. Total(f, s) \in Nat /\ Total(f, r) \in Nat
  BY TotalOfPart
<1>5. Cardinality(Units(f, s) \cup Units(f, r)) =
        Cardinality(Units(f, s)) + Cardinality(Units(f, r)) - 0
  BY <1>1, <1>2, FS_Union, FS_EmptySet
<1>6. Total(f, s \cup r) = Cardinality(Units(f, s) \cup Units(f, r))
  BY <1>3 DEF Total
<1>7. Cardinality(Units(f, s)) \in Nat /\ Cardinality(Units(f, r)) \in Nat
  BY <1>4 DEF Total
<1>8. QED
  BY <1>5, <1>6, <1>7 DEF Total

LEMMA TotalWithout ==
  ASSUME NEW S, IsFiniteSet(S), NEW f \in [S -> Nat],
         NEW s \in SUBSET S, NEW x \in s
  PROVE  Total(f, s) = f[x] + Total(f, s \ {x})
<1>1. /\ x \in S /\ s \ {x} \in SUBSET S /\ {x} \in SUBSET S
      /\ {x} \cap (s \ {x}) = {} /\ s = {x} \cup (s \ {x})
  OBVIOUS
<1>2. Total(f, s) = Total(f, {x}) + Total(f, s \ {x})
  BY <1>1, TotalOfUnion
<1>3. QED
  BY <1>1, <1>2, TotalOfOne

(* Two functions that agree on s have the same total.                      *)
LEMMA TotalDependsOnValues ==
  ASSUME NEW s, NEW f, NEW g, \A x \in s : f[x] = g[x]
  PROVE  Total(f, s) = Total(g, s)
<1>1. Units(f, s) = Units(g, s)
  BY DEF Units
<1>2. QED
  BY <1>1 DEF Total

(* One more element with a value of its own.                               *)
LEMMA TotalWithOneMore ==
  ASSUME NEW S, IsFiniteSet(S), NEW f \in [S -> Nat], NEW n, n \notin S,
         NEW T, T = S \cup {n},
         NEW g \in [T -> Nat], \A k \in S : g[k] = f[k]
  PROVE  Total(g, T) = Total(f, S) + g[n]
<1>1. IsFiniteSet(T) /\ n \in T /\ T \ {n} = S /\ T \in SUBSET T
  BY FS_AddElement
<1>2. Total(g, T) = g[n] + Total(g, S)
  <2>1. Total(g, T) = g[n] + Total(g, T \ {n})
    BY <1>1, TotalWithout
  <2>2. QED
    BY <1>1, <2>1
<1>3. Total(g, S) = Total(f, S)
  BY TotalDependsOnValues
<1>4. Total(f, S) \in Nat /\ g[n] \in Nat
  BY <1>1, TotalOfPart
<1>5. QED
  BY <1>1, <1>2, <1>3, <1>4

-----------------------------------------------------------------------------
(* The fold of MapThenSumSet computes the total.                           *)

IsFold(f, S, it) == it = [s \in SUBSET S |-> SumStep(f, it, s)]

Totals(f, S) == [s \in SUBSET S |-> Total(f, s)]

LEMMA TotalIsAFold ==
  ASSUME NEW S, IsFiniteSet(S), NEW f \in [S -> Nat]
  PROVE  IsFold(f, S, Totals(f, S))
<1> DEFINE t == [s \in SUBSET S |-> Total(f, s)]
<1>1. ASSUME NEW s \in SUBSET S PROVE t[s] = SumStep(f, t, s)
  <2>1. CASE s = {}
    BY <2>1, TotalOfNone DEF SumStep
  <2>2. CASE s # {}
    <3> DEFINE x == CHOOSE x \in s : TRUE
    <3>1. x \in s
      BY <2>2
    <3>2. s \ {x} \in SUBSET S
      OBVIOUS
    <3> HIDE DEF x
    <3>3. Total(f, s) = f[x] + Total(f, s \ {x})
      BY <3>1, TotalWithout
    <3>4. t[s] = f[x] + t[s \ {x}]
      BY <3>2, <3>3
    <3>5. QED
      BY <2>2, <3>4 DEF SumStep, x
  <2>3. QED
    BY <2>1, <2>2
<1>2. QED
  BY <1>1 DEF IsFold, Totals

LEMMA FoldIsTotal ==
  ASSUME NEW S, IsFiniteSet(S), NEW f \in [S -> Nat],
         NEW it, IsFold(f, S, it)
  PROVE  it[S] = Total(f, S)
<1> DEFINE T == {s \in SUBSET S : it[s] # Total(f, s)}
<1>1. SUFFICES ASSUME T # {} PROVE FALSE
  OBVIOUS
<1>2. PICK s \in T : \A r \in T : r \subseteq s => r = s
  <2>1. T \in SUBSET (SUBSET S)
    OBVIOUS
  <2> HIDE DEF T
  <2>2. QED
    BY <1>1, <2>1, LeastSubset
<1>3. it[s] = SumStep(f, it, s)
  BY <1>2 DEF IsFold
<1>4. CASE s = {}
  BY <1>2, <1>3, <1>4, TotalOfNone DEF SumStep
<1>5. CASE s # {}
  <2> DEFINE x == CHOOSE x \in s : TRUE
  <2>1. x \in s
    BY <1>5
  <2>2. /\ s \ {x} \in SUBSET S /\ s \ {x} # s /\ s \in SUBSET S
        /\ s \ {x} \subseteq s
    BY <1>2, <2>1
  <2>3. it[s \ {x}] = Total(f, s \ {x})
    BY <1>2, <2>2
  <2>4. it[s] = f[x] + it[s \ {x}]
    BY <1>3, <1>5 DEF SumStep
  <2> HIDE DEF x
  <2>5. Total(f, s) = f[x] + Total(f, s \ {x})
    BY <2>1, <2>2, TotalWithout
  <2>6. QED
    BY <1>2, <2>3, <2>4, <2>5
<1>6. QED
  BY <1>4, <1>5

-----------------------------------------------------------------------------
(* The same values under other names have the same total.                  *)
LEMMA TotalOfRenamed ==
  ASSUME NEW S, IsFiniteSet(S), NEW f \in [S -> Nat], NEW T, NEW g,
         NEW h \in Bijection(S, T), \A x \in S : f[x] = g[h[x]]
  PROVE  Total(f, S) = Total(g, T)
<1> DEFINE b == [u \in Units(f, S) |-> <<h[u[1]], u[2]>>]
<1>1. /\ \A x \in S : h[x] \in T
      /\ \A x, y \in S : h[x] = h[y] => x = y
      /\ \A y \in T : \E x \in S : h[x] = y
  BY DEF Bijection, Injection, Surjection, IsInjective
<1>2. b \in [Units(f, S) -> Units(g, T)]
  <2>1. ASSUME NEW u \in Units(f, S) PROVE <<h[u[1]], u[2]>> \in Units(g, T)
    BY <1>1 DEF Units
  <2>2. QED
    BY <2>1
<1>3. ASSUME NEW u \in Units(f, S), NEW v \in Units(f, S), b[u] = b[v]
      PROVE  u = v
  <2>1. h[u[1]] = h[v[1]] /\ u[2] = v[2]
    BY <1>3
  <2>2. u \in S \X Nat /\ v \in S \X Nat
    BY DEF Units
  <2>3. QED
    BY <1>1, <2>1, <2>2
<1>4. ASSUME NEW v \in Units(g, T) PROVE \E u \in Units(f, S) : b[u] = v
  <2>1. v \in T \X Nat /\ v[2] < g[v[1]]
    BY DEF Units
  <2>2. PICK x \in S : h[x] = v[1]
    BY <1>1, <2>1
  <2>3. <<x, v[2]>> \in Units(f, S)
    BY <2>1, <2>2 DEF Units
  <2>4. b[<<x, v[2]>>] = v
    BY <2>1, <2>2, <2>3
  <2>5. QED
    BY <2>3, <2>4
<1> HIDE DEF b
<1>5. b \in Bijection(Units(f, S), Units(g, T))
  BY <1>2, <1>3, <1>4 DEF Bijection, Injection, Surjection, IsInjective
<1>6. ExistsBijection(Units(f, S), Units(g, T))
  BY <1>5 DEF ExistsBijection
<1>7. IsFiniteSet(Units(f, S))
  BY UnitsAreFinite
<1>8. QED
  BY <1>6, <1>7, FS_Bijection DEF Total

-----------------------------------------------------------------------------
(* Any fold over a finite set: ch gives the element to take from a set,    *)
(* and step the value from that of the set without it.                     *)

FoldsOn(s, base, step, ch, it) ==
  \A r \in SUBSET s :
    it[r] = IF r = {} THEN base ELSE step[<<r, it[r \ {ch[r]}]>>]

Fold(s, D, base, step, ch) ==
  CHOOSE it \in [SUBSET s -> D] : FoldsOn(s, base, step, ch, it)

LEMMA FoldsAgree ==
  ASSUME NEW S, IsFiniteSet(S), NEW s \in SUBSET S, NEW r \in SUBSET s,
         NEW base, NEW step, NEW ch, \A q \in SUBSET S : q # {} => ch[q] \in q,
         NEW f, FoldsOn(s, base, step, ch, f),
         NEW g, FoldsOn(r, base, step, ch, g)
  PROVE  f[r] = g[r]
<1> DEFINE T == {q \in SUBSET S : q \subseteq r /\ f[q] # g[q]}
<1>1. SUFFICES ASSUME T # {} PROVE FALSE
  OBVIOUS
<1>2. PICK q \in T : \A p \in T : p \subseteq q => p = q
  <2>1. T \in SUBSET (SUBSET S)
    OBVIOUS
  <2> HIDE DEF T
  <2>2. QED
    BY <1>1, <2>1, LeastSubset
<1>3. q \in SUBSET s /\ q \in SUBSET r /\ q \in SUBSET S /\ f[q] # g[q]
  BY <1>2
<1>4. /\ f[q] = IF q = {} THEN base ELSE step[<<q, f[q \ {ch[q]}]>>]
      /\ g[q] = IF q = {} THEN base ELSE step[<<q, g[q \ {ch[q]}]>>]
  BY <1>3 DEF FoldsOn
<1>5. q # {}
  BY <1>3, <1>4
<1>6. q \ {ch[q]} # q /\ q \ {ch[q]} \subseteq q
  BY <1>3, <1>5
<1>7. f[q \ {ch[q]}] = g[q \ {ch[q]}]
  BY <1>2, <1>3, <1>6
<1>8. QED
  BY <1>3, <1>4, <1>5, <1>7

LEMMA FoldExists ==
  ASSUME NEW S, IsFiniteSet(S), NEW D, NEW base \in D,
         NEW step \in [((SUBSET S) \ {{}}) \X D -> D],
         NEW ch, \A q \in SUBSET S : q # {} => ch[q] \in q
  PROVE  \E it \in [SUBSET S -> D] : FoldsOn(S, base, step, ch, it)
<1> DEFINE H(s) == Fold(s, D, base, step, ch)
           Has(s) == H(s) \in [SUBSET s -> D] /\ FoldsOn(s, base, step, ch, H(s))
           T == {s \in SUBSET S : ~Has(s)}
<1>1. SUFFICES ASSUME T # {} PROVE FALSE
  <2>1. S \in SUBSET S
    OBVIOUS
  <2>2. T = {} => Has(S)
    BY <2>1
  <2>3. QED
    BY <2>2
<1>2. PICK s \in T : \A p \in T : p \subseteq s => p = s
  <2>1. T \in SUBSET (SUBSET S)
    OBVIOUS
  <2> HIDE DEF T
  <2>2. QED
    BY <1>1, <2>1, LeastSubset
<1>3. s \in SUBSET S /\ ~Has(s)
  BY <1>2
<1>4. \A r \in SUBSET s : r # s => Has(r)
  BY <1>2
<1> HIDE DEF H, T
<1> DEFINE V == [r \in (SUBSET s) \ {s} |-> H(r)[r]]
           g == [r \in SUBSET s |->
                   IF r # s THEN V[r]
                   ELSE IF s = {} THEN base ELSE step[<<s, V[s \ {ch[s]}]>>]]
<1>5. \A r \in SUBSET s : r # s => V[r] \in D
  <2>1. ASSUME NEW r \in SUBSET s, r # s PROVE V[r] \in D
    <3>1. H(r) \in [SUBSET r -> D] /\ r \in SUBSET r
      BY <1>4, <2>1
    <3>2. H(r)[r] \in D
      BY <3>1
    <3>3. QED
      BY <2>1, <3>2
  <2>2. QED
    BY <2>1
<1>6. \A r \in SUBSET s : r # {} => /\ r \in (SUBSET S) \ {{}}
                                     /\ r \ {ch[r]} \in SUBSET s
                                     /\ r \ {ch[r]} # s /\ r \ {ch[r]} # r
                                     /\ r \ {ch[r]} \subseteq r
  BY <1>3
<1>7. \A r \in (SUBSET S) \ {{}}, v \in D : step[<<r, v>>] \in D
  OBVIOUS
<1>8. g \in [SUBSET s -> D]
  <2>1. ASSUME NEW r \in SUBSET s PROVE g[r] \in D
    <3>1. CASE r # s
      BY <1>5, <3>1
    <3>2. CASE r = s /\ s = {}
      BY <3>2
    <3>3. CASE r = s /\ s # {}
      <4>1. V[s \ {ch[s]}] \in D
        BY <1>5, <1>6, <3>3
      <4>2. step[<<s, V[s \ {ch[s]}]>>] \in D
        <5>1. s \in (SUBSET S) \ {{}}
          BY <1>3, <3>3
        <5> HIDE DEF V
        <5>2. QED
          BY <1>7, <4>1, <5>1
      <4>3. QED
        BY <3>3, <4>2
    <3>4. QED
      BY <3>1, <3>2, <3>3
  <2>2. QED
    BY <2>1
<1>9. FoldsOn(s, base, step, ch, g)
  <2>1. ASSUME NEW r \in SUBSET s
        PROVE  g[r] = IF r = {} THEN base ELSE step[<<r, g[r \ {ch[r]}]>>]
    <3>1. CASE r = s
      BY <1>6, <3>1
    <3>2. CASE r # s /\ r = {}
      <4>1. g[r] = H(r)[r]
        BY <3>2
      <4>2. H(r)[r] = base
        BY <1>4, <3>2 DEF FoldsOn
      <4>3. QED
        BY <3>2, <4>1, <4>2
    <3>3. CASE r # s /\ r # {}
      <4> DEFINE q == r \ {ch[r]}
      <4>1. q \in SUBSET s /\ q # s /\ q \in SUBSET r /\ r \in SUBSET S
        BY <1>3, <1>6, <3>3
      <4>2. g[r] = H(r)[r] /\ g[q] = H(q)[q]
        BY <3>3, <4>1
      <4>3. FoldsOn(r, base, step, ch, H(r)) /\ FoldsOn(q, base, step, ch, H(q))
        BY <1>4, <3>3, <4>1
      <4>4. H(r)[q] = H(q)[q]
        BY <4>1, <4>3, FoldsAgree
      <4>5. H(r)[r] = step[<<r, H(r)[q]>>]
        BY <3>3, <4>3 DEF FoldsOn
      <4>6. QED
        BY <3>3, <4>2, <4>4, <4>5
    <3>4. QED
      BY <3>1, <3>2, <3>3
  <2>2. QED
    BY <2>1 DEF FoldsOn
<1>10. \E it \in [SUBSET s -> D] : FoldsOn(s, base, step, ch, it)
  BY <1>8, <1>9
<1>11. Has(s)
  BY <1>10 DEF H, Fold
<1>12. QED
  BY <1>3, <1>11
=============================================================================
