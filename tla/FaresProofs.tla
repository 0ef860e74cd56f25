------------------------------- MODULE FaresProofs -------------------------------
(***************************************************************************)
(* Sums and fares.  The totals of the code are sums over sets of rows, folds *)
(* in the model, so the first part shows what a fold computes.  The          *)
(* induction is over the subsets of a finite set: of those that violate a    *)
(* statement there would be a least one (LeastSubset), and that one does not *)
(* violate it.  The second part shows that the fare of a party grows with    *)
(* the distance.                                                             *)
(***************************************************************************)
EXTENDS Fares, FiniteSetTheorems, SequenceTheorems, TLAPS

-------------------------------------------------------------------------------
(* What a sum over a set is                                                  *)

SumOf(a, S) == MapThenSumSet(LAMBDA r : a[r], S)

\* The function the fold is computed with, and where it begins.
First(s) == CHOOSE x \in s : TRUE
Partial(a, S, g) ==
  g = [s \in SUBSET S |-> IF s = {} THEN 0 ELSE a[First(s)] + g[s \ {First(s)}]]
Table(a, S) == CHOOSE g : Partial(a, S, g)

LEMMA SumIsTabled ==
  ASSUME NEW a, NEW S
  PROVE  SumOf(a, S) = Table(a, S)[S]
BY DEF SumOf, MapThenSumSet, MapThenFoldSet, Table, Partial, First

\* Induction on subsets: a family of finite subsets that is not empty has a least one.
LEMMA LeastSubset ==
  ASSUME NEW S, IsFiniteSet(S), NEW F, F \subseteq SUBSET S, F # {}
  PROVE  \E s \in F : \A t \in F : t \subseteq s => t = s
<1>1. IsWellFoundedOn(StrictSubsetOrdering(S), SUBSET S)
  BY FS_StrictSubsetOrderingWellFounded, FS_FiniteSubsetsOfFinite
<1>2. \E s \in F : \A t \in F : <<t, s>> \notin StrictSubsetOrdering(S)
  BY <1>1, WFMin
<1>3. \A s, t \in F : t \subseteq s /\ t # s => <<t, s>> \in StrictSubsetOrdering(S)
  BY DEF StrictSubsetOrdering
<1> QED
  BY <1>2, <1>3

LEMMA TablesAgree ==
  ASSUME NEW a, NEW S, IsFiniteSet(S), NEW U, NEW g, NEW h,
         Partial(a, S, g), Partial(a, U, h)
  PROVE  \A s \in SUBSET S : s \in SUBSET U => g[s] = h[s]
<1> DEFINE F == {s \in SUBSET S : s \in SUBSET U /\ g[s] # h[s]}
<1>1. SUFFICES ASSUME F # {} PROVE FALSE
  OBVIOUS
<1>2. PICK s \in F : \A t \in F : t \subseteq s => t = s
  <2>1. F \subseteq SUBSET S
    OBVIOUS
  <2> HIDE DEF F
  <2> QED
    BY <1>1, <2>1, LeastSubset
<1>3. s # {}
  BY DEF Partial
<1> DEFINE x == First(s)
<1>4. x \in s
  BY <1>3 DEF First
<1>5. s \ {x} \notin F
  BY <1>2, <1>4
<1>6. g[s \ {x}] = h[s \ {x}]
  BY <1>5
<1>7. g[s] = a[x] + g[s \ {x}] /\ h[s] = a[x] + h[s \ {x}]
  <2> s \in SUBSET S /\ s \in SUBSET U
    OBVIOUS
  <2> QED BY <1>3 DEF Partial
<1> QED
  BY <1>6, <1>7

LEMMA TableExists ==
  ASSUME NEW a, NEW S, IsFiniteSet(S)
  PROVE  Partial(a, S, Table(a, S))
<1> DEFINE F == {s \in SUBSET S : ~ Partial(a, s, Table(a, s))}
<1>1. SUFFICES ASSUME F # {} PROVE FALSE
  OBVIOUS
<1>2. PICK U \in F : \A t \in F : t \subseteq U => t = U
  <2>1. F \subseteq SUBSET S
    OBVIOUS
  <2> HIDE DEF F
  <2> QED
    BY <1>1, <2>1, LeastSubset
<1>3. \A t \in SUBSET U : t # U => Partial(a, t, Table(a, t))
  BY <1>2
<1> DEFINE h == [s \in SUBSET U |->
                   IF s = {} THEN 0
                   ELSE a[First(s)] + Table(a, s \ {First(s)})[s \ {First(s)}]]
<1>4. ASSUME NEW t \in SUBSET U, t # U
      PROVE  h[t] = Table(a, t)[t]
  <2>1. CASE t = {}
    BY <1>3, <1>4, <2>1 DEF Partial
  <2>2. CASE t # {}
    <3> DEFINE x == First(t)
    <3>1. x \in t
      BY <2>2 DEF First
    <3>2. Table(a, t)[t] = a[x] + Table(a, t)[t \ {x}]
      <4> t \in SUBSET t
        OBVIOUS
      <4> QED
        BY <1>3, <1>4, <2>2 DEF Partial
    <3>3. IsFiniteSet(t)
      BY <1>2, FS_Subset
    <3>4. Partial(a, t, Table(a, t)) /\ Partial(a, t \ {x}, Table(a, t \ {x}))
      BY <1>3, <1>4, <3>1
    <3>5. Table(a, t)[t \ {x}] = Table(a, t \ {x})[t \ {x}]
      <4> t \ {x} \in SUBSET t /\ t \ {x} \in SUBSET (t \ {x})
        OBVIOUS
      <4> HIDE DEF x
      <4> QED
        BY <3>3, <3>4, TablesAgree
    <3> QED
      BY <2>2, <3>2, <3>5
  <2> QED
    BY <2>1, <2>2
<1>5. Partial(a, U, h)
  <2>1. ASSUME NEW s \in SUBSET U, s # {}
        PROVE  Table(a, s \ {First(s)})[s \ {First(s)}] = h[s \ {First(s)}]
    <3>1. First(s) \in s
      BY <2>1 DEF First
    <3>2. s \ {First(s)} \in SUBSET U /\ s \ {First(s)} # U
      BY <3>1
    <3> HIDE DEF h
    <3> QED
      BY <1>4, <3>2
  <2>2. \A s \in SUBSET U :
          h[s] = IF s = {} THEN 0 ELSE a[First(s)] + h[s \ {First(s)}]
    BY <2>1
  <2>3. h = [s \in SUBSET U |-> h[s]]
    OBVIOUS
  <2> HIDE DEF h
  <2> QED
    BY <2>2, <2>3 DEF Partial
<1>6. Partial(a, U, Table(a, U))
  <2> HIDE DEF h
  <2> QED
    BY <1>5 DEF Table
<1> QED
  BY <1>2, <1>6

\* A sum is taken element by element, beginning where CHOOSE begins.
LEMMA SumUnfolds ==
  ASSUME NEW a, NEW S, IsFiniteSet(S)
  PROVE  /\ S = {} => SumOf(a, S) = 0
         /\ S # {} => /\ First(S) \in S
                      /\ SumOf(a, S) = a[First(S)] + SumOf(a, S \ {First(S)})
<1>1. Partial(a, S, Table(a, S))
  BY TableExists
<1>2. S \in SUBSET S
  OBVIOUS
<1>3. CASE S = {}
  BY <1>1, <1>2, <1>3, SumIsTabled DEF Partial
<1>4. CASE S # {}
  <2> DEFINE x == First(S)
  <2>1. x \in S
    BY <1>4 DEF First
  <2>2. Table(a, S)[S] = a[x] + Table(a, S)[S \ {x}]
    BY <1>1, <1>2, <1>4 DEF Partial
  <2>3. Table(a, S)[S \ {x}] = Table(a, S \ {x})[S \ {x}]
    <3> HIDE DEF x
    <3>1. IsFiniteSet(S \ {x})
      BY FS_RemoveElement
    <3>2. Partial(a, S \ {x}, Table(a, S \ {x}))
      BY <3>1, TableExists
    <3>3. S \ {x} \in SUBSET S /\ S \ {x} \in SUBSET (S \ {x})
      OBVIOUS
    <3> QED
      BY <1>1, <3>2, <3>3, TablesAgree
  <2>4. SumOf(a, S) = a[x] + SumOf(a, S \ {x})
    <3> HIDE DEF x
    <3> QED
      BY <2>2, <2>3, SumIsTabled
  <2> QED
    BY <1>4, <2>1, <2>4
<1> QED
  BY <1>3, <1>4

LEMMA SumIsNatural ==
  ASSUME NEW R, IsFiniteSet(R), NEW a \in [R -> Nat]
  PROVE  \A S \in SUBSET R : SumOf(a, S) \in Nat
<1> DEFINE F == {s \in SUBSET R : SumOf(a, s) \notin Nat}
<1>1. SUFFICES ASSUME F # {} PROVE FALSE
  OBVIOUS
<1>2. PICK S \in F : \A t \in F : t \subseteq S => t = S
  <2>1. F \subseteq SUBSET R
    OBVIOUS
  <2> HIDE DEF F
  <2> QED
    BY <1>1, <2>1, LeastSubset
<1>3. IsFiniteSet(S)
  BY <1>2, FS_Subset
<1>4. S # {}
  <2>1. SumOf(a, S) \notin Nat
    BY <1>2
  <2> HIDE DEF F
  <2>2. S = {} => SumOf(a, S) = 0
    BY <1>3, SumUnfolds
  <2> QED
    BY <2>1, <2>2
<1> DEFINE x == First(S)
<1>5. x \in S /\ SumOf(a, S) = a[x] + SumOf(a, S \ {x})
  BY <1>3, <1>4, SumUnfolds
<1>6. SumOf(a, S \ {x}) \in Nat
  BY <1>2, <1>5
<1> QED
  BY <1>2, <1>5, <1>6

\* ... and may begin with any of them.
LEMMA SumRemoves ==
  ASSUME NEW R, IsFiniteSet(R), NEW a \in [R -> Nat]
  PROVE  \A S \in SUBSET R : \A x \in S : SumOf(a, S) = a[x] + SumOf(a, S \ {x})
<1> DEFINE F == {s \in SUBSET R : \E x \in s : SumOf(a, s) # a[x] + SumOf(a, s \ {x})}
<1>1. SUFFICES ASSUME F # {} PROVE FALSE
  OBVIOUS
<1>2. PICK S \in F : \A t \in F : t \subseteq S => t = S
  <2>1. F \subseteq SUBSET R
    OBVIOUS
  <2> HIDE DEF F
  <2> QED
    BY <1>1, <2>1, LeastSubset
<1>3. PICK x \in S : SumOf(a, S) # a[x] + SumOf(a, S \ {x})
  BY <1>2
<1>4. PICK y \in S : SumOf(a, S) = a[y] + SumOf(a, S \ {y})
  <2>1. IsFiniteSet(S)
    BY <1>2, FS_Subset
  <2> QED
    BY <1>3, <2>1, SumUnfolds
<1>5. x # y
  BY <1>3, <1>4
<1> DEFINE both == S \ {x, y}
<1>6. SumOf(a, S \ {y}) = a[x] + SumOf(a, both)
  <2>1. S \ {y} \in SUBSET R /\ S \ {y} \notin F /\ x \in S \ {y}
    BY <1>2, <1>4, <1>5
  <2>2. (S \ {y}) \ {x} = both
    OBVIOUS
  <2> HIDE DEF both
  <2> QED
    BY <2>1, <2>2
<1>7. SumOf(a, S \ {x}) = a[y] + SumOf(a, both)
  <2>1. S \ {x} \in SUBSET R /\ S \ {x} \notin F /\ y \in S \ {x}
    BY <1>2, <1>3, <1>5
  <2>2. (S \ {x}) \ {y} = both
    OBVIOUS
  <2> HIDE DEF both
  <2> QED
    BY <2>1, <2>2
<1>8. SumOf(a, both) \in Nat /\ a[x] \in Nat /\ a[y] \in Nat
  BY <1>2, SumIsNatural
<1> HIDE DEF both, F
<1>9. a[x] + (a[y] + SumOf(a, both)) = a[y] + (a[x] + SumOf(a, both))
  BY <1>8
<1> QED
  BY <1>3, <1>4, <1>6, <1>7, <1>9

\* More elements, no smaller a sum.
LEMMA SumGrows ==
  ASSUME NEW R, IsFiniteSet(R), NEW a \in [R -> Nat], NEW S \in SUBSET R
  PROVE  \A U \in SUBSET R : S \subseteq U => SumOf(a, S) <= SumOf(a, U)
<1> DEFINE F == {s \in SUBSET R : S \subseteq s /\ ~ SumOf(a, S) <= SumOf(a, s)}
<1>1. SUFFICES ASSUME F # {} PROVE FALSE
  OBVIOUS
<1>2. PICK U \in F : \A t \in F : t \subseteq U => t = U
  <2>1. F \subseteq SUBSET R
    OBVIOUS
  <2> HIDE DEF F
  <2> QED
    BY <1>1, <2>1, LeastSubset
<1>3. U # S
  BY <1>2, SumIsNatural
<1>4. PICK x \in U : x \notin S
  BY <1>2, <1>3
<1>5. SumOf(a, S) <= SumOf(a, U \ {x})
  <2> U \ {x} \in SUBSET R /\ U \ {x} # U /\ S \subseteq U \ {x}
    BY <1>2, <1>4
  <2> QED
    BY <1>2
<1>6. SumOf(a, U) = a[x] + SumOf(a, U \ {x})
  BY <1>2, SumRemoves
<1>7. SumOf(a, S) \in Nat /\ SumOf(a, U \ {x}) \in Nat /\ a[x] \in Nat
  <2> U \ {x} \in SUBSET R /\ x \in R
    BY <1>2, <1>4
  <2> QED
    BY SumIsNatural
<1>8. SumOf(a, S) <= a[x] + SumOf(a, U \ {x})
  BY <1>5, <1>7
<1> QED
  BY <1>2, <1>6, <1>8

\* A sum depends on what is summed and on nothing else.
LEMMA SumDependsOnItsTerms ==
  ASSUME NEW R, IsFiniteSet(R), NEW a, NEW b
  PROVE  \A S \in SUBSET R : (\A x \in S : a[x] = b[x]) => SumOf(a, S) = SumOf(b, S)
<1> DEFINE F == {s \in SUBSET R : (\A x \in s : a[x] = b[x]) /\ SumOf(a, s) # SumOf(b, s)}
<1>1. SUFFICES ASSUME F # {} PROVE FALSE
  OBVIOUS
<1>2. PICK S \in F : \A t \in F : t \subseteq S => t = S
  <2>1. F \subseteq SUBSET R
    OBVIOUS
  <2> HIDE DEF F
  <2> QED
    BY <1>1, <2>1, LeastSubset
<1>3. IsFiniteSet(S)
  BY <1>2, FS_Subset
<1>4. S # {}
  BY <1>2, <1>3, SumUnfolds
<1>5. /\ First(S) \in S
      /\ SumOf(a, S) = a[First(S)] + SumOf(a, S \ {First(S)})
      /\ SumOf(b, S) = b[First(S)] + SumOf(b, S \ {First(S)})
  BY <1>3, <1>4, SumUnfolds
<1>6. SumOf(a, S \ {First(S)}) = SumOf(b, S \ {First(S)})
  BY <1>2, <1>5
<1> QED
  BY <1>2, <1>5, <1>6

\* What is no smaller element by element is no smaller a sum.
LEMMA SumsCompare ==
  ASSUME NEW R, IsFiniteSet(R), NEW a \in [R -> Nat], NEW b \in [R -> Nat],
         \A x \in R : a[x] <= b[x]
  PROVE  \A S \in SUBSET R : SumOf(a, S) <= SumOf(b, S)
<1> DEFINE F == {s \in SUBSET R : ~ SumOf(a, s) <= SumOf(b, s)}
<1>1. SUFFICES ASSUME F # {} PROVE FALSE
  OBVIOUS
<1>2. PICK S \in F : \A t \in F : t \subseteq S => t = S
  <2>1. F \subseteq SUBSET R
    OBVIOUS
  <2> HIDE DEF F
  <2> QED
    BY <1>1, <2>1, LeastSubset
<1>3. IsFiniteSet(S)
  BY <1>2, FS_Subset
<1>4. S # {}
  <2>1. ~ SumOf(a, S) <= SumOf(b, S)
    BY <1>2
  <2> HIDE DEF F
  <2>2. S = {} => SumOf(a, S) = 0 /\ SumOf(b, S) = 0
    BY <1>3, SumUnfolds
  <2> QED
    BY <2>1, <2>2
<1> DEFINE x == First(S)
<1>5. /\ x \in S
      /\ SumOf(a, S) = a[x] + SumOf(a, S \ {x}) /\ SumOf(b, S) = b[x] + SumOf(b, S \ {x})
  BY <1>3, <1>4, SumUnfolds
<1>6. SumOf(a, S \ {x}) <= SumOf(b, S \ {x})
  BY <1>2, <1>5
<1>7. SumOf(a, S \ {x}) \in Nat /\ SumOf(b, S \ {x}) \in Nat
  <2>1. S \ {x} \in SUBSET R
    BY <1>2
  <2> HIDE DEF F, x
  <2> QED
    BY <2>1, SumIsNatural
<1>8. a[x] \in Nat /\ b[x] \in Nat /\ a[x] <= b[x]
  BY <1>2, <1>5
<1> QED
  BY <1>2, <1>5, <1>6, <1>7, <1>8

\* The elements of a set, counted by what they are filed under.
LEMMA PartsAddUp ==
  ASSUME NEW Q, IsFiniteSet(Q), NEW k, NEW R, IsFiniteSet(R), NEW a \in [R -> Nat],
         \A c \in R : a[c] = Cardinality({q \in Q : k[q] = c})
  PROVE  \A S \in SUBSET R : SumOf(a, S) = Cardinality({q \in Q : k[q] \in S})
<1> DEFINE F == {s \in SUBSET R : SumOf(a, s) # Cardinality({q \in Q : k[q] \in s})}
<1>1. SUFFICES ASSUME F # {} PROVE FALSE
  OBVIOUS
<1>2. PICK S \in F : \A t \in F : t \subseteq S => t = S
  <2>1. F \subseteq SUBSET R
    OBVIOUS
  <2> HIDE DEF F
  <2> QED
    BY <1>1, <2>1, LeastSubset
<1>3. IsFiniteSet(S)
  BY <1>2, FS_Subset
<1>4. S # {}
  <2>1. ASSUME S = {} PROVE FALSE
    <3>1. {q \in Q : k[q] \in S} = {}
      BY <2>1
    <3>2. SumOf(a, S) = 0
      BY <1>3, <2>1, SumUnfolds
    <3> QED
      BY <1>2, <3>1, <3>2, FS_EmptySet
  <2> QED
    BY <2>1
<1> DEFINE x == First(S)
           one == {q \in Q : k[q] = x}
           rest == {q \in Q : k[q] \in S \ {x}}
<1>5. x \in S /\ SumOf(a, S) = a[x] + SumOf(a, S \ {x})
  BY <1>3, <1>4, SumUnfolds
<1>6. SumOf(a, S \ {x}) = Cardinality(rest)
  BY <1>2, <1>5
<1>7. a[x] = Cardinality(one)
  BY <1>2, <1>5
<1>8. one \union rest = {q \in Q : k[q] \in S} /\ one \intersect rest = {}
  BY <1>5
<1>9. IsFiniteSet(one) /\ IsFiniteSet(rest)
  BY FS_Subset
<1>10. SumOf(a, S) # Cardinality(one \union rest)
  BY <1>2, <1>8
<1> HIDE DEF one, rest, F
<1>11. Cardinality(one \union rest) = Cardinality(one) + Cardinality(rest)
  <2>1. Cardinality(one \union rest) = Cardinality(one) + Cardinality(rest) - Cardinality({})
    BY <1>8, <1>9, FS_Union
  <2> QED
    BY <1>9, <2>1, FS_EmptySet, FS_CardinalityType
<1> QED
  BY <1>5, <1>6, <1>7, <1>10, <1>11

\* A finite set has a subset of each smaller size.
LEMMA SubsetsOfEachSize ==
  ASSUME NEW Q, IsFiniteSet(Q), NEW n \in Nat, Cardinality(Q) >= n
  PROVE  \E s \in SUBSET Q : Cardinality(s) = n
<1> DEFINE F == {s \in SUBSET Q : Cardinality(s) >= n}
<1>1. PICK s \in F : \A t \in F : t \subseteq s => t = s
  <2>1. F \subseteq SUBSET Q /\ F # {}
    OBVIOUS
  <2> HIDE DEF F
  <2> QED
    BY <2>1, LeastSubset
<1>2. IsFiniteSet(s) /\ Cardinality(s) \in Nat
  BY <1>1, FS_Subset, FS_CardinalityType
<1>3. ASSUME Cardinality(s) > n PROVE FALSE
  <2>1. s # {}
    BY <1>2, <1>3, FS_EmptySet
  <2>2. PICK x \in s : TRUE
    BY <2>1
  <2>3. Cardinality(s \ {x}) = Cardinality(s) - 1
    BY <1>2, <2>2, FS_RemoveElement
  <2>4. s \ {x} \in F
    BY <1>1, <1>2, <1>3, <2>3
  <2> QED
    BY <1>1, <2>2, <2>4
<1> QED
  BY <1>1, <1>2, <1>3

-------------------------------------------------------------------------------
(* Fares                                                                     *)

LEMMA ProductsGrow ==
  ASSUME NEW m \in Nat, NEW n \in Nat, NEW p \in Nat, m <= n
  PROVE  m * p \in Nat /\ n * p \in Nat /\ m * p <= n * p
OBVIOUS

\* roundCurrency keeps the order of what is rounded.
LEMMA RoundingGrows ==
  ASSUME NEW m \in Nat, NEW n \in Nat, m <= n
  PROVE  /\ RoundHalfUp(m, 1000) \in Nat /\ RoundHalfUp(n, 1000) \in Nat
         /\ RoundHalfUp(m, 1000) <= RoundHalfUp(n, 1000)
         /\ RoundHalfUp(m, 10000) \in Nat /\ RoundHalfUp(n, 10000) \in Nat
         /\ RoundHalfUp(m, 10000) <= RoundHalfUp(n, 10000)
BY DEF RoundHalfUp

LEMMA PercentageGrows ==
  ASSUME NEW m \in Nat, NEW n \in Nat, NEW rate \in Nat, m <= n
  PROVE  /\ Percentage(m, rate) \in Nat /\ Percentage(n, rate) \in Nat
         /\ Percentage(m, rate) <= Percentage(n, rate)
<1>1. m * rate \in Nat /\ n * rate \in Nat /\ m * rate <= n * rate
  BY ProductsGrow
<1> DEFINE x == m * rate
           y == n * rate
<1>2. x \in Nat /\ y \in Nat /\ x <= y
  BY <1>1
<1>3. Percentage(m, rate) = RoundHalfUp(x, 10000) /\ Percentage(n, rate) = RoundHalfUp(y, 10000)
  BY DEF Percentage
<1> HIDE DEF x, y
<1> QED
  BY <1>2, <1>3, RoundingGrows

LEMMA DiscountsRated ==
  ASSUME NEW type
  PROVE  DiscountRate(type) \in Nat /\ DiscountRate(type) <= 10000
<1>1. \A t \in DOMAIN Discounts : Discounts[t] \in Nat /\ Discounts[t] <= 10000
  BY FareAssumption
<1>2. CASE type \in DOMAIN Discounts
  <2>1. DiscountRate(type) = Discounts[type]
    BY <1>2 DEF DiscountRate
  <2> QED
    BY <1>1, <1>2, <2>1
<1>3. CASE type \notin DOMAIN Discounts
  BY <1>3 DEF DiscountRate
<1> QED
  BY <1>2, <1>3

Discounted(fare, rate) == fare - Percentage(fare, rate)

\* A discount takes no more from a higher fare than the fare is higher.
LEMMA DiscountsKeepOrder ==
  ASSUME NEW m \in Nat, NEW n \in Nat, NEW rate \in Nat, rate <= 10000, m <= n
  PROVE  /\ Discounted(m, rate) \in Nat /\ Discounted(n, rate) \in Nat
         /\ Discounted(m, rate) <= Discounted(n, rate)
<1> DEFINE more == n - m
           x == m * rate
           y == more * rate
<1>1. more \in Nat /\ n = m + more
  OBVIOUS
<1>2. \A k \in Nat : k * rate \in Nat /\ k * rate <= 10000 * k
  OBVIOUS
<1>3. x \in Nat /\ x <= 10000 * m /\ y \in Nat /\ y <= 10000 * more
  <2> HIDE DEF more
  <2> QED
    BY <1>1, <1>2
<1>4. n * rate = x + y
  BY <1>1
<1>5. Percentage(m, rate) = (2 * x + 10000) \div 20000
  BY DEF Percentage, RoundHalfUp
<1>6. Percentage(n, rate) = (2 * (x + y) + 10000) \div 20000
  BY <1>4 DEF Percentage, RoundHalfUp
<1> HIDE DEF x, y, more
<1>7. (2 * x + 10000) \div 20000 \in Nat /\ (2 * x + 10000) \div 20000 <= m
  BY <1>3
<1>8. (2 * (x + y) + 10000) \div 20000 <= (2 * x + 10000) \div 20000 + more
  BY <1>1, <1>3
<1>9. (2 * (x + y) + 10000) \div 20000 \in Nat
  BY <1>3
<1> QED
  BY <1>1, <1>5, <1>6, <1>7, <1>8, <1>9 DEF Discounted

LEMMA PassengerFaresGrow ==
  ASSUME NEW m \in Nat, NEW n \in Nat, m <= n, NEW kind
  PROVE  /\ PassengerFare(m, kind).fareAfterDiscount \in Nat
         /\ PassengerFare(n, kind).fareAfterDiscount \in Nat
         /\ PassengerFare(m, kind).fareAfterDiscount <= PassengerFare(n, kind).fareAfterDiscount
<1> DEFINE rate == DiscountRate(kind)
<1>1. rate \in Nat /\ rate <= 10000
  BY DiscountsRated
<1>2. /\ PassengerFare(m, kind).fareAfterDiscount = Discounted(m, rate)
      /\ PassengerFare(n, kind).fareAfterDiscount = Discounted(n, rate)
  BY DEF PassengerFare, DiscountAmount, Discounted
<1> HIDE DEF rate
<1>3. /\ Discounted(m, rate) \in Nat /\ Discounted(n, rate) \in Nat
      /\ Discounted(m, rate) <= Discounted(n, rate)
  BY <1>1, DiscountsKeepOrder
<1> QED
  BY <1>2, <1>3

EffectiveRule == [baseFare : Nat, pricePerKm : Nat, minimumFare : Nat, multiplier : Nat]

LEMMA RulesPriced ==
  ASSUME NEW rule \in FareRules, NEW class
  PROVE  CoachFareRule(rule, class) \in EffectiveRule
<1> DEFINE found == {c \in ClassRules : c.fareRule = rule.name /\ c.coachClass = class}
           override(own, given) == IF given = NoValue THEN own ELSE given
           classRule == CHOOSE c \in found : TRUE
<1>1. rule.baseFare \in Nat /\ rule.pricePerKm \in Nat /\ rule.minimumFare \in Nat
  BY FareAssumption
<1>2. CASE found = {}
  <2>1. CoachFareRule(rule, class) =
          [baseFare |-> rule.baseFare, pricePerKm |-> rule.pricePerKm,
           minimumFare |-> rule.minimumFare, multiplier |-> 1000]
    BY <1>2 DEF CoachFareRule
  <2> QED
    BY <1>1, <2>1 DEF EffectiveRule
<1>3. CASE found # {}
  <2>1. classRule \in ClassRules
    BY <1>3
  <2>2. /\ classRule.baseFareOverride \in Nat \union {NoValue}
        /\ classRule.pricePerKmOverride \in Nat \union {NoValue}
        /\ classRule.minimumFareOverride \in Nat \union {NoValue}
        /\ classRule.multiplier \in Nat
    <3> HIDE DEF classRule
    <3> QED
      BY <2>1, FareAssumption
  <2>3. CoachFareRule(rule, class) =
          [baseFare |-> override(rule.baseFare, classRule.baseFareOverride),
           pricePerKm |-> override(rule.pricePerKm, classRule.pricePerKmOverride),
           minimumFare |-> override(rule.minimumFare, classRule.minimumFareOverride),
           multiplier |-> classRule.multiplier]
    BY <1>3 DEF CoachFareRule
  <2> HIDE DEF classRule
  <2> QED
    BY <1>1, <2>2, <2>3 DEF EffectiveRule
<1> QED
  BY <1>2, <1>3

LEMMA HigherOfTwo ==
  ASSUME NEW m \in Nat, NEW n \in Nat
  PROVE  Max({m, n}) = IF m >= n THEN m ELSE n
<1> DEFINE high == IF m >= n THEN m ELSE n
<1>1. high \in {m, n} /\ \A k \in {m, n} : high >= k
  OBVIOUS
<1>2. \A k \in {m, n} : (\A l \in {m, n} : k >= l) => k = high
  OBVIOUS
<1> HIDE DEF high
<1>3. Max({m, n}) = high
  BY <1>1, <1>2 DEF Max
<1> QED
  BY <1>3 DEF high

LEMMA SegmentFaresGrow ==
  ASSUME NEW effective \in EffectiveRule, NEW d \in Nat, NEW e \in Nat, d <= e
  PROVE  /\ SegmentFare(d, effective) \in Nat /\ SegmentFare(e, effective) \in Nat
         /\ SegmentFare(d, effective) <= SegmentFare(e, effective)
<1>1. /\ effective.baseFare \in Nat /\ effective.pricePerKm \in Nat
      /\ effective.minimumFare \in Nat /\ effective.multiplier \in Nat
  BY DEF EffectiveRule
<1>2. /\ DistanceCharge(d, effective.pricePerKm) \in Nat /\ DistanceCharge(e, effective.pricePerKm) \in Nat
      /\ DistanceCharge(d, effective.pricePerKm) <= DistanceCharge(e, effective.pricePerKm)
  <2>1. /\ d * effective.pricePerKm \in Nat /\ e * effective.pricePerKm \in Nat
        /\ d * effective.pricePerKm <= e * effective.pricePerKm
    BY <1>1, ProductsGrow
  <2> QED
    BY <2>1, RoundingGrows DEF DistanceCharge
<1>3. /\ FareBeforeMultiplier(d, effective) \in Nat /\ FareBeforeMultiplier(e, effective) \in Nat
      /\ FareBeforeMultiplier(d, effective) <= FareBeforeMultiplier(e, effective)
  BY <1>1, <1>2 DEF FareBeforeMultiplier
<1>4. /\ FareAfterMultiplier(d, effective) \in Nat /\ FareAfterMultiplier(e, effective) \in Nat
      /\ FareAfterMultiplier(d, effective) <= FareAfterMultiplier(e, effective)
  <2>1. /\ FareBeforeMultiplier(d, effective) * effective.multiplier \in Nat
        /\ FareBeforeMultiplier(e, effective) * effective.multiplier \in Nat
        /\ FareBeforeMultiplier(d, effective) * effective.multiplier
             <= FareBeforeMultiplier(e, effective) * effective.multiplier
    BY <1>1, <1>3, ProductsGrow
  <2> QED
    BY <2>1, RoundingGrows DEF FareAfterMultiplier
<1> QED
  BY <1>1, <1>4, HigherOfTwo DEF SegmentFare

\* Of the same party by the same rule, the longer ride never costs less: neither the
\* rounding after each step of calculateBookingFare nor the minimum fare, a discount,
\* the service fee or the tax turns the order of two distances round.
THEOREM FaresGrowWithDistance ==
  ASSUME NEW rule \in FareRules, NEW class, NEW T, NEW types \in Seq(T),
         NEW d \in Nat, NEW e \in Nat, d <= e
  PROVE  BookingFare(rule, class, d, types).finalTotal
           <= BookingFare(rule, class, e, types).finalTotal
<1> DEFINE fare(dist) == SegmentFare(dist, CoachFareRule(rule, class))
           after(dist) == [i \in DOMAIN types |-> PassengerFare(fare(dist), types[i]).fareAfterDiscount]
           subtotal(dist) == SumOf(after(dist), DOMAIN types)
           fee(dist) == ServiceFee(subtotal(dist), Len(types), FarePolicy.serviceFee)
           taxable(dist) == IF FarePolicy.tax.includesServiceFee THEN subtotal(dist) + fee(dist)
                            ELSE subtotal(dist)
           tax(dist) == Tax(taxable(dist), FarePolicy.tax)
<1>1. \A dist : BookingFare(rule, class, dist, types).finalTotal = subtotal(dist) + fee(dist) + tax(dist)
  <2> SUFFICES ASSUME NEW dist
               PROVE  BookingFare(rule, class, dist, types).finalTotal = subtotal(dist) + fee(dist) + tax(dist)
    OBVIOUS
  <2> DEFINE passengers == [i \in DOMAIN types |-> PassengerFare(fare(dist), types[i])]
  <2>1. [i \in DOMAIN passengers |-> passengers[i].fareAfterDiscount] = after(dist)
    OBVIOUS
  <2>2. SumOver(after(dist)) = subtotal(dist)
    <3>1. DOMAIN after(dist) = DOMAIN types
      OBVIOUS
    <3> HIDE DEF after
    <3> QED
      BY <3>1 DEF SumOver, SumOf
  <2>3. SumOver([i \in DOMAIN passengers |-> passengers[i].fareAfterDiscount]) = subtotal(dist)
    <3> HIDE DEF passengers, after, subtotal
    <3> QED
      BY <2>1, <2>2
  <2> QED
    BY <2>3 DEF BookingFare
<1>2. fare(d) \in Nat /\ fare(e) \in Nat /\ fare(d) <= fare(e)
  BY RulesPriced, SegmentFaresGrow
<1>3. \A i \in DOMAIN types :
        /\ after(d)[i] \in Nat /\ after(e)[i] \in Nat /\ after(d)[i] <= after(e)[i]
  <2> SUFFICES ASSUME NEW i \in DOMAIN types
               PROVE  after(d)[i] \in Nat /\ after(e)[i] \in Nat /\ after(d)[i] <= after(e)[i]
    OBVIOUS
  <2>1. \A dist : after(dist)[i] = PassengerFare(fare(dist), types[i]).fareAfterDiscount
    OBVIOUS
  <2> HIDE DEF after, fare
  <2> QED
    BY <1>2, <2>1, PassengerFaresGrow
<1>4. subtotal(d) \in Nat /\ subtotal(e) \in Nat /\ subtotal(d) <= subtotal(e)
  <2>1. IsFiniteSet(DOMAIN types) /\ DOMAIN types \in SUBSET DOMAIN types
    <3>1. DOMAIN types = 1 .. Len(types) /\ Len(types) \in Int
      OBVIOUS
    <3> QED
      BY <3>1, FS_Interval
  <2>2. \A dist : after(dist) = [i \in DOMAIN types |-> after(dist)[i]]
    OBVIOUS
  <2> HIDE DEF after
  <2>3. after(d) \in [DOMAIN types -> Nat] /\ after(e) \in [DOMAIN types -> Nat]
    BY <1>3, <2>2
  <2>4. \A i \in DOMAIN types : after(d)[i] <= after(e)[i]
    BY <1>3
  <2>5. SumOf(after(d), DOMAIN types) \in Nat /\ SumOf(after(e), DOMAIN types) \in Nat
    BY <2>1, <2>3, SumIsNatural
  <2>6. SumOf(after(d), DOMAIN types) <= SumOf(after(e), DOMAIN types)
    BY <2>1, <2>3, <2>4, SumsCompare
  <2> QED
    BY <2>5, <2>6
<1> HIDE DEF subtotal
<1>5. fee(d) \in Nat /\ fee(e) \in Nat /\ fee(d) <= fee(e)
  <2>1. Len(types) \in Nat /\ FarePolicy.serviceFee.value \in Nat
    BY FareAssumption
  <2>2. FarePolicy.serviceFee.value * Len(types) \in Nat
    BY <2>1
  <2> HIDE DEF fee
  <2>3. \A dist : fee(dist) =
          CASE FarePolicy.serviceFee.type = "FIXED_PER_BOOKING" -> FarePolicy.serviceFee.value
            [] FarePolicy.serviceFee.type = "FIXED_PER_PASSENGER" -> FarePolicy.serviceFee.value * Len(types)
            [] FarePolicy.serviceFee.type = "PERCENTAGE" -> Percentage(subtotal(dist), FarePolicy.serviceFee.value)
            [] FarePolicy.serviceFee.type = "NONE" -> 0
    BY DEF fee, ServiceFee
  <2>4. /\ Percentage(subtotal(d), FarePolicy.serviceFee.value) \in Nat
        /\ Percentage(subtotal(e), FarePolicy.serviceFee.value) \in Nat
        /\ Percentage(subtotal(d), FarePolicy.serviceFee.value)
             <= Percentage(subtotal(e), FarePolicy.serviceFee.value)
    BY <1>4, <2>1, PercentageGrows
  <2>5. CASE FarePolicy.serviceFee.type = "FIXED_PER_BOOKING"
    BY <2>1, <2>3, <2>5
  <2>6. CASE FarePolicy.serviceFee.type = "FIXED_PER_PASSENGER"
    BY <2>2, <2>3, <2>6
  <2>7. CASE FarePolicy.serviceFee.type = "PERCENTAGE"
    BY <2>3, <2>4, <2>7
  <2>8. CASE FarePolicy.serviceFee.type = "NONE"
    BY <2>3, <2>8
  <2> QED
    BY <2>5, <2>6, <2>7, <2>8, FareAssumption
<1> HIDE DEF fee
<1>6. taxable(d) \in Nat /\ taxable(e) \in Nat /\ taxable(d) <= taxable(e)
  BY <1>4, <1>5
<1> HIDE DEF taxable
<1>7. tax(d) \in Nat /\ tax(e) \in Nat /\ tax(d) <= tax(e)
  <2>1. FarePolicy.tax.percentage \in Nat
    BY FareAssumption
  <2>2. /\ Percentage(taxable(d), FarePolicy.tax.percentage) \in Nat
        /\ Percentage(taxable(e), FarePolicy.tax.percentage) \in Nat
        /\ Percentage(taxable(d), FarePolicy.tax.percentage)
             <= Percentage(taxable(e), FarePolicy.tax.percentage)
    BY <1>6, <2>1, PercentageGrows
  <2> QED
    BY <2>2 DEF Tax
<1> HIDE DEF tax
<1> QED
  BY <1>1, <1>4, <1>5, <1>7
===============================================================================
