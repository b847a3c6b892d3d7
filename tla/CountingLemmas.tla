--------------------------- MODULE CountingLemmas ---------------------------
(***************************************************************************)
(* Facts about least elements and about counting that the proofs of        *)
(* several components use.                                                 *)
(***************************************************************************)
EXTENDS Totals, Integers, FiniteSets, FiniteSetsExt, FiniteSetTheorems, FunctionTheorems,
        WellFoundedInduction, TLAPS

\* Every non-empty set of natural numbers has a least element.
LEMMA LeastNatural ==
    ASSUME NEW S \in SUBSET Nat, S # {}
    PROVE  \E m \in S : \A j \in S : m <= j
<1> DEFINE R == OpToRel(<, Nat)
<1>1. IsWellFoundedOn(R, Nat)
  BY NatLessThanWellFounded
<1>2. PICK x \in S : \A y \in S : ~(<<y, x>> \in R)
  <2> HIDE DEF R
  <2> QED BY <1>1, WFMin, Zenon
<1>3. \A y \in S : ~(y < x)
  BY <1>2 DEF OpToRel
<1> QED BY <1>3

\* Min picks an element of a non-empty set of natural numbers.
LEMMA MinNatural ==
    ASSUME NEW S \in SUBSET Nat, S # {}
    PROVE  Min(S) \in S /\ \A j \in S : Min(S) <= j
BY LeastNatural DEF Min

\* A set with an element that all its elements equal has one element.
LEMMA ExactlyOne ==
    ASSUME NEW S, NEW x \in S, \A y \in S : y = x
    PROVE  Cardinality(S) = 1 /\ IsFiniteSet(S)
<1>1. S = {x}
  OBVIOUS
<1> QED BY <1>1, FS_Singleton

\* An injective function keeps the number of elements.
LEMMA InjectiveImage ==
    ASSUME NEW S, IsFiniteSet(S), NEW f,
           \A x, y \in S : f[x] = f[y] => x = y
    PROVE  /\ IsFiniteSet({f[x] : x \in S})
           /\ Cardinality({f[x] : x \in S}) = Cardinality(S)
<1> DEFINE T == {f[x] : x \in S}
           g == [x \in S |-> f[x]]
<1>1. g \in [S -> T]
  OBVIOUS
<1>2. \A x, y \in S : g[x] = g[y] => x = y
  OBVIOUS
<1>3. \A t \in T : \E x \in S : g[x] = t
  OBVIOUS
<1> HIDE DEF g, T
<1>4. g \in Bijection(S, T)
  BY <1>1, <1>2, <1>3, Fun_IsBij
<1>5. ExistsBijection(S, T)
  BY <1>4, Fun_ExistsBij
<1>6. IsFiniteSet(T) /\ Cardinality(T) = Cardinality(S)
  BY <1>5, FS_Bijection
<1> QED BY <1>6 DEF T

\* The image of a finite set is finite.
LEMMA FiniteImage ==
    ASSUME NEW S, IsFiniteSet(S), NEW f
    PROVE  IsFiniteSet({f[x] : x \in S})
<1> DEFINE T == {f[x] : x \in S}
           g == [x \in S |-> f[x]]
<1>1. g \in [S -> T]
  OBVIOUS
<1>2. \A t \in T : \E x \in S : g[x] = t
  OBVIOUS
<1> HIDE DEF g, T
<1>3. g \in Surjection(S, T)
  BY <1>1, <1>2, Fun_IsSurj
<1>4. IsFiniteSet(T)
  BY <1>3, FS_Surjection
<1> QED BY <1>4 DEF T

\* Two disjoint finite sets count separately.
LEMMA DisjointUnion ==
    ASSUME NEW S, NEW T, IsFiniteSet(S), IsFiniteSet(T), S \cap T = {}
    PROVE  IsFiniteSet(S \cup T) /\ Cardinality(S \cup T) = Cardinality(S) + Cardinality(T)
<1>1. Cardinality(S \cap T) = 0
  BY FS_EmptySet
<1>2. Cardinality(S) \in Nat /\ Cardinality(T) \in Nat
  BY FS_CardinalityType
<1>3. /\ IsFiniteSet(S \cup T)
      /\ Cardinality(S \cup T) = Cardinality(S) + Cardinality(T) - Cardinality(S \cap T)
  BY FS_Union
<1> QED BY <1>1, <1>2, <1>3

-----------------------------------------------------------------------------
(* Sums                                                                    *)

\* One element's units.
LEMMA UnitsOfOne ==
    ASSUME NEW x, NEW k \in Nat
    PROVE  IsFiniteSet({x} \X (1..k)) /\ Cardinality({x} \X (1..k)) = k
<1> DEFINE I == 1..k
           f == [i \in I |-> <<x, i>>]
<1>1. IsFiniteSet(I) /\ Cardinality(I) = k
  BY FS_Interval
<1>2. \A i, j \in I : f[i] = f[j] => i = j
  OBVIOUS
<1>3. {f[i] : i \in I} = {x} \X I
  OBVIOUS
<1> HIDE DEF f, I
<1>4. IsFiniteSet({f[i] : i \in I}) /\ Cardinality({f[i] : i \in I}) = Cardinality(I)
  BY <1>1, <1>2, InjectiveImage
<1>5. IsFiniteSet({x} \X I) /\ Cardinality({x} \X I) = k
  BY <1>1, <1>3, <1>4
<1> QED BY <1>5 DEF I

\* The empty sum.
LEMMA TotalOfNone ==
    ASSUME NEW f
    PROVE  Units(f, {}) = {} /\ Total(f, {}) = 0
BY FS_EmptySet DEF Units, Total

\* Sums of functions that agree on the set are equal.
LEMMA TotalOfEqual ==
    ASSUME NEW S, NEW f, NEW g, \A x \in S : f[x] = g[x]
    PROVE  Units(f, S) = Units(g, S) /\ Total(f, S) = Total(g, S)
<1>1. Units(f, S) = Units(g, S)
  BY DEF Units
<1> QED BY <1>1 DEF Total

\* Elements that contribute nothing can be left out of a sum.
LEMMA TotalWithoutZeros ==
    ASSUME NEW S, NEW T \in SUBSET S, NEW f, NEW g,
           \A x \in T : f[x] = g[x], \A x \in S \ T : f[x] = 0
    PROVE  Total(f, S) = Total(g, T)
<1>1. \A x \in S \ T : 1..f[x] = {}
  OBVIOUS
<1>2. \A z : z \in Units(f, S) <=> \E x \in S : z \in {x} \X (1..f[x])
  BY DEF Units
<1>3. \A z : z \in Units(g, T) <=> \E x \in T : z \in {x} \X (1..g[x])
  BY DEF Units
<1>4. ASSUME NEW z PROVE z \in Units(f, S) <=> z \in Units(g, T)
  <2>1. \A x \in S \ T : z \notin {x} \X (1..f[x])
    BY <1>1
  <2>2. \A x \in T : {x} \X (1..f[x]) = {x} \X (1..g[x])
    OBVIOUS
  <2> QED BY <1>2, <1>3, <2>1, <2>2
<1>5. Units(f, S) = Units(g, T)
  BY <1>4
<1> QED BY <1>5 DEF Total

\* One more element adds its number.
LEMMA TotalWithOneMore ==
    ASSUME NEW S, NEW f, NEW x, x \notin S, f[x] \in Nat, IsFiniteSet(Units(f, S))
    PROVE  IsFiniteSet(Units(f, S \cup {x})) /\ Total(f, S \cup {x}) = Total(f, S) + f[x]
<1>1. PICK k \in Nat : k = f[x]
  OBVIOUS
<1> DEFINE U == Units(f, S)
           V == {x} \X (1..k)
<1>2. IsFiniteSet(V) /\ Cardinality(V) = k
  BY UnitsOfOne
<1>3. U \cap V = {}
  BY DEF Units
<1>4. Units(f, S \cup {x}) = U \cup V
  BY <1>1 DEF Units
<1> HIDE DEF U, V
<1>5. IsFiniteSet(U)
  BY DEF U
<1>6. IsFiniteSet(U \cup V) /\ Cardinality(U \cup V) = Cardinality(U) + Cardinality(V)
  BY <1>2, <1>3, <1>5, DisjointUnion
<1> QED BY <1>1, <1>2, <1>4, <1>6 DEF Total, U

\* Finitely many elements have finitely many units.  The least number of
\* elements for which this fails would be the number of a set whose proper
\* subsets all satisfy it.
LEMMA UnitsAreFinite ==
    ASSUME NEW S, IsFiniteSet(S), NEW f, \A x \in S : f[x] \in Nat
    PROVE  IsFiniteSet(Units(f, S)) /\ Total(f, S) \in Nat
<1> DEFINE Bad == {T \in SUBSET S : ~IsFiniteSet(Units(f, T))}
           N == {Cardinality(T) : T \in Bad}
<1>1. SUFFICES ASSUME Bad # {} PROVE FALSE
  <2>1. IsFiniteSet(Units(f, S))
    BY <1>1
  <2> QED BY <2>1, FS_CardinalityType DEF Total
<1>2. \A T \in SUBSET S : IsFiniteSet(T) /\ Cardinality(T) \in Nat
  BY FS_Subset, FS_CardinalityType
<1>3. N \in SUBSET Nat /\ N # {}
  BY <1>1, <1>2
<1>4. PICK m \in N : \A j \in N : m <= j
  <2> HIDE DEF N
  <2> QED BY <1>3, LeastNatural
<1>5. PICK T \in Bad : Cardinality(T) = m
  OBVIOUS
<1>6. T # {}
  BY <1>5, TotalOfNone, FS_EmptySet
<1>7. PICK x \in T : TRUE
  BY <1>6
<1> DEFINE R == T \ {x}
<1>8. IsFiniteSet(T) /\ R \in SUBSET S /\ x \notin R /\ R \cup {x} = T
  BY <1>2, <1>5, <1>7
<1>9. IsFiniteSet(R) /\ Cardinality(R) = Cardinality(T) - 1
  BY <1>7, <1>8, FS_RemoveElement
<1>10. R \notin Bad
  <2>1. m \in Nat /\ ~(m <= m - 1)
    BY <1>3
  <2> HIDE DEF Bad, R
  <2> QED BY <1>4, <1>5, <1>9, <2>1
<1>11. IsFiniteSet(Units(f, R)) /\ f[x] \in Nat
  BY <1>5, <1>7, <1>8, <1>10
<1>12. IsFiniteSet(Units(f, R \cup {x}))
  <2> HIDE DEF R
  <2> QED BY <1>8, <1>11, TotalWithOneMore
<1> QED BY <1>5, <1>8, <1>12

\* A sum over a finite set, with one more element.
LEMMA TotalAdds ==
    ASSUME NEW S, IsFiniteSet(S), NEW f, NEW x, x \notin S, \A y \in S \cup {x} : f[y] \in Nat
    PROVE  Total(f, S \cup {x}) = Total(f, S) + f[x] /\ Total(f, S) \in Nat
<1>1. IsFiniteSet(Units(f, S)) /\ Total(f, S) \in Nat
  BY UnitsAreFinite
<1>2. f[x] \in Nat
  OBVIOUS
<1> QED BY <1>1, <1>2, TotalWithOneMore

\* A sum in which one element's number grows.
LEMMA TotalGrows ==
    ASSUME NEW S, IsFiniteSet(S), NEW f, NEW g, NEW x \in S, NEW d \in Nat,
           \A y \in S : f[y] \in Nat, \A y \in S : y # x => g[y] = f[y], g[x] = f[x] + d
    PROVE  Total(g, S) = Total(f, S) + d
<1> DEFINE R == S \ {x}
<1>1. IsFiniteSet(R) /\ x \notin R /\ R \cup {x} = S
  BY FS_RemoveElement
<1>2. PICK a \in Nat : a = f[x]
  OBVIOUS
<1>3. \A y \in S : g[y] \in Nat
  <2>1. a + d \in Nat
    OBVIOUS
  <2> QED BY <1>2, <2>1
<1>4. Total(f, R) = Total(g, R)
  BY TotalOfEqual
<1> HIDE DEF R
<1>5. ASSUME NEW h, \A y \in R \cup {x} : h[y] \in Nat
      PROVE  Total(h, R \cup {x}) = Total(h, R) + h[x] /\ Total(h, R) \in Nat
  BY <1>1, <1>5, TotalAdds
<1>6. Total(f, S) = Total(f, R) + f[x] /\ Total(f, R) \in Nat
  BY <1>1, <1>5
<1>7. Total(g, S) = Total(g, R) + g[x]
  <2>1. \A y \in R \cup {x} : g[y] \in Nat
    BY <1>1, <1>3
  <2>2. Total(g, R \cup {x}) = Total(g, R) + g[x]
    BY <1>5, <2>1, Zenon
  <2> QED BY <1>1, <2>2
<1> QED BY <1>2, <1>4, <1>6, <1>7

\* The sizes of finitely many finite sets that share no element add up to the
\* size of their union: no subset of S is the least for which this fails.
LEMMA TotalOfSizes ==
    ASSUME NEW S, IsFiniteSet(S), NEW f, NEW F,
           \A x \in S : IsFiniteSet(F[x]) /\ f[x] = Cardinality(F[x]),
           \A x, y \in S : x # y => F[x] \cap F[y] = {},
           NEW U, \A z : z \in U <=> \E x \in S : z \in F[x]
    PROVE  IsFiniteSet(U) /\ Total(f, S) = Cardinality(U)
<1> DEFINE All(T) == UNION {F[x] : x \in T}
           Good(T) == IsFiniteSet(All(T)) /\ Total(f, T) = Cardinality(All(T))
           Bad == {T \in SUBSET S : ~Good(T)}
           N == {Cardinality(T) : T \in Bad}
<1>1. SUFFICES ASSUME Bad # {} PROVE FALSE
  <2>1. All(S) = U
    OBVIOUS
  <2>2. Good(S)
    BY <1>1
  <2> QED BY <2>1, <2>2
<1>2. \A T \in SUBSET S : IsFiniteSet(T) /\ Cardinality(T) \in Nat
  BY FS_Subset, FS_CardinalityType
<1>3. N \in SUBSET Nat /\ N # {}
  <2> HIDE DEF Good
  <2> QED BY <1>1, <1>2
<1>4. PICK m \in N : \A j \in N : m <= j
  <2> HIDE DEF N
  <2> QED BY <1>3, LeastNatural
<1>5. PICK T \in Bad : Cardinality(T) = m
  OBVIOUS
<1>6. T # {}
  <2>1. All({}) = {}
    OBVIOUS
  <2>2. Good({})
    <3> HIDE DEF All
    <3> QED BY <2>1, TotalOfNone, FS_EmptySet
  <2> QED BY <1>5, <2>2
<1>7. PICK x \in T : TRUE
  BY <1>6
<1> DEFINE R == T \ {x}
<1>8. IsFiniteSet(T) /\ R \in SUBSET S /\ x \notin R /\ R \cup {x} = T /\ x \in S
  BY <1>2, <1>5, <1>7
<1>9. IsFiniteSet(R) /\ Cardinality(R) = Cardinality(T) - 1
  BY <1>7, <1>8, FS_RemoveElement
<1>10. R \notin Bad
  <2>1. m \in Nat /\ ~(m <= m - 1)
    <3> HIDE DEF N
    <3> QED BY <1>3
  <2> HIDE DEF Bad, R
  <2> QED BY <1>4, <1>5, <1>9, <2>1
<1>11. Good(R)
  BY <1>8, <1>10
<1>12. \A y \in R \cup {x} : f[y] \in Nat
  BY <1>8, FS_CardinalityType
<1>13. Total(f, T) = Total(f, R) + f[x]
  <2> HIDE DEF R
  <2>1. ASSUME NEW A, IsFiniteSet(A), NEW a, a \notin A, \A y \in A \cup {a} : f[y] \in Nat
        PROVE  Total(f, A \cup {a}) = Total(f, A) + f[a]
    BY <2>1, TotalAdds, ZenonT(40)
  <2>2. Total(f, R \cup {x}) = Total(f, R) + f[x]
    BY <1>8, <1>9, <1>12, <2>1
  <2> QED BY <1>8, <2>2
<1>14. All(T) = All(R) \cup F[x]
  BY <1>8
<1>15. All(R) \cap F[x] = {}
  BY <1>8
<1>16. IsFiniteSet(F[x]) /\ f[x] = Cardinality(F[x])
  BY <1>8
<1>17. Good(T)
  <2>1. IsFiniteSet(All(R)) /\ Total(f, R) = Cardinality(All(R))
    BY <1>11
  <2> HIDE DEF All, R
  <2>2. IsFiniteSet(All(R) \cup F[x]) /\ Cardinality(All(R) \cup F[x]) = Cardinality(All(R)) + Cardinality(F[x])
    BY <1>15, <1>16, <2>1, DisjointUnion
  <2> QED BY <1>13, <1>14, <1>16, <2>1, <2>2
<1> QED BY <1>5, <1>17

=============================================================================
